# toycc: a verification development

toycc is a C compiler for 64-bit RISC-V in the style of chibicc: a driver that
runs itself as the compiler proper, an assembler and a linker; a preprocessor; a
recursive-descent parser that types its tree as it goes; and a code generator
that prints assembly text straight from the tree. This directory holds TLA+
models of the parts in which state matters, the TLC runs that check them on
small instances, and proofs of the central results for every instance.

Contents

1. The system, its parts and what makes each correct
2. The modules and how they follow the code
3. The runs: what each asks, its bounds, its fairness
4. What is proved, and how
5. Where the code deviates
6. What is not modelled, and the plan
7. Running it

## 1. The system

    command line
       |  main.c                                   files, processes
       v
    driver --fork/exec--> cc1 ------------------> as ----> ld
                           |
         tokenize.c -> preprocess.c -> parser.c, declarator.c, initializer.c, type.c
                       (macros.buckets:  (scopes and tags: hashmap.c;
                        hashmap.c)        list of struct Obj: scope.c)
                                             |
                                             v
                                        codegen.c -> assembly text

One compiler process is sequential. Concurrency occurs in two places: several
drivers with their children share a directory (`make -j`), and the *generated*
code for `_Atomic` objects is run by several threads. Failure occurs in the
driver (children fail or are killed, `fork` fails, the disk is full). Everything
else that is hard comes from order: of declarations and references, of lines and
headers, of nested expansions, statements and calls.

| part | state | operations | interacts with | correct when |
|---|---|---|---|---|
| hash table (`hashmap.c`) | buckets, `capacity`, `used` | `hashmap_get2`, `put2`, `delete2`, `rehash` | scopes, tags, macro table, keyword table, file caches all call it | it is a dictionary; probes end; `rehash` ends and loses nothing |
| directives and the search for headers (`preprocess.c`) | tokens ahead, stack `cond_incl`, macro table, include guards, `#pragma once`, cache of paths, `include_next_idx` | one case per directive, `skip_cond_incl`, `include_file`, `search_include_paths`, `search_include_next` | tokenizer gives tokens and the name of their file, macro expansion gets lines | output and macro table are those of the live lines; each `#include` opens the file C calls for; errors are reported where there is one and nowhere else |
| macro expansion (`preprocess.c`) | hidesets in tokens, recursion of `preprocess2` and `subst` | `expand_macro`, `subst`, `paste`, `stringize` | the macro table | expansion stops and is what the standard says |
| declarations and linkage (`parser.c`, `scope.c`) | list of `struct Obj`, scopes, `current_fn`, `refs`, `is_root`, `is_live`, `is_tentative` | prototypes, definitions, references, `mark_live`, `scan_globals` | `emit_data` and `emit_text` print what is left | whatever is called is emitted, nothing dead is, one definition per object |
| statements (`parser.c`, `codegen.c`) | `brk_label`, `cont_label`, `current_switch`, lists of cases, labels and gotos | `stmt`, `compound_stmt`, `resolve_goto_labels`, `gen_stmt` | expressions | the jumps go where C goes |
| integer expressions (`type.c`, `codegen.c`, `common.c`) | types of nodes, register a0, constant values | `add_type`, `cast`, `load`, `gen_expr`, `eval2` | statements, initializers | type, register and constant are those of C |
| struct and union layout (`declarator.c`) | members, attributes; `bits`, `offset`, `bit_offset`, `align`, `size` | `struct_members`, `attribute_list`, the loops of `struct_decl` and `union_decl` | member access and initializers go by the offsets | no two members share a bit, and other compilers lay the struct out alike |
| member access (`codegen.c`) | registers and the bytes of the object | `ND_MEMBER`, `ND_ASSIGN` to a bit-field | layout | a write changes its own member only, a read returns what was written |
| initializers (`initializer.c`) | the tree of `struct Initializer`, `init->mem`, the place in the tokens; the image of a global | the descent of `initializer2`, `designation`, `create_lvar_init`, `write_gvar_data` | layout, constant expressions | each scalar gets its own value; a global begins like a local |
| floating registers (`codegen.c`) | `ld_sp`, and at run time a0-a7, fa0, fs0-fs11, ft0-ft11 | `push_ld`, `pop_ld`, `gen_expr`, prologue and epilogue | calls, statements | a value is where its consumer looks; the caller's registers come back |
| calls (`codegen.c`) | stack and `depth`, argument registers, `t1`, frame offsets | `push_args`, `push_args2`, `push_struct`, `ND_FUNCALL`; `assign_lvar_offsets`, `emit_text` | both sides are compiled apart | arguments arrive; the stack is aligned and restored |
| atomic objects (`parser.c`, `codegen.c`) | the object in memory, locals of the retry loop, reservations | `to_assign` (op=), `ND_CAS`, `ND_EXCH` | other threads | each call takes effect in one step, and returns |
| driver (`main.c`) | files, `tmpfiles`, `ld_args`, exit status | per input file: which tools run, with which files; `run_subprocess`, `cleanup` | child processes, other drivers, the file system | exit status 0 means built, failure harms nothing, nothing temporary stays, it ends |
| tokenizer, declarators, predefined macros, options, frames | see section 6 | | | |

The hazards, each at its line and with the properties that would catch it, are
the list `hazards` of PROJECT.json; the properties were chosen from it.

## 2. The modules

Every module follows the code action by action; PROJECT.json `map` names the
lines of each definition. Actions or operators introduced by "Faulty:" or
"Mutant:" are variants with a plausible mistake; they are not part of any
specification, and show that the property they belong to can fail.

**SymbolTable, HashMap, HashMapProofs.** `SymbolTable` is the dictionary the
users of hashmap.c rely on; `HashMap` is the table. `map` and `map2` are the two
`struct HashMap`; `pc`, `op` and `idx` are the progress of `hashmap_put2` and of
the loops of `rehash()`. `Call` is `hashmap_put2` up to its probe, with the
watermark test; `Double`, `Sized`, `CopyEntry`, `Swap`, `AssertFails` are
`rehash()`; `Insert` is `get_or_insert_entry` with the store; `Delete` is
`hashmap_delete2`. Keys are abstract with a constant `Hash`; the two special key
pointers are `NULL` and `TOMBSTONE`. `HashMap!Symbols` is the refinement mapping:
the dictionary is what `get_entry` returns for each key.

**AtomicCalls, AtomicObject, AtomicOp, AtomicOpProofs.** `AtomicObject` is what C
promises: a call applies its whole effect once, in one step. `AtomicOp` is the
loop `to_assign()` builds for `A op= B` and the instruction sequences of `ND_CAS`
(lr.w, bne, sc.w, bnez, subw, sw) and `ND_EXCH`, one access to the object per
step. A store conditional may fail for no reason. `EnterCas` takes the operands of
a `__builtin_compare_and_swap` to be evaluated by code that leaves t0-t2 alone
(codegen.c:1347-1357); `to_assign()` passes plain locals. `Kind` is the type of the
object; a word holds `2 * HALF` values. `Linearizable` is the refinement, with
`Decided` as the mapping: a call is decided at the sc.w that stores, or at the
lr.w that reads something else.

**Linkage, LinkageProofs.** The translation unit is any sequence of prototypes, bodies with
references, block-scope prototypes, variables and initializers; `objs` is every
`struct Obj`, `nxt` and `globals` the linked list, in the order of `new_gvar`.
`MarkLive`, `Keep`, `Drop` and `ScanDone` are the passes at the end, list
surgery included. `uses` is a history variable: what the source refers to, apart
from what the parser recorded.

**Directives.** One action per directive on the lines ahead, `skip` for the two
skipping functions. The source is chosen line by line as it is read, headers are
constants, in `Dirs` or in the directory of the source, `Here`. `Include` and
`IncludeNext` hold the search: `Search` with the `cache` and what it does to
`include_next_idx`. `files` is the name of the file a token comes from. The
reference, `LiveTexts`, `Live` and `Broken`, is computed from the lines read so
far alone: which group a line is in, which group of a section is the first to
hold; it shares nothing with the stack machine. `Wanted` is the file C calls for,
without cache or index, and `Fresh` says of which `#include_next` that can be
asked.

**MacroExpand.** The call stack of `preprocess2` and `subst`, tokens with their
hidesets, and arguments that are expanded in place and used again: `Relinked`
keeps the sharing of tokens that the code has. The reference, in `MCMacroExpand`,
is expansion by nested disabling of names, the wording of the C standard.

**Driver, DriverProofs.** Each driver is a process that works off its inputs (`Library`,
`Assembly`, `CompileOnly`, `CompileAndAssemble`, `CompileAndLink`), starts a
child (`Fork`), waits (`Reap`), returns with an error at the first failure and
removes its temporary files (`Cleanup`). A child opens its output, writes and
closes it (`ChildOpens`, `ChildCloses`), fails before (`ChildFails`), or is
killed by a signal before or in between (`ChildKilled`), which leaves its output
`Cut`. A file's content is the history of its making, so a result made from the
wrong file shows. The assembler and the linker are external; they are modelled from how main.c
calls them. `CommandLines` is what the option variables can hold.
`FilesAssumption` is what the user has to see to: drivers that run at once make
different files, none of them an input; and mkstemp makes names that no command
line has.

**Statements.** The source is chosen statement by statement while `stmt()` parses
it (`Leaf`, `Open`, `CloseSwitch`, `CloseLoop`, ...); then `gen_stmt()` turns the
tree into instructions and labels, and a machine runs them beside an interpreter
of the statements, with the outcomes of conditions chosen freely. Of expressions
only the event that they are evaluated is left.

**IntExpr, IntExprProofs.** Expressions are built bottom up; a state holds the
operands of the node that comes next. An operand is what its parent sees: the
type `add_type()` gave it (`ty`), what a0 holds after its code (`reg`), what
`eval2()` returns (`const`), and, as the reference, type and value in C (`type`,
`cval`). So states are finitely many whatever the depth of the expression. The
parser's rewritings are followed as it makes them: `>` with its operands
exchanged (`Greater`), `A op= C` (`OpAssign`, `Prefix`), `A++` as
`(A += 1) - 1` (`Postfix`), `a ?: b` with a temporary (`Elvis`). Numbers of any
width are integers cut by `Low` and `Extended`; `Pow2` and `LowBits` (`& | ^`, bit
by bit) are recursive functions. `Moves` is the set of conversions that emit no
code, unsigned int to itself among them: an unsigned int stays in the form its
operator left it in. `WeakOps`, `WeakCasts` and `WeakAlike` name the combinations
for which the code does not keep its own conventions (section 5).

**StructLayout.** A declaration is written attribute by
attribute and member by member (`Pack`, `Aligned`, `AddMember`, `CloseBrace`);
then each round of the loop of `struct_decl()` or `union_decl()` is an action
(`PlaceZeroWidth`, `PlaceBitField`, `PlaceOrdinary`, `EndStruct`, `PlaceInUnion`,
`EndUnion`). `LayoutIsABI` is written without rounding: a member begins at the
first position at which the psABI lets it begin.

**MemberAccess, StructLayoutProofs.** What is laid out is read and written as `gen_expr()` does it,
with loads, shifts and masks on registers of 64 bits. A bit is known by where it
comes from, `<<"old", p>>` or `<<"new", k>>`, so one evaluation stands for all
values: a bit that comes to lie in a wrong place shows. `ScalarsAssumption` says
that a scalar has 1, 2, 4 or 8 bytes, `PowersAssumption` that alignments are powers
of two, as far as that matters: the smaller of two divides the larger, and a
bit-field's type is aligned to a multiple of its size.

**Initializer, InitializerCursor.** An initializer is written token by token
(`WriteToken`); `ParseInitializer` runs the recursive descent of
`initializer2()`, one operator per function of initializer.c, and `StoreValues`
both ways to use the result: `Assigned` is `create_lvar_init()`, after
`memzero`, and `Serialized` is `write_gvar_data()`, into cleared or uncleared
memory. A value is the number of its token. `InitializerCursor` is the reference,
after C11 6.7.9: a *current object* that moves through the object as the tokens
go by, and notes of which value is for which place. It has no descent and
shares nothing with the code.

**FloatExpr, FloatExprProofs.** One action
per kind of node, in the order `gen_expr()` visits them; each does at once what
the compiler does (`ld_sp`) and what the emitted code does on `regs` and `mem`. A
value is the number of the operation that computed it. In an arm that is not
taken only the compiler's part happens (`Live`, `Exec`): that is the difference
between the height the compiler counts and the height there is. `shapes` collects
what is known to go wrong. The routines of libgcc that compute with long double
are external: `RoutineFt` are the registers among ft0-ft11 they use, which the
calling convention lets them.

**CallConv, CallConvProofs.** The caller is a stack machine: `Begin` is `push_args()` up to the
first argument, `PushArg` and `PushLarge` are `push_args2()` and `push_struct()`,
`EvalCall` makes an argument a call of its own, `OverwriteT1` is an argument whose
code writes t1 without a call, `Load` is the pops, `Return` the
`jalr` with what follows. `fn` is the function whose body makes the calls;
`PrologueWords` is by how much its prologue moves sp, with `StackSize` from
`assign_lvar_offsets()`. A word on the stack is known by the call, the argument
and the number of the word in it. The called function is a set of operators on
its parameter list alone, since it is compiled apart: `Placed` is
`assign_lvar_offsets()`, `Saved` and `VaSize` are the prologue.

## 3. The runs

Deadlock checking is off where the program stops (all runs but `callconv`, whose
machine goes on to the next call). Every bound is a constant in a guard, except
that `floats` does not go on from a function that is not `Plain` (it can become
plain no more, and every property of values is about plain functions). Symmetry
is used in `linkage` only, for the two function names, and there no liveness is
checked.

| run | question | bounds |
|---|---|---|
| `hashmap` | put, delete and rehash in every order: counter, chains, ends of probes, effect on other keys; and, while nothing was deleted, the dictionary | 3 keys with 2 home slots, first size 4: two sizes, tombstones, wrap-around and all three collide |
| `atomic_int` | three threads on one `_Atomic int` | 3-bit words, 5 calls, 2 starting values: overflow, ABA by exchange, failing and succeeding cas all happen |
| `linkage` | every translation unit of up to five objects | 2 functions, 1 variable: mutual recursion, redeclaration, use before definition |
| `linkage_data` | is a function that only an initializer names emitted? (no) | the same |
| `directives` | every source of five lines of 16 kinds, with eight headers in the directory of the source and in three include paths | five lines hold `#if #elif #else #endif` with a text, or two nested sections; headers reach seven more, include each other five deep, share names across directories, go on with `#include_next`, or leave a section open |
| `macro` | 604 macro tables, 7 lines | two object-like and one function-like macro: self and mutual reference, nested and unfinished invocations, `#`, `##`; `MaxTokens` is never reached, or `Terminates` would fail |
| `driver` | two drivers, eight command lines against one | 3 names for mkstemp, each tool can fail or be killed at each point, `fork` and `mkstemp` can fail |
| `integers` | expressions of any depth over 7 types | widths 2, 3, 4 for char, int, long: the smallest that differ, with every value, and _Bool |
| `statements` | functions of up to eight statements | the five limits of `MCStatements`: all kinds in five statements, and more of those that interact |
| `callconv` | every list of up to four parameters of six kinds, calls in arguments to depth three | 2 registers of each kind: lists shorter, equal to and longer than the registers, halves included; two calling functions, with prologues of three and of six words |
| `objects` | every struct and union of up to three members of 17 kinds, with attributes; ten of them with every initializer of up to nine tokens | a bit-field, what goes before it and what comes after; units of 1, 2, 4 and 8 bytes, widths that fit and that do not, `int : 0`, arrays, a flexible array, nested and anonymous structs; alone, as an array of two and as an array without a length, where nine tokens hold two braced elements or three designators |
| `floats` | functions of up to seven operations on int, double and long double | three functions to call; two values held under an operator, a conditional with an operator in one arm, and a call among them. The seventh long double that is held, and all longer functions, are covered by the proofs |

What they show.

* `hashmap`: `UsedIsOccupancy`, `NoHoles`, `ProbesEnd` and `NoNestedRehash` hold
  with deletes; `OpEffects` says that an operation changes the reading of its
  own key only. The dictionary (`ImplementsSymbolTable`) and the assertion in
  `rehash()` (`SoundWithoutDelete`) hold until the first delete: the variable
  `deletes` separates tables no caller deletes from (all but the macro table)
  from the one `#undef` uses. `PutReturns`: every put ends.
* `atomic_int`: `Linearizable` is the abstract specification as a property;
  `CallsReturn` says that the loops end.
* `linkage`: `CallsResolved` and `EmittedIsNeeded` are the two halves of pruning;
  `OneDefinition` is the result of `scan_globals`.
* `directives`: output and errors against the reference, after every line, and
  in `IncludesFindTheirFile` the file of every `#include` against the one C calls
  for; `macro`: the result against the reference, and termination.
* `driver`: `SuccessMeansBuilt` is about content, not existence.
  `FailureKeepsOutputs` and `NoTmpfileLeft` are about every way to fail but the
  ones the driver cannot notice (`unseen`) or survive (a kill of its own). That of a
  child it does notice: `FailureKeepsOutputs` says that part of a result stays
  only where a child was killed as it wrote it, at one path at most, and that the
  status is then 1. With `-S` a
  result can vanish too, if a library is given: the linker runs even then, and
  when it fails it may remove what was at its output. One command line of the run
  has both.
* `integers`: `RegisterHoldsValue` is the convention every consumer of a register
  relies on. The combinations for which the code does not keep it are named,
  `WeakOps`, `WeakCasts` and `WeakAlike`, and left out; within the rest everything agrees.
  `TypeIsRight` and `ConstantIsValue` are the other two views of a node.
* `statements`: `SameEvents` compares the machine with the statements at every
  step; `RejectedIsWrong` is the other side, that nothing correct is rejected;
  `ReachesEvents`, that the jumps between two events come to an end.
* `callconv`: `ArgumentsArrive` is an equivalence. `Agreed` says in terms of the
  list alone for which lists both sides agree; TLC finds that for every other
  list some argument does not arrive, so the condition is exact. `AlignedAtCall` is
  one too: sp is a multiple of 16 at the calls of a function exactly if its
  prologue leaves it one, which some prologues do not; what the caller pushes
  neither spoils the alignment nor repairs it. `StackRestored` is about the stack
  around every call, nested ones included.
* `objects`: `MembersDisjoint` and `LayoutIsABI` are about the layout,
  `MembersIndependent` about the code that goes by it. `InitializerIsReference`
  compares descent and cursor, for every list of tokens both accept;
  `PlainIsAccepted` is the other side. `GlobalIsLocal` compares the two ways of
  storing, bit by bit, also where the image was not cleared.
* `floats`: `ValuesArrive` says that no consumer sees a value other than C's;
  `OnlyDeepIsRejected` that the compiler, the assembler and the assertion of the
  epilogue stop nothing but a sixth long double; `CallersRegistersKept`
  that fs0-fs11 come back, in functions that call nothing that may change them,
  but for those whose ft register a routine of libgcc uses (`RoutineFt`, in the
  run ft0).

Fairness. `hashmap`, `macro`, `statements`: a sequential program that can take a
step takes one (weak fairness of the step, never of the caller's next call).
`atomic_int`: threads are scheduled (weak), and a store conditional that is
reached again and again succeeds at some time (strong): the loop from lr.w to
bnez is four instructions long with nothing but branches in it, for which the
RISC-V manual makes this promise. `driver`: the system schedules each driver and
each child (weak); failures, kills and short writes are never fair. The other
runs check safety only.

Every property is checked to fail for one faulty variant of a mapped definition
(`mutants`).

## 4. The proofs

TLAPS checks these for all values of the constants that satisfy the named
assumptions; `theorems` in PROJECT.json lists them.

* **HashMapProofs.** `HashMapTypeOK`, `HashMapUsed`, `HashMapNoHoles`,
  `HashMapProbesEnd`, `HashMapNoNestedRehash`: any finite or infinite set of
  keys, any hash function, any sizes with `INIT_SIZE * (100 - HIGH_WATERMARK) >
  100` (16 and 70 in the code). The invariant `IInv` is needed because none of
  the properties is inductive: probes end because the table is *roomy* (chains
  without holes, the counter right, load below 100 percent), the counter is right
  because stores and deletes move it with the buckets, and the put inside
  `rehash()` needs no rehash because `map2.used` is bounded by the live keys
  below `idx` (`LiveBelow`), which are fewer than the low watermark allows. The
  lemmas are about division, about probe slots (`SlotInjective`, `SlotOnto`: a
  probe visits every bucket once) and about one store or delete in a table.
  `HashMapOpEffects` holds with deletes, so the table
  may hold keys twice: a put finds the first bucket its lookup would find, a
  delete leaves the probes of other keys alone, and a rehash only gets past its
  assertion if no key was there twice. That is `AssertMeansDistinct`, by counting:
  the copy loop maps the live buckets of the old table onto those of the new one
  (`CopiedBelow`, `FromBelow`), and a surjection between sets of one size is
  injective. `HashMapSound` and `HashMapIsDictionary` add `Clean`: without deletes
  there are no tombstones, so a key that is stored at a free bucket is nowhere else.
* **AtomicOpProofs.** `AtomicOpTypeOK` and `AtomicOpLinearizable`: any number of
  threads, any word size, any calls, for `Kind = "int"`. `ThreadOK` ties a
  thread's registers to its place in the code; with a reservation that stands,
  the object still holds what lr.w read. The refinement is step by step: exactly
  one step of a call (a storing sc.w, an amoswap, or an lr.w whose comparison
  fails for good) is a step of the atomic object, the others stutter.
* **IntExprProofs.** All three views of an expression, for all widths with
  1 < char < int < long and expressions of any size. `IntExprTypes`: `add_type()`
  gives each node its C type, if `~` and the shifts are not applied to `_Bool` and
  char types; the core is `CommonTypeIsUsual`, that `get_common_type()` is the
  usual arithmetic conversions. `IntExprRegisters` and `IntExprConstants` are about
  every value: the code computes what C defines, and so does `eval2()`. What is
  inductive is sharper than the properties: a register holds its value with the
  sign extended, an unsigned int possibly that of an int (`Reg`), and a constant is
  the value itself (`Const`); `StandsFor` would not do, as a cast of an unsigned
  int looks at more than its lower half. Numbers are compared by congruence,
  `Same(w, x, y)`: equal in their lowest w bits. Sums, products and
  two's complement bits keep it, a value is the only one of its type in its class
  (`SameUnique`), and so each instruction need only be right in the bits it writes
  (`ArithmeticReg`, `ComparisonReg`, `ShiftReg`). `CastIs` goes through the pairs of
  types in `cast_matrix`; `EvalOutcome` through the ways of `eval2()`;
  `BackAgain` says that `(A += 1) - 1` is A also when the sum wraps. Hypotheses:
  `Restricted`, that `WeakOps`, `WeakCasts` and `WeakAlike` are left out (for them
  the statements are false; `WeakAlike` only where the two forms differ) and that an int can count
  the bits of a register, as 64 <= 2^31; for constants also `NoFoldedUnsigned`, that none is followed through
  `_Bool` or unsigned int. The run satisfies them.
* **StructLayoutProofs.** Any list of members of any sizes and alignments, any
  bit-field widths up to the size of their type, any attributes.
  `StructMembersDisjoint`: the invariant says that everything placed ends at or
  before `bits` and that a bit-field ends in its unit; the work is in the lemmas
  about `\div` and `%`, that `align_to` goes up to the next multiple and that two
  positions in one unit are as far apart as their remainders.
  `StructLayoutIsABI`: `bits` is at each round what fills the struct before `This`
  in the sense of the ABI (`Fills`, `Laying`); `FieldStartIsFirst` and
  `OrdinaryStartIsFirst` say that the arithmetic of a round finds the first
  position the ABI allows, `FilledIs` that the recursive definition of the
  reference has no other solution.
  `StructMembersIndependent`, about the code of MemberAccess: `Slotted` says that
  units lie at multiples of their size and `UnitInObject` that a unit does not
  stick out of the object. `ReadIs` gives each bit the loads and shifts yield,
  `WriteIs` each bit of memory after a store, with the mask; a bit of another
  member is not among those that change, since members are disjoint.
* **FloatExprProofs.** Functions of any
  length, any nesting of conditionals, any set of functions to call, outside the
  eight `Shapes`. `FloatOnlyDeepIsRejected` rests on `IInv`: `ld_sp` is twice
  the number of long doubles held (`Count`), which is at most five, so a rejection
  means a sixth. `FloatCallersRegistersKept` rests on `RInv`: as long as nothing
  was called that may change them, ft0-ft11 hold the caller's fs0-fs11, and the
  epilogue finds them there, whatever `RoutineFt` is, but for its members.
  `FloatValuesArrive` rests on `VInv`: each
  long double that was computed by code that runs lies in the pair of its `Depth`
  (`Right`), the words on the memory stack are in the order of the operands
  (`InMemory`), the operand on top is in its register (`InRegister`), and a
  conditional remembers the value of the arm that was taken (`OtherKept`) across
  the arm that was not. `Nested` orders the arms by the operands below
  them; without it an inner arm could use up an outer operand.

* **LinkageProofs.** `LinkageCallsResolved`, `LinkageEmittedIsNeeded`,
  `LinkageOneDefinition`: translation units of any number of objects over any
  names. None of them is inductive, and what they need is that four structures
  agree all along, `IInv`: the list linked through `nxt` (an object points to an
  older one; while it is parsed, every object is on it), the file scope
  (`Named`), what a function recorded of its references (`UsesRecorded`: all of
  `uses`, but those of data), and the marks (`Marked`: a live function's members
  are live or still to be visited; whatever is live is in every `Closed` set). In
  `scan_globals` the list is what was kept, then the rest of the old list
  (`Scanning`); an object is only dropped while another definition of its name is
  on the list, so one stays. `Listed`, what is on the list, is a recursive
  function of `nxt`; the lemmas up to `ChainIsReach` say what it does when one
  link changes.
* **DriverProofs.** `DriverLeavesNoTmpfile`, `DriverSuccess`, `DriverFailure`: any
  number of drivers in one directory, command lines of any length, under
  `FilesAssumption`. A result is only right if the files it is made from still
  hold what they held when its making was planned, so `IInv` says what every file
  a driver still needs will hold. `Apart`: temporary files have one owner.
  `SourcesKept`: nobody writes an input. `OnCourse`: running the child and then
  the jobs of `todo` (`Pending`) on the files as they are leads to the result of
  this turn. `ArgsOnCourse`: the arguments collected for the linker hold, input by
  input, what `LinkedBefore` calls for; that the two grow alike is an induction
  over `FlattenSeq`. `Kept`: the results of earlier turns are there, those of later
  ones untouched. `Elsewhere` is the half about concurrency: a step of one driver
  leaves the files alone that another driver's part of `IInv` speaks of.
  `DriverFailure` adds `CutInv`: a driver has at most one cut result, and then its
  killed child was the last one, and the driver has that still to see or has
  stopped with 1; no plan ever calls for a cut file (`MarksApart`,
  `ProductIsWhole`, from `NoFileAssumption`).
* **CallConvProofs.** `CallConvAlignedAtCall`, `CallConvStackRestored`: any number
  of argument registers, any lists of arguments, calls nested to any depth
  (`RegsAssumption`, `LevelAssumption`, `CallsAssumption`). That the code takes off
  the stack what it put there is seen only at the end of a call, with calls inside
  calls in between; so `IInv` says for each level that is open (`Balanced`) that the
  stack stands on the words the call found, and that its length and the compiler's
  `depth` are what `push_args()` counted less what is not yet pushed
  (`PushedOf`, `CopiedOf`, `PadOf`). So what is on the stack at a call is
  an even number of words, and the alignment of sp there is that of the prologue, for any function
  (`FunctionsAssumption`). `Known` is why `AlignedAtCall` has its
  condition: `depth` leaves out the room for large structs until they are copied.
  Four loops must agree about each argument, and each is a lemma: the count
  of `push_args()` puts every word in a register or on the stack, never both
  (`CountsAre`); the two passes of `push_args2()` evaluate every argument once
  (`OrderIs`); what is pushed for the registers is what the call pops
  (`LoadedIs`). Sums over arguments are cardinalities (`Total`), and loops go by
  `Climb`, which rests on `Smallest`.

Only model-checked: everything in Directives, MacroExpand, Statements and
Initializer; `ArgumentsArrive`; and
all liveness properties and fairness, which are out of the prover's reach, as is
what RECURSIVE operators compute. Those (the reference expansion, and the descent
and the cursor of initializers) are in modules of their own, away from anything
proved. Recursive functions are not out of reach: the library's induction theorem
takes an operator and cannot be used, but `Smallest`, that a set of numbers has a
smallest member, can, and the inductions of LinkageProofs, DriverProofs,
CallConvProofs, StructLayoutProofs and IntExprProofs argue from the smallest
counterexample.

## 5. Where the code deviates

One run ends in a violation, against a comment of the repository's own:
`linkage_data`: a static inline function referred to by an initializer behind a
function body is not emitted (parser/parser.c:262, codegen.c:2017).

Known and left out of the passing runs by name, so that the rest can be checked:

* `SoundWithoutDelete` ends with the first delete: a put after a delete may store
  a key a second time, and the assertion of `rehash()` stops the compiler
  (hashmap.c:61, 102).
* `OutputIsLiveText`: a header whose first section has an `#else`, or text behind
  it, counts as guarded and is skipped the second time (preprocess.c:919); no
  header of the run has that shape.
* `Fresh` (Directives): `#include_next` goes on from where the last search ended.
  Behind a hit in the cache, or behind the search for another name, that is a
  wrong place; a header beside the source that uses it can include itself
  without end (preprocess.c:961, 978).
* `Mixed` (StructLayout): in a packed struct an ordinary member behind a bit-field
  that ends within a byte begins inside the bit-field (declarator.c:211).
* `FullWidth` (MemberAccess): the mask of a bit-field of 64 bits is 0, nothing is
  stored (codegen.c:1098).
* `Lost`, `image.fresh` (InitializerCursor): the image of a global ends at the
  first bit-field without a value (initializer.c:667), the memory for it is not
  cleared (initializer.c:732), and a bit-field of a union is not cut to its width.
* `PlainIsAccepted` names what C11 accepts and the parser rejects: empty braces, a
  comma in front of `}` in places, `Nested` designators, designators
  `IntoFlexible` arrays, a second value for a union (which its comment says).
  `{ "ab" }` in braces of its own is taken apart, against C11 6.7.9p14.
* `Shapes` (FloatExpr), nearly all of long double: the sign of `-x` is changed in a
  register nobody reads; a value that is popped while others wait below it, as in
  `x - (y - z)`, comes in the registers of its depth; the value of an assignment
  (`x = y = z`, `x++`) is gone; a value nobody uses stays, and the assertion at
  codegen.c:2156 stops the compiler; both arms of `?:` count; `&&` of operands of
  different types and a cast of any floating type to `_Bool` test the wrong
  register; and a value held
  over a call may be changed by it.
* `OnlyDeepIsRejected`: the sixth long double is rejected, though the twelve
  registers hold six (codegen.c:124). `CallersRegistersKept`: fs0-fs11 are saved
  in ft0-ft11, which any called function may change, a routine of libgcc included
  (`RoutineFt`).
* `atomic_int` is about int. For `unsigned` and `long`, the 64-bit bne and the
  32-bit subw disagree, and a compare-and-swap can report success without having
  stored; TLC shows it with `Kind = "uint"` or `"long"`.
* `WeakOps`, `WeakCasts` (IntExpr): no promotion for `~` and shifts of `_Bool`
  and char types, `b++` always 0 and `b--` always 1 for a `_Bool`, signed `<=` on
  unsigned long, no code for unsigned int to long and unsigned char to char; `WeakAlike`: comparisons and `^` of two unsigned ints of
  which one register is sign-extended (a sum) and one zero-extended (a variable):
  no conversion makes them alike (codegen.c:580), and the whole registers are
  compared (codegen.c:1549-1559), so that `x + y == z` is 0 for x = 0x7fffffff,
  y = 1, z = 0x80000000; `FoldedTypes`: `eval2()` does not cut results to
  unsigned int.
* `Agreed`, `lost` (CallConv): a struct of up to two words or a long double that
  finds no registers is pushed among the arguments that are popped; a large
  struct is looked for below the other stack arguments; a variadic prologue
  counts a long double as one register; `t1` does not survive a call in an
  argument, nor an assignment to a bit-field there (codegen.c:1098), and `depth`
  does not know of the space of a large struct yet when such a call is made.
* `AlignedAtCall` against codegen.c:786: the prologue aligns sp to 8 only
  (codegen.c:1887), and every function has eight bytes for `__alloca_size__`
  (parser/parser.c:1492), so `void g(void) { f(); }` calls f with sp 8 bytes off a
  multiple of 16. The property holds of both kinds of functions, and says of
  which kind one is.
* `FailureKeepsOutputs`: a child killed between fopen and fclose leaves a part of
  its output, which nobody removes (main.c:437, 621-623).
* `ResultIsReference` is about bodies in which `#x` comes before any other use of
  `x`: an argument that was expanded in place is stringized as it is then.
* `OneDefinition` allows a variable without a definition: `int x; int x;` drops
  both.
* `ErrorsAreReal` leaves line markers out: `#line` inside a section is taken for
  the end of the file.

Met while reading, not modelled: `-idirafter` takes itself for its argument
(main.c:333), `-D`, `-U`, `-L` and `-MQ` as last words read past the arguments
(main.c:221), several inputs with -MD and -o write one dependency file
(main.c:538), `typedef static int x` is accepted (declarator.c:491), a designator
of an unnamed bit-field or an anonymous union ends in a null pointer
(initializer.c:165), unnamed bit-fields take a value by position (the shapes
`objects` initializes have none), the value of an
assignment to a bit-field is not cut to its width, `1 && 0.0` and casts of
floats to _Bool test a0 (codegen.c:1185, 594), `(_Bool)256` is 0 as a constant
(common.c:138), case labels are cut to int (parser.c:1200), duplicate cases and
labels are accepted, `atomic_fetch_add` yields the new value (stdatomic.h:37).

## 6. Not modelled, and the plan

Not modelled, with the reason:

* tokenizer: text to tokens, conversions of characters one by one; its state is a
  pointer. Line splices and line numbers would be worth a model.
* predefined macros, support code, headers: tables and text.
* declarators: a recursive descent that builds types; the counter of keywords in
  `declspec` would be worth a check against the table of valid specifiers.
* frames, data sections: straight-line text; `assign_lvar_offsets` is in CallConv
  as far as parameters go.
* options and dependency files: straight-line handling of strings.
* rounding, literals and constants of floating-point types: data TLC cannot
  enumerate; FloatExpr has which value goes where.
* 1- and 2-byte `_Atomic` objects (codegen.c:1371): the word around them would
  have to be in the model.

What could come next: `Declspec`; pointer arithmetic and bit-fields in IntExpr
(codegen.c:1050-1124, parser/parser.c:648-730); tags and typedef names of scopes;
variadic macros in MacroExpand; sub-word and `long` objects in AtomicOp. Theorems: in
CallConv that arguments `Agreed` on arrive (`ArgumentsArrive`); in
Directives that the stack of sections is that of the lines (`OutputIsLiveText`).

## 7. Running it

    tlc -workers 2 -config hashmap.cfg MCHashMap.tla     # likewise the others
    tlapm HashMapProofs.tla

Modules with the prefix MC give the constants of the run their values. Each run
takes from a few seconds to a few minutes on two cores.
