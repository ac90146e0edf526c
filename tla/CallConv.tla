------------------------------- MODULE CallConv -------------------------------
(***************************************************************************)
(* Function calls: the code gen_expr() emits for ND_FUNCALL (push_args(),   *)
(* push_args2(), push_struct() and the pops behind them), run on a stack    *)
(* and the argument registers, and where the prologue of the called         *)
(* function, compiled on its own, looks for its parameters                  *)
(* (assign_lvar_offsets(), emit_text()).                                    *)
(*                                                                         *)
(* Arguments are evaluated while others are already on the stack, and may   *)
(* be calls themselves.  A word of 8 bytes is what it is a word of:         *)
(* <<level of the call, argument, number of the word>>.                     *)
(***************************************************************************)
EXTENDS Integers, Sequences, FiniteSets, SequencesExt

CONSTANTS MAX_ARG_REGS,  \* registers a0-a7, and fa0-fa7
          Functions,     \* the functions whose bodies make the calls
          Calls,         \* the calls of a function body
          Inner,         \* the calls inside their arguments
          MaxLevel       \* bound: calls within calls

Kinds == {"int", "double", "ldouble", "struct1", "struct2", "struct3"}
IsStruct(k) == k \in {"struct1", "struct2", "struct3"}
Words(k) == CASE k \in {"int", "double", "struct1"} -> 1
              [] k \in {"ldouble", "struct2"} -> 2
              [] k = "struct3" -> 3
\* Larger than two words.
Large(k) == k = "struct3"

\* params: the declared parameters; more: the variable arguments;
\* buffer: the result is a large struct, returned through a pointer.
\* A variable argument is one word: a long double among them is counted as one
\* and popped as two, and va_arg() is a macro of the library.
IsCall(c) == /\ c.params \in Seq(Kinds) /\ c.more \in Seq({"int", "double"})
             /\ c.variadic \in BOOLEAN /\ c.buffer \in BOOLEAN
             /\ ~c.variadic => c.more = <<>>

\* What the prologue of a function depends on: its own parameters, and the sizes
\* and alignments of the variables it keeps below fp, __alloca_size__ among them.
AllocaSize == [size |-> 8, align |-> 8]
IsFunction(f) == /\ IsCall(f.sig)
                 /\ f.locals \in Seq([size : Nat, align : Nat \ {0}])
                 /\ \E i \in DOMAIN f.locals : f.locals[i] = AllocaSize

ASSUME RegsAssumption == MAX_ARG_REGS \in Nat \ {0}
ASSUME LevelAssumption == MaxLevel \in Nat \ {0}
ASSUME CallsAssumption == \A c \in Calls \cup Inner : IsCall(c)
ASSUME FunctionsAssumption == \A f \in Functions : IsFunction(f)

VARIABLES
  fn,      \* the function whose body makes the calls
  calls,   \* the calls that are being made, the innermost one last
  mem,     \* the stack below its frame, word by word; sp is at the last one
  depth,   \* what the compiler takes for Len(mem); ra and fp, which it counts too,
           \* change nothing: they are two words
  t1,      \* the position in mem below which the next large struct goes
  a, fa    \* argument registers, while a call is made

vars == <<fn, calls, mem, depth, t1, a, fa>>

Junk == <<>>
Unknown == -1
Pointer == <<"pointer">>
Free == [r \in 1 .. MAX_ARG_REGS |-> Junk]

\* step(step(base, 1), 2) and so on to n: a loop over arguments.
Through(step(_, _), base, n) ==
  LET after[i \in 0 .. n] == IF i = 0 THEN base ELSE step(after[i - 1], i)
  IN  after[n]

Args(c) == c.params \o c.more
IsVariable(c, i) == i > Len(c.params)

-----------------------------------------------------------------------------
(* The caller: push_args() counts registers and stack words *)

\* n words, in registers as long as there are any.
Spread(s, n) == LET r == IF n <= MAX_ARG_REGS - s.g THEN n ELSE MAX_ARG_REGS - s.g
                IN  [s EXCEPT !.g = @ + r, !.stack = @ + n - r]

\* pass_by_stack
ByStack(s, i) == [s EXCEPT !.stack = @ + 1, !.by_stack = @ \cup {i}]

CountArg(s, c, i) ==
  LET k == Args(c)[i]
  IN  IF IsVariable(c, i)
      THEN IF s.g < MAX_ARG_REGS THEN Spread(s, 1) ELSE ByStack(s, i)
      ELSE IF Large(k)
      THEN [Spread(s, 1) EXCEPT !.stack = @ + Words(k), !.struct_stack = @ + Words(k)]
      ELSE IF IsStruct(k) THEN Spread(s, Words(k))
      ELSE IF k = "double" /\ s.f < MAX_ARG_REGS THEN [s EXCEPT !.f = @ + 1]
      ELSE IF k = "ldouble" THEN Spread(s, 2)
      ELSE IF s.g < MAX_ARG_REGS THEN Spread(s, 1) ELSE ByStack(s, i)

Counts(c) ==
  Through(LAMBDA s, i : CountArg(s, c, i),
          [g |-> IF c.buffer THEN 1 ELSE 0, f |-> 0, stack |-> 0, struct_stack |-> 0,
           by_stack |-> {}],
          Len(Args(c)))

\* push_args2(): from right to left, the arguments that are passed one way.
OnePass(c, order, passed) ==
  Through(LAMBDA q, n : LET i == Len(Args(c)) + 1 - n
                        IN  IF i \in passed THEN Append(q, i) ELSE q,
          order, Len(Args(c)))

\* Those passed by stack come first.
Order(c) ==
  LET by_stack == Counts(c).by_stack
  IN  OnePass(c, OnePass(c, <<>>, by_stack), DOMAIN Args(c) \ by_stack)

\* The frame of a call; lost: t1 is, while a large struct is still to be copied.
LargeLeft(frame) == \E i \in DOMAIN frame.todo : Large(Args(frame.call)[frame.todo[i]])
Padding(s) == (depth + s.stack) % 2
Frame(c, stack_args) == [call |-> c, todo |-> Order(c), evaluated |-> FALSE, loaded |-> FALSE,
                         lost |-> FALSE, stack_args |-> stack_args, mem |-> mem, depth |-> depth]

Blank(n) == [i \in 1 .. n |-> Junk]

\* Mutant: what outer calls have pushed is not looked at.
BeginUnpadded(c) ==
  LET s == Counts(c)
      pad == s.stack % 2
  IN  /\ calls' = Append(calls, Frame(c, s.stack + pad))
      /\ mem' = mem \o Blank(pad + s.struct_stack)
      /\ depth' = depth + pad
      /\ t1' = Len(mem) + pad
      /\ UNCHANGED <<fn, a, fa>>

\* Mutant: the padding is not taken off with the arguments.
BeginKeepsPadding(c) ==
  LET s == Counts(c)
      pad == Padding(s)
  IN  /\ calls' = Append(calls, Frame(c, s.stack))
      /\ mem' = mem \o Blank(pad + s.struct_stack)
      /\ depth' = depth + pad
      /\ t1' = Len(mem) + pad
      /\ UNCHANGED <<fn, a, fa>>

Begin(c) ==
  LET s == Counts(c)
      pad == Padding(s)
  IN  /\ calls' = Append(calls, Frame(c, s.stack + pad))
      /\ mem' = mem \o Blank(pad + s.struct_stack)
      /\ depth' = depth + pad
      /\ t1' = Len(mem) + pad
      /\ UNCHANGED <<fn, a, fa>>

Top == Last(calls)
Arg == Head(Top.todo)
Kind == Args(Top.call)[Arg]
Waiting == calls # <<>> /\ Top.todo # <<>>
Word(j) == <<Len(calls), Arg, j>>

MakeCall == /\ calls = <<>>
            /\ \E c \in Calls : Begin(c)

\* The next argument is a call.
EvalCall == /\ Waiting
            /\ ~Top.evaluated
            /\ Len(calls) < MaxLevel
            /\ \E c \in Inner : /\ Kind = IF c.buffer THEN "struct3" ELSE "int"
                               /\ Begin(c)

\* The code of the next argument writes t1 without a call: an assignment to a
\* bit-field, or of a struct of more than 2047 bytes, alloca(), a range of cases,
\* a compare-and-swap.
OverwriteT1 ==
  /\ Waiting
  /\ calls' = [calls EXCEPT ![Len(calls)].lost = @ \/ LargeLeft(Top)]
  /\ t1' = Unknown
  /\ UNCHANGED <<fn, mem, depth, a, fa>>

Pushed(words) == /\ mem' = mem \o words
                 /\ depth' = depth + Len(words)
ArgDone == /\ calls' = [calls EXCEPT ![Len(calls)].todo = Tail(@), ![Len(calls)].evaluated = FALSE]
           /\ UNCHANGED <<fn, a, fa>>

\* Anything but a large struct: its last word is pushed first.
PushArg == /\ Waiting
           /\ ~Large(Kind)
           /\ Pushed([j \in 1 .. Words(Kind) |-> Word(Words(Kind) + 1 - j)])
           /\ ArgDone
           /\ UNCHANGED t1

\* A large struct is copied to where t1 says, and a pointer is pushed; a copy
\* to somewhere else leaves the space it should have filled as it is.
PushLarge ==
  LET n == Words(Kind)
  IN  /\ Waiting
      /\ Large(Kind)
      /\ mem' = (IF t1 = Unknown THEN mem
                 ELSE [p \in DOMAIN mem |-> IF p \in t1 + 1 .. t1 + n THEN Word(t1 + n + 1 - p)
                                            ELSE mem[p]])
                \o <<Pointer>>
      /\ depth' = depth + n + 1
      /\ t1' = IF t1 = Unknown THEN t1 ELSE t1 + n
      /\ ArgDone

-----------------------------------------------------------------------------
(* The caller: the registers are popped, and the function is called *)

Pop(s) == [s EXCEPT !.a[s.g + 1] = Last(s.mem), !.mem = Front(s.mem), !.g = @ + 1]
PopFloat(s) == [s EXCEPT !.fa[s.f + 1] = Last(s.mem), !.mem = Front(s.mem), !.f = @ + 1]
PopUpTo(s, n) == Through(LAMBDA r, i : IF r.g < MAX_ARG_REGS THEN Pop(r) ELSE r, s, n)

\* Mutant: a long double is taken for one word.
PopArgSingle(s, c, i) ==
  LET k == Args(c)[i]
  IN  IF IsVariable(c, i) THEN PopUpTo(s, 1)
      ELSE IF IsStruct(k) /\ ~Large(k) THEN PopUpTo(s, Words(k))
      ELSE IF k = "double" /\ s.f < MAX_ARG_REGS THEN PopFloat(s)
      ELSE PopUpTo(s, 1)

PopArg(s, c, i) ==
  LET k == Args(c)[i]
  IN  IF IsVariable(c, i) THEN PopUpTo(s, 1)
      ELSE IF IsStruct(k) /\ ~Large(k) THEN PopUpTo(s, Words(k))
      ELSE IF k = "double" /\ s.f < MAX_ARG_REGS THEN PopFloat(s)
      ELSE PopUpTo(s, IF k = "ldouble" THEN 2 ELSE 1)

Load ==
  /\ calls # <<>>
  /\ Top.todo = <<>>
  /\ ~Top.loaded
  /\ LET c == Top.call
         start == [mem |-> mem, a |-> Free, fa |-> Free, g |-> 0, f |-> 0]
         buffer == IF c.buffer THEN Pop([start EXCEPT !.mem = Append(@, Pointer)]) ELSE start
         s == Through(LAMBDA r, i : PopArg(r, c, i), buffer, Len(Args(c)))
     IN  /\ mem' = s.mem
         /\ depth' = depth - (Len(mem) - Len(s.mem))
         /\ a' = s.a
         /\ fa' = s.fa
  /\ calls' = [calls EXCEPT ![Len(calls)].loaded = TRUE]
  /\ UNCHANGED <<fn, t1>>

\* jalr t0, and the stack arguments are taken off; t1 is not kept by a call.
Return ==
  /\ calls # <<>>
  /\ Top.loaded
  /\ mem' = SubSeq(mem, 1, Len(mem) - Top.stack_args)
  /\ depth' = depth - Top.stack_args
  /\ calls' = [i \in 1 .. Len(calls) - 1 |->
                 IF i = Len(calls) - 1
                 THEN [calls[i] EXCEPT !.evaluated = TRUE, !.lost = @ \/ LargeLeft(calls[i])]
                 ELSE calls[i]]
  /\ t1' = Unknown
  /\ a' = Free
  /\ fa' = Free
  /\ UNCHANGED fn

-----------------------------------------------------------------------------
(* The called function *)

\* Its parameters; the pointer to the buffer is the first one.
Params(c) == (IF c.buffer THEN <<"int">> ELSE <<>>) \o c.params

NoPlace == -1
\* assign_lvar_offsets(): place[i] is NoPlace for a parameter in registers, or
\* the word of the stack, counted from fp + 16, where parameter i begins.
PlaceParam(s, c, i) ==
  LET k == Params(c)[i]
      inRegs(n) == [s EXCEPT !.g = @ + n, !.place = Append(@, NoPlace)]
      inStack(r) == [s EXCEPT !.place = Append(@, s.top), !.top = @ + Words(k), !.g = @ + r]
      half == s.g + 1 = MAX_ARG_REGS
  IN  IF Large(k) THEN inStack(IF s.g < MAX_ARG_REGS THEN 1 ELSE 0)
      ELSE IF IsStruct(k) \/ k = "ldouble"
      THEN IF s.g + Words(k) <= MAX_ARG_REGS THEN inRegs(Words(k))
           ELSE [inStack(0) EXCEPT !.error = @ \/ half]
      ELSE IF k = "double" /\ s.f < MAX_ARG_REGS THEN [inRegs(0) EXCEPT !.f = @ + 1]
      ELSE IF s.g < MAX_ARG_REGS THEN inRegs(1)
      ELSE inStack(0)

Placed(c) == Through(LAMBDA s, i : PlaceParam(s, c, i),
                     [g |-> 0, f |-> 0, top |-> 0, place |-> <<>>, error |-> FALSE],
                     Len(Params(c)))

\* emit_text(): the words of each parameter; <<"a", r>> and <<"fa", r>> are
\* registers, <<"stack", n>> is word n from fp + 16.
SaveParam(s, k, place) ==
  LET from(words) == [s EXCEPT !.words = Append(@, words)]
      regs(n) == [from([j \in 1 .. n |-> <<"a", s.g + j>>]) EXCEPT !.g = @ + n]
  IN  IF place # NoPlace
      THEN [from([j \in 1 .. Words(k) |-> <<"stack", place + j - 1>>])
              EXCEPT !.g = IF @ < MAX_ARG_REGS THEN @ + 1 ELSE @]
      ELSE IF IsStruct(k) THEN regs(Words(k))
      ELSE IF k = "double" /\ s.f < MAX_ARG_REGS
      THEN [from(<<<<"fa", s.f + 1>>>>) EXCEPT !.f = @ + 1]
      ELSE regs(Words(k))

Saved(c) ==
  LET place == Placed(c).place
  IN  Through(LAMBDA s, i : SaveParam(s, Params(c)[i], place[i]),
              [g |-> 0, f |-> 0, words |-> <<>>], Len(Params(c)))

\* The prologue of a variadic function: the words reserved for the registers
\* that hold no parameter, below the arguments on the stack.
VaSize(c) ==
  LET doubles == Cardinality({i \in DOMAIN Params(c) : Params(c)[i] = "double"})
      floats == IF doubles <= MAX_ARG_REGS THEN doubles ELSE MAX_ARG_REGS
      va_gp == Len(Params(c)) - floats
  IN  IF c.variadic /\ va_gp < MAX_ARG_REGS THEN MAX_ARG_REGS - va_gp ELSE 0

\* What is at word n from fp + 16.
StackWord(c, n) ==
  LET saved == Saved(c).g + n - Placed(c).top + 1
      p == Len(mem) + VaSize(c) - n
  IN  IF n < VaSize(c)
      THEN IF n >= Placed(c).top /\ saved <= MAX_ARG_REGS THEN a[saved] ELSE Junk
      ELSE IF p > 0 THEN mem[p] ELSE Junk

Contents(c, where) == CASE where[1] = "a" -> a[where[2]]
                        [] where[1] = "fa" -> fa[where[2]]
                        [] where[1] = "stack" -> StackWord(c, where[2])

\* It does not compile: a parameter half in a register, or a struct before "...".
Rejected(c) == Placed(c).error \/ (c.variadic /\ \E i \in DOMAIN c.params : IsStruct(c.params[i]))

-----------------------------------------------------------------------------
(* The calling function's own prologue *)

align_to(n, align) == ((n + align - 1) \div align) * align

\* assign_lvar_offsets(): the bytes of the variables below fp.
StackSize(locals) ==
  align_to(Through(LAMBDA bottom, i : align_to(bottom + locals[i].size, locals[i].align),
                   0, Len(locals)), 8)

\* The words between sp as the function is entered and the stack of its body:
\* the area of the variable arguments, ra and fp, and the variables.
PrologueWords(f) == VaSize(f.sig) + 2 + StackSize(f.locals) \div 8

Init == /\ fn \in Functions
        /\ calls = <<>>
        /\ mem = <<>>
        /\ depth = 0
        /\ t1 = Unknown
        /\ a = Free
        /\ fa = Free

Next == \/ MakeCall \/ EvalCall
        \/ OverwriteT1 \/ PushArg \/ PushLarge \/ Load \/ Return

Spec == Init /\ [][Next]_vars

-----------------------------------------------------------------------------
(* Properties *)

AtCall == calls # <<>> /\ Top.loaded

\* Stack, registers and calls have their types; the compiler's depth of the
\* stack never goes below zero.
TypeOK ==
  LET WordOK(w) == \/ w \in {Junk, Pointer}
                   \/ /\ Len(w) = 3
                      /\ w[1] \in 1 .. MaxLevel
  IN  /\ Len(calls) <= MaxLevel
      /\ \A i \in DOMAIN calls : IsCall(calls[i].call)
      /\ \A p \in DOMAIN mem : WordOK(mem[p])
      /\ depth \in Nat
      /\ t1 \in Int
      /\ \A r \in 1 .. MAX_ARG_REGS : WordOK(a[r]) /\ WordOK(fa[r])

\* The lists of arguments the two sides agree about.  A struct or long double
\* without registers is pushed in the second pass, behind the arguments passed
\* by stack and among those that are popped; a large struct is looked for below
\* the other arguments on the stack, and lies above them; the prologue of a
\* variadic function counts a long double as one register.
Agreed(c) ==
  LET s == Counts(c)
      first == IF c.buffer THEN 1 ELSE 0
      inRegs == {i \in DOMAIN c.params : Placed(c).place[i + first] = NoPlace}
      late == DOMAIN c.params \ (inRegs \cup s.by_stack)
      large == {i \in late : Large(c.params[i])}
  IN  /\ \A i \in late \ large : (\A j \in s.by_stack : i < j) /\ (\A j \in inRegs : j < i)
      /\ large # {} => s.stack = s.struct_stack
      /\ c.variadic /\ s.stack > 0 => VaSize(c) = MAX_ARG_REGS - Saved(c).g

Found(c, i) ==
  LET where == IF IsVariable(c, i)
               THEN <<<<"stack", Placed(c).top + i - Len(c.params) - 1>>>>
               ELSE Saved(c).words[i + IF c.buffer THEN 1 ELSE 0]
  IN  \A j \in DOMAIN where : Contents(c, where[j]) = <<Len(calls), i, j>>

\* The called function finds every argument where its caller has put it, in
\* registers, on the stack or in the area of the variable arguments, whatever
\* calls are made to evaluate the other ones: for exactly the lists Agreed.
ArgumentsArrive ==
  AtCall /\ ~Top.lost
  => LET c == Top.call
     IN  ~Rejected(c) => (Agreed(c) <=> \A i \in DOMAIN Args(c) : Found(c, i))

\* The words below the sp its caller gave the function, a multiple of 16.
SpWords == PrologueWords(fn) + Len(mem)

\* sp is a multiple of 16 at a call (codegen.c:786) exactly in the functions
\* whose prologue leaves it one, whatever was pushed before and for the call:
\* the prologue aligns it to 8 only (codegen.c:1887), and in the other functions
\* every call is made 8 bytes off.  Left out are calls made while space for a
\* large struct is reserved that depth does not count yet.
AlignedAtCall ==
  AtCall /\ (\A l \in 1 .. Len(calls) - 1 : ~LargeLeft(calls[l]))
  => (SpWords % 2 = 0 <=> PrologueWords(fn) % 2 = 0)

\* A call leaves the stack of the calls around it as it was, and the compiler
\* knows how deep it is.
StackRestored ==
  [][Len(calls') < Len(calls) => mem' = Top.mem /\ depth' = Top.depth]_vars
===============================================================================
