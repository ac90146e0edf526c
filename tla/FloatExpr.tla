------------------------------ MODULE FloatExpr ------------------------------
(***************************************************************************)
(* Expressions over int, double and long double: the code gen_expr() emits  *)
(* for them, run on the registers as it is emitted.  An int is in a0, a     *)
(* double in fa0, and a long double, two words, on a stack the compiler     *)
(* keeps in fs0-fs11; ld_sp is the height it assumes.                       *)
(*                                                                         *)
(* A behaviour emits one operation after the other, operands before         *)
(* operators, in the order gen_expr() visits them.  A value is the number   *)
(* of the operation that computes it; beside the registers, the operands    *)
(* say what C has there.  An operation on anything else computes Junk.      *)
(***************************************************************************)
EXTENDS Integers, Sequences, FiniteSets

CONSTANTS Callees,   \* functions that may be called
          RoutineFt, \* the registers among ft0-ft11 that libgcc's routines use
          MaxOps     \* bound: operations in a function

Types == {"int", "double", "ldouble"}

\* body: compiled by toycc and calls nothing, libgcc included ("leaf"), compiled
\* by toycc and calls with a long double of its own at hand ("holds"), or from a
\* library.
ASSUME CalleesAssumption ==
  Callees \subseteq [body : {"leaf", "holds", "library"}, param : Types \cup {"none"}, result : Types]
ASSUME RoutineFtAssumption == RoutineFt \subseteq 0 .. 11
ASSUME MaxOpsAssumption == MaxOps \in Nat

VARIABLES
  ld_sp,     \* height of the long double stack, in the compiler
  regs,      \* a0-a7, fa0, fs0-fs11 and ft0-ft11
  mem,       \* words pushed onto the memory stack
  operands,  \* the operands not yet used: type, value, and where it is kept
  arms,      \* the conditionals that are open, the innermost one last
  shapes,    \* the shapes of expressions known to go wrong that were met
  wrong,     \* the program has seen a value other than C's
  status,    \* "ok", "rejected", "asserted", "done"
  ops        \* operations so far

vars == <<ld_sp, regs, mem, operands, arms, shapes, wrong, status, ops>>

-----------------------------------------------------------------------------
(* Registers *)

Junk == 0
\* The words of value v; an int, and the bits of a double, is its low word.
Lo(v) == 2 * v
Hi(v) == 2 * v + 1
\* What the caller has in fs<i>.
Callers(i) == -1 - i

A == 0 .. 7
FS == 0 .. 11

Live == arms = <<>> \/ arms[Len(arms)].live
\* Code in an arm that is not taken changes nothing.
Exec(r) == regs' = IF Live THEN r ELSE regs

PushLd(r, h) == [r EXCEPT !.fs[h] = r.a[0], !.fs[h + 1] = r.a[1]]
\* Faulty: the halves are exchanged.
PopLdSwapped(r, h) == [r EXCEPT !.a[h - 1] = r.fs[h - 2], !.a[h - 2] = r.fs[h - 1]]

\* The top of the stack goes to the a registers of its own number.
PopLd(r, h) == [r EXCEPT !.a[h - 1] = r.fs[h - 1], !.a[h - 2] = r.fs[h - 2]]
\* a8 is no register.
Pops(h) == h \in 2 .. 8

\* A call changes the registers that pass arguments.
Passed(r) == [r EXCEPT !.a = [i \in A |-> Junk], !.fa0 = Junk]
\* __addtf3 and the other routines of libgcc: ft0-ft11 are theirs to use.
Routine(r) == [Passed(r) EXCEPT !.ft = [i \in FS |-> IF i \in RoutineFt THEN Junk ELSE r.ft[i]]]
ResultIn(r, ty, v) ==
  CASE ty = "int" -> [r EXCEPT !.a[0] = Lo(v)]
    [] ty = "double" -> [r EXCEPT !.fa0 = v]
    [] ty = "ldouble" -> [r EXCEPT !.a[0] = Lo(v), !.a[1] = Hi(v)]

\* The registers where the emitted code takes a value of a type hold v.
Holds(r, ty, v) ==
  CASE ty = "int" -> r.a[0] = Lo(v)
    [] ty = "double" -> r.fa0 = v
    [] ty = "ldouble" -> r.a[0] = Lo(v) /\ r.a[1] = Hi(v)

-----------------------------------------------------------------------------
(* Operands *)

New == ops + 1
Top == operands[Len(operands)]
Below == operands[Len(operands) - 1]
Base == IF arms = <<>> THEN 0 ELSE arms[Len(arms)].base

\* at: "register" (a long double: the fs stack), "memory" when it was
\* pushed, "nowhere" when the code has dropped it.
Operand(ty, v, at) == [ty |-> ty, val |-> v, at |-> at]
Replace(n, o) == operands' = Append(SubSeq(operands, 1, Len(operands) - n), o)
Drop(n) == operands' = SubSeq(operands, 1, Len(operands) - n)

Has(n) == Len(operands) - Base >= n
\* The top is a value the next operation finds in its registers.
Ready == Has(1) /\ Top.at # "memory"
\* The next operand may be evaluated: the one before it is out of its way.
Clear == Has(1) => Top.ty = "ldouble" \/ Top.at = "memory"

IsLd(ty) == ty = "ldouble"

\* The type is popped before it is used: pop_ld().
Take(r, ty) == IF IsLd(ty) THEN PopLd(r, ld_sp) ELSE r
Height(ty) == IF IsLd(ty) THEN ld_sp - 2 ELSE ld_sp
Poppable(ty) == IsLd(ty) => Pops(ld_sp)
\* Shapes of a popped operand.
PopShapes(n) == (IF IsLd(Top.ty) /\ ld_sp > 2 * n THEN {"above"} ELSE {})

\* Shape of an operand that is used after its store took it off the stack.
Stored(o) == IF o.at = "nowhere" THEN {"assigned"} ELSE {}

\* The operation leaves a result of type ty in r, over a stack of height h.
Leave(r, ty, h) ==
  /\ Exec(IF IsLd(ty) THEN PushLd(r, h) ELSE r)
  /\ ld_sp' = IF IsLd(ty) THEN h + 2 ELSE h
  /\ status' = IF IsLd(ty) /\ h + 2 >= 12 THEN "rejected" ELSE status

\* The value of an operation whose operands are right, or are not.
Value(right) == IF right THEN New ELSE Junk

Step == status = "ok" /\ ops < MaxOps /\ ops' = ops + 1

-----------------------------------------------------------------------------
(* Operations *)

Number(ty) ==
  /\ Step /\ Clear
  /\ LET r == ResultIn(regs, ty, New)
     IN  Leave(IF ty = "double" THEN [r EXCEPT !.a[0] = Lo(New)] ELSE r, ty, ld_sp)
  /\ Replace(0, Operand(ty, New, "register"))
  /\ UNCHANGED <<mem, arms, shapes, wrong>>

\* load() of the variable whose address is in a0; load_ld() fills the stack.
Variable(ty) ==
  /\ Step /\ Clear
  /\ LET r == [regs EXCEPT !.a[0] = Junk]
     IN  IF IsLd(ty)
         THEN /\ Exec([r EXCEPT !.fs[ld_sp] = Lo(New), !.fs[ld_sp + 1] = Hi(New)])
              /\ ld_sp' = ld_sp + 2
              /\ status' = IF ld_sp + 2 >= 12 THEN "rejected" ELSE status
         ELSE Leave(ResultIn(r, ty, New), ty, ld_sp)
  /\ Replace(0, Operand(ty, New, "register"))
  /\ UNCHANGED <<mem, arms, shapes, wrong>>

\* The sign of a long double is changed in a register that is not its own.
Negate ==
  /\ Step /\ Ready
  /\ IF IsLd(Top.ty)
     THEN /\ shapes' = shapes \cup {"negated"}
          /\ IF ld_sp + 1 \in A
             THEN Exec([regs EXCEPT !.a[ld_sp + 1] = Junk]) /\ UNCHANGED status
             ELSE status' = "rejected" /\ UNCHANGED regs
     ELSE /\ Exec(ResultIn(regs, Top.ty, Value(Holds(regs, Top.ty, Top.val))))
          /\ UNCHANGED <<shapes, status>>
  /\ Replace(1, Operand(Top.ty, New, Top.at))
  /\ UNCHANGED <<ld_sp, mem, arms, wrong>>

Cast(ty) ==
  /\ Step /\ Ready /\ ty # Top.ty /\ Poppable(Top.ty)
  /\ LET r == Take(regs, Top.ty)
         v == Value(Holds(r, Top.ty, Top.val))
     IN  Leave(ResultIn(IF "ldouble" \in {ty, Top.ty} THEN Routine(r) ELSE r, ty, v),
               ty, Height(Top.ty))
  /\ shapes' = shapes \cup PopShapes(1) \cup Stored(Top)
  /\ Replace(1, Operand(ty, New, "register"))
  /\ UNCHANGED <<mem, arms, wrong>>

\* A cast to _Bool compares a0 with zero, whatever it is cast from.
CastToBool ==
  /\ Step /\ Ready
  /\ Exec([regs EXCEPT !.a[0] = IF Holds(regs, "int", Top.val) THEN Lo(New) ELSE Junk])
  /\ shapes' = shapes \cup (IF Top.ty = "int" THEN {} ELSE {"bool"})
  /\ Replace(1, Operand("int", New, "register"))
  /\ UNCHANGED <<ld_sp, mem, arms, wrong, status>>

\* The right operand of an operator on int or double is evaluated first, and
\* pushed.
Push ==
  /\ Step /\ Ready /\ ~IsLd(Top.ty)
  /\ mem' = IF Live THEN Append(mem, IF Top.ty = "int" THEN regs.a[0] ELSE Lo(regs.fa0))
                    ELSE mem
  /\ Replace(1, Operand(Top.ty, Top.val, "memory"))
  /\ UNCHANGED <<ld_sp, regs, arms, shapes, wrong, status>>

\* An arithmetic operator, or a comparison, on int or double.
Operate(ty) ==
  /\ Step /\ Has(2) /\ ~IsLd(Top.ty) /\ Ready
  /\ Below.at = "memory" /\ Below.ty = Top.ty /\ ty \in {"int", Top.ty}
  /\ LET right == Live => Holds(regs, Top.ty, Top.val) /\ mem[Len(mem)] = Lo(Below.val)
     IN  Exec(ResultIn(regs, ty, Value(right)))
  /\ mem' = IF Live THEN SubSeq(mem, 1, Len(mem) - 1) ELSE mem
  /\ Replace(2, Operand(ty, New, "register"))
  /\ UNCHANGED <<ld_sp, arms, shapes, wrong, status>>

\* The same for long double: both operands are on the stack, the right one on
\* top, and a library routine takes them in a0-a3.
OperateLd(ty) ==
  /\ Step /\ Has(2) /\ IsLd(Top.ty) /\ IsLd(Below.ty) /\ ty \in {"int", "ldouble"}
  /\ Pops(ld_sp) /\ Pops(ld_sp - 2)
  /\ LET r == PopLd(PopLd(regs, ld_sp), ld_sp - 2)
         right == /\ Holds(r, "ldouble", Below.val)
                  /\ r.a[2] = Lo(Top.val) /\ r.a[3] = Hi(Top.val)
     IN  Leave(ResultIn(Routine(r), ty, Value(right)), ty, ld_sp - 4)
  /\ shapes' = shapes \cup PopShapes(2) \cup Stored(Top) \cup Stored(Below)
  /\ Replace(2, Operand(ty, New, "register"))
  /\ UNCHANGED <<mem, arms, wrong>>

\* Faulty: store_ld() leaves ld_sp alone.
AssignKeeps ==
  /\ Step /\ Ready /\ (IsLd(Top.ty) => ld_sp >= 2)
  /\ Replace(1, Operand(Top.ty, Top.val, IF IsLd(Top.ty) THEN "nowhere" ELSE "register"))
  /\ UNCHANGED <<ld_sp, regs, mem, arms, shapes, wrong, status>>

\* store(): a long double leaves the stack, though the assignment has a value.
Assign ==
  /\ Step /\ Ready /\ (IsLd(Top.ty) => ld_sp >= 2)
  /\ LET seen == IF IsLd(Top.ty)
                 THEN regs.fs[ld_sp - 2] = Lo(Top.val) /\ regs.fs[ld_sp - 1] = Hi(Top.val)
                 ELSE Holds(regs, Top.ty, Top.val)
     IN  wrong' = (wrong \/ (Live /\ ~seen))
  /\ ld_sp' = Height(Top.ty)
  /\ shapes' = shapes \cup Stored(Top)
  /\ Replace(1, Operand(Top.ty, Top.val, IF IsLd(Top.ty) THEN "nowhere" ELSE "register"))
  /\ UNCHANGED <<regs, mem, arms, status>>

\* The left operand of a comma, the expression of a statement, or a cast to
\* void: nothing is popped.
Discard ==
  /\ Step /\ Ready
  /\ shapes' = shapes \cup (IF IsLd(Top.ty) /\ Top.at = "register" THEN {"discarded"} ELSE {})
  /\ Drop(1)
  /\ UNCHANGED <<ld_sp, regs, mem, arms, wrong, status>>

\* A function that toycc compiled saves fs0-fs11 in ft0-ft11 and puts them
\* back; one of a library keeps fs0-fs11 and may use ft0-ft11.
Called(body, r, lost) ==
  CASE body = "leaf" -> [r EXCEPT !.ft = r.fs]
    [] body = "holds" -> LET fs == [r.fs EXCEPT ![0] = Junk, ![1] = Junk]
                         IN  [r EXCEPT !.fs = fs, !.ft = fs]
    [] body = "library" -> IF lost THEN [r EXCEPT !.ft = [i \in FS |-> Junk]] ELSE r

\* Shapes of a call at height h: the callee overwrites what is held on the
\* stack; or what it leaves in ft0-ft11 is not what this function saved there.
CallShapes(body, h) ==
  (IF body = "holds" /\ h > 0 THEN {"held"} ELSE {})
    \cup (IF body = "leaf" /\ regs.fs = [i \in FS |-> Callers(i)] THEN {} ELSE {"unsaved"})

\* ND_FUNCALL: the argument, if there is one, goes to the memory stack and
\* from there to its registers.
Call(f, lost) ==
  /\ Step
  /\ IF f.param = "none" THEN Clear ELSE Ready /\ Top.ty = f.param
  /\ IsLd(f.param) => ld_sp >= 2
  /\ LET h == IF IsLd(f.param) THEN ld_sp - 2 ELSE ld_sp
         seen == \/ f.param = "none"
                 \/ IF IsLd(f.param)
                    THEN regs.fs[h] = Lo(Top.val) /\ regs.fs[h + 1] = Hi(Top.val)
                    ELSE Holds(regs, f.param, Top.val)
     IN  /\ wrong' = (wrong \/ (Live /\ ~seen))
         /\ Leave(ResultIn(Passed(Called(f.body, regs, lost)), f.result, New), f.result, h)
         /\ shapes' = shapes \cup CallShapes(f.body, h)
                             \cup (IF f.param = "none" THEN {} ELSE Stored(Top))
  /\ Replace(IF f.param = "none" THEN 0 ELSE 1, Operand(f.result, New, "register"))
  /\ UNCHANGED <<mem, arms>>

-----------------------------------------------------------------------------
(* Conditions *)

\* cmp_zero() of an operand taken for one of type ty, whose outcome the
\* program sees: the condition of a statement or of ?:, an operand of && or ||.
Seen(r, ty) == ty = Top.ty /\ Holds(Take(r, ty), ty, Top.val)
Tested(r, ty) == [IF IsLd(ty) THEN Routine(Take(r, ty)) ELSE r EXCEPT !.a[0] = Junk]
Test(ty) ==
  /\ Ready /\ Poppable(ty)
  /\ wrong' = (wrong \/ (Live /\ ~Seen(regs, ty)))
  /\ ld_sp' = Height(ty)

TestShapes == PopShapes(1) \cup Stored(Top)

Not ==
  /\ Step /\ Ready /\ Poppable(Top.ty)
  /\ Leave(ResultIn(Tested(regs, Top.ty), "int", Value(Seen(regs, Top.ty))),
           "int", Height(Top.ty))
  /\ shapes' = shapes \cup TestShapes
  /\ Replace(1, Operand("int", New, "register"))
  /\ UNCHANGED <<mem, arms, wrong>>

\* if and the loops: the condition decides where the program goes on.
Branch ==
  /\ Step /\ arms = <<>> /\ Len(operands) = 1 /\ Test(Top.ty)
  /\ Exec(Tested(regs, Top.ty))
  /\ shapes' = shapes \cup TestShapes
  /\ operands' = <<>>
  /\ UNCHANGED <<mem, arms, status>>

\* The condition of c ? x : y, or the left operand of && and ||.
Open(op, taken) ==
  /\ Step /\ Test(Top.ty)
  /\ Exec(Tested(regs, Top.ty))
  /\ shapes' = shapes \cup TestShapes
  /\ arms' = Append(arms, [op |-> op, ty |-> Top.ty, base |-> Len(operands) - 1,
                           live |-> Live /\ taken, other |-> Live /\ ~taken, val |-> Junk])
  /\ Drop(1)
  /\ UNCHANGED <<mem, status>>

Arm == arms[Len(arms)]
Outer == SubSeq(arms, 1, Len(arms) - 1)

\* The end of x in c ? x : y.
Colon ==
  /\ Step /\ arms # <<>> /\ Arm.op = "?" /\ Len(operands) = Base + 1 /\ Ready
  /\ arms' = Append(Outer, [Arm EXCEPT !.op = ":", !.live = Arm.other, !.other = Arm.live,
                                       !.ty = Top.ty, !.val = Top.val])
  /\ shapes' = shapes \cup Stored(Top) \cup (IF IsLd(Top.ty) THEN {"conditional"} ELSE {})
  /\ Drop(1)
  /\ UNCHANGED <<ld_sp, regs, mem, wrong, status>>

\* The end of y: of long doubles, the height has grown by both, and one was
\* pushed.
EndConditional ==
  /\ Step /\ arms # <<>> /\ Arm.op = ":" /\ Len(operands) = Base + 1 /\ Ready
  /\ Top.ty = Arm.ty
  /\ arms' = Outer
  /\ shapes' = shapes \cup Stored(Top)
  /\ Replace(1, Operand(Top.ty, IF Arm.other THEN Arm.val ELSE Top.val, Top.at))
  /\ UNCHANGED <<ld_sp, regs, mem, wrong, status>>

\* && compares its right operand as if it had the type of the left one.
ComparedAs == IF Arm.op = "&&" THEN Arm.ty ELSE Top.ty

EndLogical ==
  /\ Step /\ arms # <<>> /\ Arm.op \in {"&&", "||"} /\ Len(operands) = Base + 1
  /\ Test(ComparedAs)
  /\ arms' = Outer
  /\ regs' = LET r == IF Live THEN Tested(regs, ComparedAs) ELSE regs
             IN  IF Arm.live \/ Arm.other THEN ResultIn(r, "int", New) ELSE r
  /\ shapes' = shapes \cup TestShapes \cup (IF ComparedAs = Top.ty THEN {} ELSE {"mixed"})
  /\ Replace(1, Operand("int", New, "register"))
  /\ UNCHANGED <<mem, status>>

-----------------------------------------------------------------------------
(* The function *)

\* Faulty: the caller's registers are not put back.
EpilogueBare(h) == status' = (IF h = 0 THEN "done" ELSE "asserted") /\ UNCHANGED regs

\* The epilogue puts back the caller's registers; emit_text() asserts that
\* the code it has emitted leaves the stack empty.
Epilogue(h) ==
  IF h = 0 THEN status' = "done" /\ regs' = [regs EXCEPT !.fs = regs.ft]
           ELSE status' = "asserted" /\ UNCHANGED regs

Return ==
  /\ Step /\ arms = <<>> /\ Len(operands) = 1 /\ Ready /\ Poppable(Top.ty)
  /\ wrong' = (wrong \/ ~Holds(Take(regs, Top.ty), Top.ty, Top.val))
  /\ ld_sp' = Height(Top.ty)
  /\ Epilogue(Height(Top.ty))
  /\ shapes' = shapes \cup TestShapes
  /\ operands' = <<>>
  /\ UNCHANGED <<mem, arms>>

EndOfBody ==
  /\ Step /\ arms = <<>> /\ operands = <<>>
  /\ Epilogue(ld_sp)
  /\ UNCHANGED <<ld_sp, mem, operands, arms, shapes, wrong>>

\* An operation pops what is not on the stack, or pops it to a register that
\* does not exist: error() stops the compiler, or the assembler rejects its
\* output.
PopFails ==
  /\ Step /\ Ready
  /\ \/ IsLd(Top.ty) /\ ~Pops(ld_sp) /\ shapes' = shapes \cup TestShapes
     \/ /\ Has(2) /\ IsLd(Top.ty) /\ IsLd(Below.ty) /\ ~(Pops(ld_sp) /\ Pops(ld_sp - 2))
        /\ shapes' = shapes \cup PopShapes(2) \cup Stored(Top) \cup Stored(Below)
     \/ /\ arms # <<>> /\ Arm.op = "&&" /\ IsLd(Arm.ty) /\ ~IsLd(Top.ty) /\ ~Pops(ld_sp)
        /\ shapes' = shapes \cup {"mixed"}
  /\ status' = "rejected"
  /\ UNCHANGED <<ld_sp, regs, mem, operands, arms, wrong>>

Init ==
  /\ ld_sp = 0
  /\ regs = LET saved == [i \in FS |-> Callers(i)]
            IN  [a |-> [i \in A |-> Junk], fa0 |-> Junk, fs |-> saved, ft |-> saved]
  /\ mem = <<>> /\ operands = <<>> /\ arms = <<>>
  /\ shapes = {} /\ wrong = FALSE /\ status = "ok" /\ ops = 0

Next ==
  \/ \E ty \in Types : Number(ty) \/ Variable(ty) \/ Cast(ty) \/ Operate(ty) \/ OperateLd(ty)
  \/ Negate \/ CastToBool \/ Push \/ Assign \/ Discard \/ Not
  \/ \E f \in Callees, lost \in BOOLEAN : (lost => f.body = "library") /\ Call(f, lost)
  \/ Branch \/ Colon \/ EndConditional \/ EndLogical
  \/ \E op \in {"?", "&&", "||"}, taken \in BOOLEAN : Open(op, taken)
  \/ Return \/ EndOfBody \/ PopFails

Spec == Init /\ [][Next]_vars

-----------------------------------------------------------------------------
(* Properties *)

Word == -12 .. 2 * MaxOps + 1

TypeOK ==
  /\ ld_sp \in 0 .. 12 /\ ops \in 0 .. MaxOps
  /\ regs \in [a : [A -> Word], fa0 : 0 .. MaxOps, fs : [FS -> Word], ft : [FS -> Word]]
  /\ mem \in Seq(Word)
  /\ operands \in Seq([ty : Types, val : 1 .. MaxOps, at : {"register", "memory", "nowhere"}])
  /\ arms \in Seq([op : {"?", ":", "&&", "||"}, ty : Types, base : Nat,
                   live : BOOLEAN, other : BOOLEAN, val : 0 .. MaxOps])
  /\ wrong \in BOOLEAN /\ status \in {"ok", "rejected", "asserted", "done"}

\* The shapes of expressions that toycc compiles to something else, or not
\* at all: a minus sign on a long double; a long double that is popped, by a
\* cast, a condition or an operator, while others wait below it; the value of
\* an assignment of a long double; a value nobody uses; ?: of type long
\* double; && of operands of different types; a cast to _Bool; and a value
\* held while a function is called that holds one itself.
Shapes == {"negated", "above", "assigned", "discarded", "conditional", "mixed", "bool", "held"}

\* The function has none of these shapes.
Plain == shapes \cap Shapes = {}

\* In a plain function, each value stored, returned, passed or tested
\* is the one C computes: ld_sp, counted in the compiler, is the height of the
\* stack when the program runs, on every path.
ValuesArrive == Plain => ~wrong

\* The operands on the stack of long doubles.
Held == {i \in 1 .. Len(operands) : IsLd(operands[i].ty) /\ operands[i].at = "register"}

\* At the end of a plain function the stack of fs0-fs11 is empty, and a plain
\* function is rejected only where it needs six long doubles at once: the
\* sixth finds ld_sp >= 12.
OnlyDeepIsRejected ==
  Plain => \/ status \in {"ok", "done"}
           \/ status = "rejected" /\ Cardinality(Held) = 6

\* A function returns with its caller's fs0-fs11, which it saved in ft0-ft11
\* (emit_text()), unless a function it called used them for the same purpose,
\* and but for those that a routine of libgcc uses.
CallersRegistersKept ==
  status = "done" /\ "unsaved" \notin shapes =>
    \A i \in FS \ RoutineFt : regs.fs[i] = Callers(i)

=============================================================================
