---------------------------- MODULE FloatExprProofs ----------------------------
(***************************************************************************)
(* Functions of any length and nesting, whatever functions they call: in   *)
(* a plain function ld_sp is the height of the stack of long doubles, a     *)
(* function keeps its caller's registers, and every value is where its      *)
(* consumer looks.                                                          *)
(***************************************************************************)
EXTENDS FloatExpr, FiniteSetTheorems, SequenceTheorems, TLAPS

OperandSet == [ty : Types, val : Nat, at : {"register", "memory", "nowhere"}]
ArmSet == [op : {"?", ":", "&&", "||"}, ty : Types, base : Nat,
           live : BOOLEAN, other : BOOLEAN, val : Nat]

-----------------------------------------------------------------------------
(* Counting the long doubles that are held *)

OnStack(o) == IsLd(o.ty) /\ o.at = "register"
Holding(s) == {i \in 1 .. Len(s) : OnStack(s[i])}
Count(s) == Cardinality(Holding(s))
Weight(o) == IF OnStack(o) THEN 1 ELSE 0
Front(s, n) == SubSeq(s, 1, Len(s) - n)

LEMMA FrontOf ==
  ASSUME NEW S, NEW s \in Seq(S), NEW n \in Nat, n <= Len(s)
  PROVE  /\ Front(s, n) \in Seq(S) /\ Len(Front(s, n)) = Len(s) - n
         /\ \A i \in 1 .. Len(s) - n : Front(s, n)[i] = s[i]
<1> DEFINE k == Len(s) - n
<1>1. k \in Nat /\ \A i \in 1 .. k : s[i] \in S
  OBVIOUS
<1>2. /\ SubSeq(s, 1, k) \in Seq(S)
      /\ Len(SubSeq(s, 1, k)) = IF 1 <= k THEN k - 1 + 1 ELSE 0
      /\ \A i \in 1 .. k - 1 + 1 : SubSeq(s, 1, k)[i] = s[1 + i - 1]
  BY <1>1, SubSeqProperties
<1> QED BY <1>1, <1>2 DEF Front

LEMMA CountType ==
  ASSUME NEW s \in Seq(OperandSet)
  PROVE  IsFiniteSet(Holding(s)) /\ Count(s) \in Nat
<1>1. IsFiniteSet(1 .. Len(s))
  BY FS_Interval
<1>2. Holding(s) \in SUBSET (1 .. Len(s))
  BY DEF Holding
<1> QED BY <1>1, <1>2, FS_Subset, FS_CardinalityType DEF Count

LEMMA CountEmpty == Count(<<>>) = 0
<1>1. Holding(<<>>) = {}
  BY DEF Holding
<1> QED BY <1>1, FS_EmptySet DEF Count

LEMMA CountAppend ==
  ASSUME NEW s \in Seq(OperandSet), NEW o \in OperandSet
  PROVE  /\ Append(s, o) \in Seq(OperandSet)
         /\ Count(Append(s, o)) = Count(s) + Weight(o)
<1> DEFINE t == Append(s, o)
           n == Len(s) + 1
<1>1. t \in Seq(OperandSet) /\ Len(t) = n /\ t[n] = o /\ \A i \in 1 .. Len(s) : t[i] = s[i]
  OBVIOUS
<1>2. n \notin Holding(s) /\ n \in 1 .. n /\ 1 .. n = (1 .. Len(s)) \cup {n}
  BY DEF Holding
<1>3. CASE OnStack(o)
  <2>1. Holding(t) = Holding(s) \cup {n}
    BY <1>1, <1>2, <1>3 DEF Holding
  <2>2. Cardinality(Holding(s) \cup {n}) = Cardinality(Holding(s)) + 1
    BY <1>2, CountType, FS_AddElement
  <2> QED BY <1>1, <1>3, <2>1, <2>2 DEF Count, Weight
<1>4. CASE ~OnStack(o)
  <2>1. Holding(t) = Holding(s)
    BY <1>1, <1>2, <1>4 DEF Holding
  <2> QED BY <1>1, <1>4, <2>1, CountType DEF Count, Weight
<1> QED BY <1>3, <1>4

LEMMA CountFront ==
  ASSUME NEW s \in Seq(OperandSet), Len(s) >= 1
  PROVE  /\ Front(s, 1) \in Seq(OperandSet) /\ Len(Front(s, 1)) = Len(s) - 1
         /\ s[Len(s)] \in OperandSet
         /\ Count(s) = Count(Front(s, 1)) + Weight(s[Len(s)])
<1> DEFINE t == Front(s, 1)
           o == s[Len(s)]
<1>1. t \in Seq(OperandSet) /\ Len(t) = Len(s) - 1 /\ o \in OperandSet
      /\ \A i \in 1 .. Len(s) - 1 : t[i] = s[i]
  BY FrontOf
<1>2. Append(t, o) = s
  <2>1. Append(t, o) \in Seq(OperandSet) /\ Len(Append(t, o)) = Len(s)
    BY <1>1
  <2>2. \A i \in 1 .. Len(s) : Append(t, o)[i] = s[i]
    BY <1>1
  <2> QED BY <2>1, <2>2, SeqEqual
<1> QED BY <1>1, <1>2, CountAppend

LEMMA CountFrontTwo ==
  ASSUME NEW s \in Seq(OperandSet), Len(s) >= 2
  PROVE  /\ Front(s, 2) \in Seq(OperandSet)
         /\ s[Len(s)] \in OperandSet /\ s[Len(s) - 1] \in OperandSet
         /\ Count(s) = Count(Front(s, 2)) + Weight(s[Len(s) - 1]) + Weight(s[Len(s)])
<1> DEFINE t == Front(s, 1)
<1> 1 \in Nat /\ 2 \in Nat
  OBVIOUS
<1>0. /\ t \in Seq(OperandSet) /\ Len(t) = Len(s) - 1
      /\ \A i \in 1 .. Len(s) - 1 : t[i] = s[i]
  BY FrontOf
<1>1. t \in Seq(OperandSet) /\ Len(t) = Len(s) - 1 /\ t[Len(t)] = s[Len(s) - 1]
  BY <1>0
<1>2. Front(t, 1) = Front(s, 2) /\ Front(s, 2) \in Seq(OperandSet)
  <2>1. /\ Front(s, 2) \in Seq(OperandSet) /\ Len(Front(s, 2)) = Len(s) - 2
        /\ \A i \in 1 .. Len(s) - 2 : Front(s, 2)[i] = s[i]
    BY FrontOf
  <2>2. /\ Front(t, 1) \in Seq(OperandSet) /\ Len(Front(t, 1)) = Len(s) - 2
        /\ \A i \in 1 .. Len(s) - 2 : Front(t, 1)[i] = t[i]
    BY <1>1, FrontOf
  <2>3. \A i \in 1 .. Len(s) - 2 : t[i] = s[i]
    BY <1>0
  <2> QED BY <2>1, <2>2, <2>3, SeqEqual
<1>3. Count(Front(s, 2)) \in Nat /\ Weight(s[Len(s) - 1]) \in Nat /\ Weight(s[Len(s)]) \in Nat
  BY <1>1, <1>2, CountFront, CountType DEF Weight
<1> QED BY <1>1, <1>2, <1>3, CountFront

-----------------------------------------------------------------------------
(* Types *)

\* A long double is never pushed onto the memory stack.
Sound(s) ==
  /\ s \in Seq(OperandSet)
  /\ \A i \in 1 .. Len(s) : IsLd(s[i].ty) => s[i].at # "memory"

Typed == Sound(operands) /\ arms \in Seq(ArmSet) /\ ops \in Nat /\ ld_sp \in Int

LEMMA SoundFront ==
  ASSUME NEW s, Sound(s), NEW n \in Nat, n <= Len(s)
  PROVE  Sound(Front(s, n))
<1>1. /\ Front(s, n) \in Seq(OperandSet) /\ Len(Front(s, n)) = Len(s) - n
      /\ \A i \in 1 .. Len(s) - n : Front(s, n)[i] = s[i]
  BY FrontOf DEF Sound
<1> QED BY <1>1 DEF Sound

LEMMA SoundAppend ==
  ASSUME NEW s, Sound(s), NEW o \in OperandSet, IsLd(o.ty) => o.at # "memory"
  PROVE  Sound(Append(s, o))
  BY DEF Sound

LEMMA FrontZero ==
  ASSUME NEW S, NEW s \in Seq(S)
  PROVE  Front(s, 0) = s
  BY SubSeqFull DEF Front

\* What Replace and Drop leave.
LEMMA ReplaceSound ==
  ASSUME Sound(operands), NEW n \in Nat, n <= Len(operands), NEW o \in OperandSet,
         IsLd(o.ty) => o.at # "memory", Replace(n, o)
  PROVE  /\ Sound(operands') /\ operands' = Append(Front(operands, n), o)
         /\ Sound(Front(operands, n))
<1>1. Sound(Front(operands, n))
  BY SoundFront
<1>2. operands' = Append(Front(operands, n), o)
  BY DEF Replace, Front
<1> QED BY <1>1, <1>2, SoundAppend

LEMMA DropSound ==
  ASSUME Sound(operands), NEW n \in Nat, n <= Len(operands), Drop(n)
  PROVE  Sound(operands') /\ operands' = Front(operands, n)
  BY SoundFront DEF Drop, Front

\* The innermost arm, and the operands above its base.
LEMMA ArmType ==
  ASSUME arms \in Seq(ArmSet), arms # <<>>
  PROVE  Arm \in ArmSet /\ Outer \in Seq(ArmSet) /\ Len(Outer) = Len(arms) - 1
         /\ \A j \in 1 .. Len(arms) - 1 : Outer[j] = arms[j]
<1>1. Len(arms) \in Nat \ {0}
  BY EmptySeq
<1>2. Arm \in ArmSet
  BY <1>1 DEF Arm
<1>3. /\ Front(arms, 1) \in Seq(ArmSet) /\ Len(Front(arms, 1)) = Len(arms) - 1
      /\ \A j \in 1 .. Len(arms) - 1 : Front(arms, 1)[j] = arms[j]
  BY <1>1, FrontOf
<1> QED BY <1>2, <1>3 DEF Outer, Front

LEMMA BaseType ==
  ASSUME arms \in Seq(ArmSet)
  PROVE  Base \in Nat
<1>1. CASE arms = <<>>
  BY <1>1 DEF Base
<1>2. CASE arms # <<>>
  BY <1>2, ArmType DEF Base, Arm, ArmSet
<1> QED BY <1>1, <1>2

LEMMA TopType ==
  ASSUME Typed, NEW n \in Nat \ {0}, Has(n)
  PROVE  /\ n <= Len(operands) /\ Top \in OperandSet
         /\ Len(operands) \in Nat
         /\ IsLd(Top.ty) => Top.at # "memory"
         /\ n = 2 => Below \in OperandSet /\ (IsLd(Below.ty) => Below.at # "memory")
<1>1. n <= Len(operands) /\ Len(operands) \in Nat
  BY BaseType DEF Has, Typed, Sound
<1>2. Top \in OperandSet /\ (IsLd(Top.ty) => Top.at # "memory")
  BY <1>1 DEF Typed, Sound, Top
<1>3. n = 2 => Below \in OperandSet /\ (IsLd(Below.ty) => Below.at # "memory")
  BY <1>1 DEF Typed, Sound, Below
<1> QED BY <1>1, <1>2, <1>3

-----------------------------------------------------------------------------
(* The invariant *)

\* While the compiler runs, ld_sp is twice the number of long doubles held; it
\* stops only when there are six.
Counted ==
  /\ status \in {"ok", "done", "rejected"}
  /\ status = "ok" => ld_sp = 2 * Count(operands) /\ ld_sp <= 10
  /\ status = "rejected" => Count(operands) = 6

\* The second arm of a conditional does not follow a long double.
ArmsPlain == \A j \in 1 .. Len(arms) : arms[j].op = ":" => ~IsLd(arms[j].ty)

IInv == Typed /\ (Plain => Counted /\ ArmsPlain)

LEMMA PlainBefore ==
  ASSUME Plain', shapes \subseteq shapes'
  PROVE  Plain
  BY DEF Plain

LEMMA PlainStored ==
  ASSUME Plain', NEW o \in OperandSet, Stored(o) \subseteq shapes'
  PROVE  o.at # "nowhere"
  BY DEF Plain, Shapes, Stored

\* Popping the top of the stack.
LEMMA HeightCounts ==
  ASSUME Typed, Has(1), Top.at # "memory", ld_sp = 2 * Count(operands), ld_sp <= 10,
         Plain', Stored(Top) \subseteq shapes'
  PROVE  /\ Height(Top.ty) = 2 * Count(Front(operands, 1))
         /\ Height(Top.ty) <= 10 /\ Height(Top.ty) \in Nat
<1>1. Top \in OperandSet /\ 1 <= Len(operands) /\ Top = operands[Len(operands)]
  BY TopType DEF Top
<1>2. Count(operands) = Count(Front(operands, 1)) + Weight(Top) /\ Count(Front(operands, 1)) \in Nat
  BY <1>1, CountFront, CountType DEF Typed, Sound
<1>3. IsLd(Top.ty) => Top.at = "register"
  BY <1>1, PlainStored DEF OperandSet
<1>4. Weight(Top) = IF IsLd(Top.ty) THEN 1 ELSE 0
  BY <1>3 DEF Weight, OnStack
<1> QED BY <1>2, <1>4 DEF Height, Typed

\* Leaving a result.
LEMMA LeaveCounts ==
  ASSUME status = "ok", NEW s \in Seq(OperandSet), NEW o \in OperandSet, NEW h,
         IsLd(o.ty) => o.at = "register",
         operands' = Append(s, o), h = 2 * Count(s), h <= 10,
         ld_sp' = IF IsLd(o.ty) THEN h + 2 ELSE h,
         status' = IF IsLd(o.ty) /\ h + 2 >= 12 THEN "rejected" ELSE status
  PROVE  Counted' /\ ld_sp' \in Int
<1>1. Count(s) \in Nat
  BY CountType
<1>2. Count(operands') = Count(s) + (IF IsLd(o.ty) THEN 1 ELSE 0)
  BY CountAppend DEF Weight, OnStack
<1>3. CASE IsLd(o.ty)
  BY <1>1, <1>2, <1>3 DEF Counted
<1>4. CASE ~IsLd(o.ty)
  BY <1>1, <1>2, <1>4 DEF Counted
<1> QED BY <1>3, <1>4

-----------------------------------------------------------------------------
(* Operations *)

LEMMA ResultType ==
  ASSUME Typed, NEW ty \in Types, NEW at \in {"register", "nowhere", "memory"}
  PROVE  /\ New \in Nat /\ Operand(ty, New, at) \in OperandSet
         /\ Operand(ty, New, at).ty = ty /\ Operand(ty, New, at).at = at
  BY DEF Operand, OperandSet, New, Typed

\* The arms of a step that opens none.
LEMMA ArmsKept ==
  ASSUME IInv, shapes \subseteq shapes',
         arms' = arms \/ (arms # <<>> /\ arms' = Outer)
  PROVE  arms' \in Seq(ArmSet) /\ (Plain' => Counted /\ ArmsPlain /\ ArmsPlain')
<1>1. Typed /\ (Plain' => Counted /\ ArmsPlain)
  BY PlainBefore DEF IInv
<1>2. CASE arms' = arms
  BY <1>1, <1>2 DEF ArmsPlain, Typed
<1>3. CASE arms # <<>> /\ arms' = Outer
  BY <1>1, <1>3, ArmType DEF ArmsPlain, Typed
<1> QED BY <1>2, <1>3

\* An operation replaces n operands by its result.  What it does to ld_sp
\* matters in a plain function only.
LEMMA OperationStep ==
  ASSUME IInv, status = "ok", ops' = ops + 1, shapes \subseteq shapes',
         arms' \in Seq(ArmSet), ld_sp' \in Int,
         NEW n \in Nat, n <= Len(operands), NEW o \in OperandSet, Replace(n, o),
         IsLd(o.ty) => o.at # "memory",
         NEW h,
         Plain' => /\ ArmsPlain'
                   /\ IsLd(o.ty) => o.at = "register"
                   /\ h = 2 * Count(Front(operands, n)) /\ h <= 10
                   /\ ld_sp' = IF IsLd(o.ty) THEN h + 2 ELSE h
                   /\ status' = IF IsLd(o.ty) /\ h + 2 >= 12 THEN "rejected" ELSE status
  PROVE  IInv'
<1>1. Sound(operands') /\ operands' = Append(Front(operands, n), o) /\ Sound(Front(operands, n))
  BY ReplaceSound DEF IInv, Typed
<1>2. Typed'
  BY <1>1 DEF IInv, Typed
<1>3. Plain' => Counted'
  BY <1>1, LeaveCounts DEF Sound
<1> QED BY <1>2, <1>3 DEF IInv

\* A step that only takes operands away.
LEMMA RemovalStep ==
  ASSUME IInv, ops' = ops + 1, Sound(operands'), arms' \in Seq(ArmSet), ld_sp' \in Int,
         Plain' => /\ ArmsPlain'
                   /\ \/ status' = "ok" /\ ld_sp' = 2 * Count(operands') /\ ld_sp' <= 10
                      \/ status' = "done"
  PROVE  IInv'
  BY DEF IInv, Typed, Counted

LEMMA LeafStep ==
  ASSUME IInv, NEW ty \in Types, Number(ty) \/ Variable(ty)
  PROVE  IInv'
<1> DEFINE o == Operand(ty, New, "register")
<1>1. /\ status = "ok" /\ ops' = ops + 1 /\ Replace(0, o)
      /\ UNCHANGED <<arms, shapes>>
      /\ ld_sp' = IF IsLd(ty) THEN ld_sp + 2 ELSE ld_sp
      /\ status' = IF IsLd(ty) /\ ld_sp + 2 >= 12 THEN "rejected" ELSE status
  BY DEF Number, Variable, Step, Leave
<1>2. Typed /\ o \in OperandSet /\ o.ty = ty /\ o.at = "register"
  BY ResultType DEF IInv
<1>3. 0 \in Nat /\ 0 <= Len(operands) /\ Front(operands, 0) = operands
  BY <1>2, FrontZero DEF Typed, Sound
<1>4. arms' \in Seq(ArmSet) /\ (Plain' => Counted /\ ArmsPlain')
  BY <1>1, ArmsKept
<1>5. ld_sp' \in Int
  BY <1>1, <1>2 DEF Typed
<1> QED
  BY <1>1, <1>2, <1>3, <1>4, <1>5, OperationStep DEF Counted

\* A cast and !: the operand is popped, and the result left.
LEMMA UnaryStep ==
  ASSUME IInv, status = "ok", ops' = ops + 1, shapes \subseteq shapes',
         Has(1), Top.at # "memory", Stored(Top) \subseteq shapes',
         arms' = arms \/ (arms # <<>> /\ arms' = Outer),
         NEW ty \in Types, Replace(1, Operand(ty, New, "register")),
         ld_sp' = (IF IsLd(ty) THEN Height(Top.ty) + 2 ELSE Height(Top.ty)),
         status' = IF IsLd(ty) /\ Height(Top.ty) + 2 >= 12 THEN "rejected" ELSE status
  PROVE  IInv'
<1> DEFINE o == Operand(ty, New, "register")
<1>1. Typed /\ o \in OperandSet /\ o.ty = ty /\ o.at = "register"
  BY ResultType DEF IInv
<1>2. 1 \in Nat /\ 1 <= Len(operands) /\ Height(Top.ty) \in Int
  BY <1>1, TopType DEF Height, Typed
<1>3. arms' \in Seq(ArmSet) /\ (Plain' => Counted /\ ArmsPlain')
  BY ArmsKept
<1>4. Plain' => Height(Top.ty) = 2 * Count(Front(operands, 1)) /\ Height(Top.ty) <= 10
  BY <1>1, <1>3, HeightCounts DEF Counted
<1> QED BY <1>1, <1>2, <1>3, <1>4, OperationStep

LEMMA CastStep ==
  ASSUME IInv, NEW ty \in Types, Cast(ty)
  PROVE  IInv'
  BY UnaryStep DEF Cast, Step, Ready, Leave

LEMMA NotStep ==
  ASSUME IInv, Not
  PROVE  IInv'
<1>1. /\ status = "ok" /\ ops' = ops + 1 /\ Has(1) /\ Top.at # "memory" /\ arms' = arms
      /\ ld_sp' = Height(Top.ty) /\ status' = status
      /\ Replace(1, Operand("int", New, "register"))
      /\ shapes \subseteq shapes' /\ Stored(Top) \subseteq shapes'
  BY DEF Not, Step, Ready, Leave, IsLd, TestShapes
<1> QED BY <1>1, UnaryStep DEF IsLd, Types

\* A scalar operation leaves the stack alone.
LEMMA ScalarStep ==
  ASSUME IInv, status = "ok", ops' = ops + 1, Has(1), Top.at # "memory", ~IsLd(Top.ty),
         UNCHANGED <<ld_sp, arms, shapes, status>>,
         NEW o \in OperandSet, ~IsLd(o.ty), Replace(1, o)
  PROVE  IInv'
<1>1. 1 \in Nat /\ 1 <= Len(operands) /\ ld_sp \in Int /\ Top = operands[Len(operands)]
      /\ operands \in Seq(OperandSet)
  BY TopType DEF IInv, Typed, Top, Sound
<1>2. arms' \in Seq(ArmSet) /\ (Plain' => Counted /\ ArmsPlain')
  BY ArmsKept
<1>3. Count(Front(operands, 1)) = Count(operands)
  BY <1>1, CountFront, CountType DEF Weight, OnStack
<1>4. Plain' => ld_sp = 2 * Count(Front(operands, 1)) /\ ld_sp <= 10
  BY <1>2, <1>3 DEF Counted
<1> QED BY <1>1, <1>2, <1>4, OperationStep

LEMMA NegateStep ==
  ASSUME IInv, Negate
  PROVE  IInv'
<1> DEFINE o == Operand(Top.ty, New, Top.at)
<1>1. Typed /\ Has(1) /\ 1 \in Nat /\ 1 <= Len(operands) /\ Top \in OperandSet /\ Top.at # "memory"
  BY TopType DEF Negate, Ready, IInv
<1>2. o \in OperandSet /\ o.ty = Top.ty /\ o.at = Top.at
  BY <1>1, ResultType DEF OperandSet
<1>3. CASE IsLd(Top.ty)
  <2>1. ~Plain' /\ shapes \subseteq shapes'
    BY <1>3 DEF Negate, Plain, Shapes
  <2> QED BY <1>1, <1>2, <2>1, OperationStep DEF Negate, Step, IInv, Typed
<1>4. CASE ~IsLd(Top.ty)
  BY <1>1, <1>2, <1>4, ScalarStep DEF Negate, Step
<1> QED BY <1>3, <1>4

LEMMA CastToBoolStep ==
  ASSUME IInv, CastToBool
  PROVE  IInv'
<1> DEFINE o == Operand("int", New, "register")
<1>1. Typed /\ Has(1) /\ 1 \in Nat /\ 1 <= Len(operands) /\ Top.at # "memory"
  BY TopType DEF CastToBool, Ready, IInv
<1>2. o \in OperandSet /\ ~IsLd(o.ty)
  BY <1>1, ResultType DEF Types, IsLd
<1>3. CASE Top.ty # "int"
  <2>1. ~Plain' /\ shapes \subseteq shapes'
    BY <1>3 DEF CastToBool, Plain, Shapes
  <2> QED BY <1>1, <1>2, <2>1, OperationStep DEF CastToBool, Step, IInv, Typed
<1>4. CASE Top.ty = "int"
  BY <1>1, <1>2, <1>4, ScalarStep DEF CastToBool, Step, IsLd
<1> QED BY <1>3, <1>4

LEMMA PushStep ==
  ASSUME IInv, Push
  PROVE  IInv'
<1> DEFINE o == Operand(Top.ty, Top.val, "memory")
<1>1. Has(1) /\ Top \in OperandSet /\ Top.at # "memory"
  BY TopType DEF Push, Ready, IInv
<1>2. o \in OperandSet /\ o.ty = Top.ty
  BY <1>1 DEF OperandSet, Operand
<1> QED BY <1>1, <1>2, ScalarStep DEF Push, Step

\* Two operands that are not, or both, on the stack of long doubles.
LEMMA TwoCounted ==
  ASSUME Typed, Has(2)
  PROVE  /\ 2 \in Nat /\ 2 <= Len(operands) /\ Top \in OperandSet /\ Below \in OperandSet
         /\ Count(operands) = Count(Front(operands, 2)) + Weight(Below) + Weight(Top)
         /\ Count(Front(operands, 2)) \in Nat
<1>1. /\ 2 <= Len(operands) /\ operands \in Seq(OperandSet)
      /\ Top \in OperandSet /\ Below \in OperandSet
  BY TopType DEF Typed, Sound
<1> QED BY <1>1, CountFrontTwo, CountType DEF Top, Below

LEMMA OperateStep ==
  ASSUME IInv, NEW ty \in Types, Operate(ty)
  PROVE  IInv'
<1> DEFINE o == Operand(ty, New, "register")
<1>1. Typed /\ Has(2) /\ ~IsLd(Top.ty) /\ ~IsLd(Below.ty) /\ ~IsLd(ty)
  BY DEF Operate, IInv, IsLd
<1>2. o \in OperandSet /\ ~IsLd(o.ty) /\ ld_sp \in Int
  BY <1>1, ResultType DEF Typed
<1>3. arms' \in Seq(ArmSet) /\ (Plain' => Counted /\ ArmsPlain')
  BY ArmsKept DEF Operate
<1>4. /\ 2 \in Nat /\ 2 <= Len(operands) /\ Count(operands) = Count(Front(operands, 2))
  BY <1>1, TwoCounted DEF Weight, OnStack
<1>5. Plain' => ld_sp = 2 * Count(Front(operands, 2)) /\ ld_sp <= 10
  BY <1>3, <1>4 DEF Counted, Operate, Step
<1> QED BY <1>2, <1>3, <1>4, <1>5, OperationStep DEF Operate, Step

LEMMA OperateLdStep ==
  ASSUME IInv, NEW ty \in Types, OperateLd(ty)
  PROVE  IInv'
<1> DEFINE o == Operand(ty, New, "register")
           h == ld_sp - 4
<1>1. /\ Typed /\ Has(2) /\ IsLd(Top.ty) /\ IsLd(Below.ty) /\ status = "ok" /\ ops' = ops + 1
      /\ Stored(Top) \subseteq shapes' /\ Stored(Below) \subseteq shapes' /\ shapes \subseteq shapes'
      /\ arms' = arms /\ Replace(2, o)
      /\ ld_sp' = IF IsLd(ty) THEN h + 2 ELSE h
      /\ status' = IF IsLd(ty) /\ h + 2 >= 12 THEN "rejected" ELSE status
  BY DEF OperateLd, IInv, Step, Leave
<1>2. o \in OperandSet /\ o.ty = ty /\ o.at = "register" /\ ld_sp \in Int
  BY <1>1, ResultType DEF Typed
<1>3. arms' \in Seq(ArmSet) /\ (Plain' => Counted /\ ArmsPlain')
  BY <1>1, ArmsKept
<1>4. /\ 2 \in Nat /\ 2 <= Len(operands) /\ Top \in OperandSet /\ Below \in OperandSet
      /\ Count(operands) = Count(Front(operands, 2)) + Weight(Below) + Weight(Top)
      /\ Count(Front(operands, 2)) \in Nat
      /\ Top.at # "memory" /\ Below.at # "memory"
  BY <1>1, TwoCounted, TopType
<1>5. ASSUME Plain' PROVE h = 2 * Count(Front(operands, 2)) /\ h <= 10
  <2>1. Top.at = "register" /\ Below.at = "register"
    BY <1>1, <1>4, <1>5, PlainStored DEF OperandSet
  <2>2. Weight(Top) = 1 /\ Weight(Below) = 1
    BY <1>1, <2>1 DEF Weight, OnStack
  <2> QED BY <1>1, <1>2, <1>3, <1>4, <1>5, <2>2 DEF Counted
<1> QED BY <1>1, <1>2, <1>3, <1>4, <1>5, OperationStep

LEMMA AssignStep ==
  ASSUME IInv, Assign
  PROVE  IInv'
<1> DEFINE o == Operand(Top.ty, Top.val, IF IsLd(Top.ty) THEN "nowhere" ELSE "register")
<1>1. /\ Typed /\ Has(1) /\ Top \in OperandSet /\ Top.at # "memory"
      /\ 1 \in Nat /\ 1 <= Len(operands)
  BY TopType DEF Assign, Ready, IInv
<1>2. /\ o \in OperandSet /\ o.ty = Top.ty /\ Replace(1, o) /\ o.at # "memory"
      /\ IsLd(o.ty) => o.at = "nowhere"
      /\ ops' = ops + 1 /\ status = "ok" /\ UNCHANGED <<arms, status>>
      /\ ld_sp' = Height(Top.ty) /\ shapes \subseteq shapes' /\ Stored(Top) \subseteq shapes'
  BY <1>1 DEF OperandSet, Operand, Assign, Step
<1>3. ld_sp' \in Int /\ arms' \in Seq(ArmSet) /\ (Plain' => Counted /\ ArmsPlain')
  BY <1>1, <1>2, ArmsKept DEF Height, Typed
<1>4. /\ Sound(operands') /\ Sound(Front(operands, 1))
      /\ operands' = Append(Front(operands, 1), o)
  BY <1>1, <1>2, ReplaceSound DEF Typed
<1>5. Count(operands') = Count(Front(operands, 1))
  <2>1. Weight(o) = 0 /\ Count(Front(operands, 1)) \in Nat
    BY <1>2, <1>4, CountType DEF Weight, OnStack, Sound
  <2> QED BY <1>2, <1>4, <2>1, CountAppend DEF Sound
<1>6. Plain' => ld_sp' = 2 * Count(operands') /\ ld_sp' <= 10
  BY <1>1, <1>2, <1>3, <1>5, HeightCounts DEF Counted
<1> QED BY <1>2, <1>3, <1>4, <1>6, RemovalStep

LEMMA DiscardStep ==
  ASSUME IInv, Discard
  PROVE  IInv'
<1>1. /\ Typed /\ Has(1) /\ 1 \in Nat /\ 1 <= Len(operands) /\ operands \in Seq(OperandSet)
      /\ Top = operands[Len(operands)]
  BY TopType DEF Discard, Ready, IInv, Typed, Sound, Top
<1>2. Sound(operands') /\ operands' = Front(operands, 1)
  BY <1>1, DropSound DEF Discard, Typed
<1>3. ld_sp' \in Int /\ arms' \in Seq(ArmSet) /\ (Plain' => Counted /\ ArmsPlain')
  BY <1>1, ArmsKept DEF Typed, Discard
<1>4. Plain' => Count(operands') = Count(operands)
  <2>1. Plain' => Weight(Top) = 0
    BY DEF Plain, Shapes, Discard, Weight, OnStack
  <2> QED BY <1>1, <1>2, <2>1, CountFront, CountType, SoundFront DEF Sound
<1> QED BY <1>2, <1>3, <1>4, RemovalStep DEF Counted, Discard, Step

LEMMA CallStep ==
  ASSUME IInv, NEW f \in Callees, NEW lost \in BOOLEAN, Call(f, lost)
  PROVE  IInv'
<1> DEFINE o == Operand(f.result, New, "register")
           h == IF IsLd(f.param) THEN ld_sp - 2 ELSE ld_sp
<1>1. Typed /\ f.result \in Types /\ o \in OperandSet /\ o.ty = f.result /\ o.at = "register"
  BY CalleesAssumption, ResultType DEF IInv
<1>2. /\ status = "ok" /\ ops' = ops + 1 /\ shapes \subseteq shapes' /\ arms' = arms
      /\ ld_sp' = IF IsLd(o.ty) THEN h + 2 ELSE h
      /\ status' = IF IsLd(o.ty) /\ h + 2 >= 12 THEN "rejected" ELSE status
      /\ Replace(IF f.param = "none" THEN 0 ELSE 1, o)
  BY <1>1 DEF Call, Step, Leave
<1>3. ld_sp' \in Int /\ arms' \in Seq(ArmSet) /\ (Plain' => Counted /\ ArmsPlain')
  BY <1>1, <1>2, ArmsKept DEF Typed
<1>4. CASE f.param = "none"
  <2>1. 0 \in Nat /\ 0 <= Len(operands) /\ Front(operands, 0) = operands /\ h = ld_sp
    BY <1>1, <1>4, FrontZero DEF Typed, Sound, IsLd
  <2> QED BY <1>1, <1>2, <1>3, <1>4, <2>1, OperationStep DEF Counted
<1>5. CASE f.param # "none"
  <2>1. /\ Has(1) /\ Top.at # "memory" /\ Top.ty = f.param /\ Stored(Top) \subseteq shapes'
    BY <1>5 DEF Call, Ready
  <2>2. 1 \in Nat /\ 1 <= Len(operands) /\ h = Height(Top.ty)
    BY <1>1, <2>1, TopType DEF Height
  <2>3. Plain' => h = 2 * Count(Front(operands, 1)) /\ h <= 10
    BY <1>1, <1>2, <1>3, <2>1, <2>2, HeightCounts DEF Counted
  <2> QED BY <1>1, <1>2, <1>3, <1>5, <2>2, <2>3, OperationStep
<1> QED BY <1>4, <1>5

-----------------------------------------------------------------------------
(* Conditions *)

\* A test of the top as what it is.
LEMMA TestCounts ==
  ASSUME IInv, status = "ok", Test(Top.ty), TestShapes \subseteq shapes', shapes \subseteq shapes'
  PROVE  /\ Typed /\ Has(1) /\ 1 \in Nat /\ 1 <= Len(operands) /\ Top \in OperandSet
         /\ ld_sp' \in Int
         /\ Plain' => ld_sp' = 2 * Count(Front(operands, 1)) /\ ld_sp' <= 10
<1>1. Typed /\ Has(1) /\ Top.at # "memory" /\ ld_sp' = Height(Top.ty)
  BY DEF IInv, Test, Ready
<1>2. 1 \in Nat /\ 1 <= Len(operands) /\ Top \in OperandSet /\ ld_sp' \in Int
  BY <1>1, TopType DEF Height, Typed
<1>3. ASSUME Plain' PROVE ld_sp' = 2 * Count(Front(operands, 1)) /\ ld_sp' <= 10
  <2>1. Counted
    BY <1>3, PlainBefore DEF IInv
  <2> QED BY <1>1, <1>3, <2>1, HeightCounts DEF Counted, TestShapes
<1> QED BY <1>1, <1>2, <1>3

LEMMA BranchStep ==
  ASSUME IInv, Branch
  PROVE  IInv'
<1>1. /\ status = "ok" /\ ops' = ops + 1 /\ Test(Top.ty) /\ Len(operands) = 1 /\ operands' = <<>>
      /\ TestShapes \subseteq shapes' /\ shapes \subseteq shapes' /\ UNCHANGED <<arms, status>>
  BY DEF Branch, Step
<1>2. /\ Typed /\ ld_sp' \in Int
      /\ Plain' => ld_sp' = 2 * Count(Front(operands, 1)) /\ ld_sp' <= 10
  BY <1>1, TestCounts
<1>3. arms' \in Seq(ArmSet) /\ (Plain' => Counted /\ ArmsPlain')
  BY <1>1, ArmsKept
<1>4. Front(operands, 1) = <<>>
  BY <1>1, <1>2, SubSeqEmpty DEF Front, Typed, Sound
<1>5. Sound(operands')
  BY <1>1 DEF Sound
<1> QED BY <1>1, <1>2, <1>3, <1>4, <1>5, RemovalStep

LEMMA OpenStep ==
  ASSUME IInv, NEW op \in {"?", "&&", "||"}, NEW taken \in BOOLEAN, Open(op, taken)
  PROVE  IInv'
<1> DEFINE arm == [op |-> op, ty |-> Top.ty, base |-> Len(operands) - 1,
                   live |-> Live /\ taken, other |-> Live /\ ~taken, val |-> Junk]
<1>1. /\ status = "ok" /\ ops' = ops + 1 /\ Test(Top.ty) /\ Drop(1)
      /\ TestShapes \subseteq shapes' /\ shapes \subseteq shapes' /\ status' = status
      /\ arms' = Append(arms, arm)
  BY DEF Open, Step
<1>2. /\ Typed /\ ld_sp' \in Int /\ 1 \in Nat /\ 1 <= Len(operands) /\ Top \in OperandSet
      /\ Plain' => ld_sp' = 2 * Count(Front(operands, 1)) /\ ld_sp' <= 10
  BY <1>1, TestCounts
<1>3. arm \in ArmSet
  <2>1. Len(operands) - 1 \in Nat /\ Top.ty \in Types /\ Junk \in Nat
    BY <1>2 DEF Typed, Sound, OperandSet, Junk
  <2>2. (Live /\ taken) \in BOOLEAN /\ (Live /\ ~taken) \in BOOLEAN
    OBVIOUS
  <2> QED BY <2>1, <2>2, Zenon DEF ArmSet
<1>4. arms' \in Seq(ArmSet)
  BY <1>1, <1>2, <1>3 DEF Typed
<1>5. ASSUME Plain' PROVE ArmsPlain'
  <2>1. ArmsPlain
    BY <1>1, <1>5, PlainBefore DEF IInv
  <2>2. arm.op # ":"
    OBVIOUS
  <2>3. \A j \in 1 .. Len(arms') : arms'[j] = arm \/ (j \in 1 .. Len(arms) /\ arms'[j] = arms[j])
    <3> HIDE DEF arm
    <3> QED BY <1>1, <1>2, <1>3 DEF Typed
  <2> QED BY <2>1, <2>2, <2>3 DEF ArmsPlain
<1>6. Sound(operands') /\ operands' = Front(operands, 1)
  BY <1>1, <1>2, DropSound DEF Typed
<1> QED BY <1>1, <1>2, <1>4, <1>5, <1>6, RemovalStep

LEMMA ColonStep ==
  ASSUME IInv, Colon
  PROVE  IInv'
<1> DEFINE arm == [Arm EXCEPT !.op = ":", !.live = Arm.other, !.other = Arm.live,
                              !.ty = Top.ty, !.val = Top.val]
<1>1. /\ status = "ok" /\ ops' = ops + 1 /\ arms # <<>> /\ Ready /\ Drop(1)
      /\ arms' = Append(Outer, arm) /\ shapes \subseteq shapes'
      /\ IsLd(Top.ty) => ~Plain'
      /\ UNCHANGED <<ld_sp, status>>
  BY DEF Colon, Step, Plain, Shapes
<1>2. /\ Typed /\ 1 \in Nat /\ 1 <= Len(operands) /\ Top \in OperandSet
      /\ operands \in Seq(OperandSet) /\ Top = operands[Len(operands)]
  BY <1>1, TopType DEF IInv, Ready, Typed, Sound, Top
<1>3. arm \in ArmSet /\ arm.ty = Top.ty
  BY <1>1, <1>2, ArmType DEF Typed, ArmSet, OperandSet
<1>4. arms' \in Seq(ArmSet)
  BY <1>1, <1>2, <1>3, ArmType DEF Typed
<1>5. Sound(operands') /\ operands' = Front(operands, 1)
  BY <1>1, <1>2, DropSound DEF Typed
<1>6. ASSUME Plain'
      PROVE  /\ ArmsPlain' /\ ld_sp' = 2 * Count(operands') /\ ld_sp' <= 10
  <2>1. Counted /\ ArmsPlain /\ ~IsLd(Top.ty)
    BY <1>1, <1>6, PlainBefore DEF IInv
  <2>2. Count(operands') = Count(operands)
    BY <1>2, <1>5, <2>1, CountFront, CountType DEF Weight, OnStack
  <2>3. \A j \in 1 .. Len(arms') : arms'[j] = arm \/ (j \in 1 .. Len(arms) /\ arms'[j] = arms[j])
    <3>1. /\ Outer \in Seq(ArmSet) /\ Len(Outer) = Len(arms) - 1
          /\ \A j \in 1 .. Len(arms) - 1 : Outer[j] = arms[j]
      BY <1>1, <1>2, ArmType DEF Typed
    <3> HIDE DEF arm
    <3> QED BY <1>1, <1>2, <1>3, <3>1, SMTT(30) DEF Typed
  <2>4. ArmsPlain'
    BY <1>3, <2>1, <2>3 DEF ArmsPlain
  <2> QED BY <1>1, <2>1, <2>2, <2>4 DEF Counted
<1> QED BY <1>1, <1>2, <1>4, <1>5, <1>6, RemovalStep DEF Typed

LEMMA EndConditionalStep ==
  ASSUME IInv, EndConditional
  PROVE  IInv'
<1> DEFINE o == Operand(Top.ty, IF Arm.other THEN Arm.val ELSE Top.val, Top.at)
<1>1. /\ status = "ok" /\ ops' = ops + 1 /\ arms # <<>> /\ Ready /\ arms' = Outer
      /\ Arm.op = ":" /\ Top.ty = Arm.ty /\ Replace(1, o)
      /\ shapes \subseteq shapes' /\ UNCHANGED <<ld_sp, status>>
  BY DEF EndConditional, Step
<1>2. /\ Typed /\ 1 \in Nat /\ 1 <= Len(operands) /\ Top \in OperandSet /\ Arm \in ArmSet
      /\ operands \in Seq(OperandSet) /\ Top = operands[Len(operands)] /\ Top.at # "memory"
  BY <1>1, TopType, ArmType DEF IInv, Ready, Typed, Sound, Top
<1>3. o \in OperandSet /\ o.ty = Top.ty /\ o.at = Top.at
  BY <1>2 DEF OperandSet, ArmSet, Operand
<1>4. arms' \in Seq(ArmSet) /\ (Plain' => Counted /\ ArmsPlain /\ ArmsPlain')
  BY <1>1, ArmsKept
<1>5. ASSUME Plain'
      PROVE  ~IsLd(Top.ty) /\ ld_sp = 2 * Count(Front(operands, 1)) /\ ld_sp <= 10
  <2>1. Len(arms) \in 1 .. Len(arms) /\ Arm = arms[Len(arms)]
    BY <1>1, <1>2, EmptySeq DEF Arm, Typed
  <2>2. ~IsLd(Top.ty)
    BY <1>1, <1>4, <1>5, <2>1 DEF ArmsPlain
  <2>3. Count(Front(operands, 1)) = Count(operands)
    BY <1>2, <2>2, CountFront, CountType DEF Weight, OnStack
  <2> QED BY <1>1, <1>4, <1>5, <2>2, <2>3 DEF Counted
<1> QED BY <1>1, <1>2, <1>3, <1>4, <1>5, OperationStep DEF Typed

LEMMA EndLogicalStep ==
  ASSUME IInv, EndLogical
  PROVE  IInv'
<1> DEFINE o == Operand("int", New, "register")
<1>1. /\ status = "ok" /\ ops' = ops + 1 /\ arms # <<>> /\ Ready /\ arms' = Outer
      /\ Replace(1, o) /\ ld_sp' = Height(ComparedAs) /\ status' = status
      /\ shapes \subseteq shapes' /\ Stored(Top) \subseteq shapes'
      /\ Plain' => ComparedAs = Top.ty
  BY DEF EndLogical, Step, Test, TestShapes, Plain, Shapes
<1>2. /\ Typed /\ 1 \in Nat /\ 1 <= Len(operands) /\ Has(1) /\ Top.at # "memory"
      /\ o \in OperandSet /\ ~IsLd(o.ty) /\ o.at = "register"
  BY <1>1, TopType, ResultType DEF IInv, Ready, Types, IsLd
<1>3. arms' \in Seq(ArmSet) /\ (Plain' => Counted /\ ArmsPlain')
  BY <1>1, ArmsKept
<1>4. ld_sp' \in Int
  BY <1>1, <1>2 DEF Height, Typed
<1>5. Plain' => ld_sp' = 2 * Count(Front(operands, 1)) /\ ld_sp' <= 10
  BY <1>1, <1>2, <1>3, HeightCounts DEF Counted
<1> QED BY <1>1, <1>2, <1>3, <1>4, <1>5, OperationStep

-----------------------------------------------------------------------------
(* The function *)

LEMMA ReturnStep ==
  ASSUME IInv, Return
  PROVE  IInv'
<1>1. /\ status = "ok" /\ ops' = ops + 1 /\ Ready /\ Len(operands) = 1 /\ operands' = <<>>
      /\ ld_sp' = Height(Top.ty) /\ Epilogue(Height(Top.ty)) /\ arms' = arms
      /\ shapes \subseteq shapes' /\ Stored(Top) \subseteq shapes'
  BY DEF Return, Step, TestShapes
<1>2. Typed /\ Has(1) /\ Top.at # "memory" /\ ld_sp' \in Int /\ Sound(operands')
  BY <1>1 DEF IInv, Ready, Typed, Height, Sound
<1>3. arms' \in Seq(ArmSet) /\ (Plain' => Counted /\ ArmsPlain')
  BY <1>1, ArmsKept
<1>4. ASSUME Plain' PROVE status' = "done"
  <2>1. Front(operands, 1) = <<>>
    BY <1>1, <1>2, SubSeqEmpty DEF Front, Typed, Sound
  <2>2. Height(Top.ty) = 2 * Count(<<>>)
    BY <1>1, <1>2, <1>3, <1>4, <2>1, HeightCounts DEF Counted
  <2> QED BY <1>1, <2>2, CountEmpty DEF Epilogue
<1> QED BY <1>1, <1>2, <1>3, <1>4, RemovalStep

LEMMA EndOfBodyStep ==
  ASSUME IInv, EndOfBody
  PROVE  IInv'
<1>1. /\ status = "ok" /\ ops' = ops + 1 /\ operands = <<>> /\ Epilogue(ld_sp)
      /\ UNCHANGED <<ld_sp, operands, arms, shapes>>
  BY DEF EndOfBody, Step
<1>2. Sound(operands') /\ ld_sp' \in Int
  BY <1>1 DEF IInv, Typed
<1>3. arms' \in Seq(ArmSet) /\ (Plain' => Counted /\ ArmsPlain')
  BY <1>1, ArmsKept
<1>4. Plain' => status' = "done"
  BY <1>1, <1>3, CountEmpty DEF Counted, Epilogue
<1> QED BY <1>1, <1>2, <1>3, <1>4, RemovalStep

LEMMA PopFailsStep ==
  ASSUME IInv, PopFails
  PROVE  IInv'
<1>1. /\ status = "ok" /\ ops' = ops + 1 /\ Has(1) /\ UNCHANGED <<ld_sp, operands, arms>>
      /\ shapes \subseteq shapes'
  BY DEF PopFails, Step, Ready
<1>2. Typed /\ Typed' /\ Top \in OperandSet /\ (IsLd(Top.ty) => Top.at # "memory")
  BY <1>1, TopType DEF IInv, Typed
<1>3. ASSUME Plain' PROVE FALSE
  <2>1. ld_sp = 2 * Count(operands) /\ ld_sp <= 10 /\ Count(operands) \in Nat
    BY <1>1, <1>2, <1>3, PlainBefore, CountType DEF IInv, Counted, Typed, Sound
  <2>2. CASE IsLd(Top.ty) /\ ~Pops(ld_sp) /\ shapes' = shapes \cup TestShapes
    <3>1. ld_sp <= 2 /\ Top.at = "register"
      BY <1>2, <1>3, <2>1, <2>2, PlainStored DEF Plain, Shapes, TestShapes, PopShapes, OperandSet
    <3>2. Count(operands) = Count(Front(operands, 1)) + 1 /\ Count(Front(operands, 1)) \in Nat
      <4>1. 1 \in Nat /\ 1 <= Len(operands) /\ operands \in Seq(OperandSet)
            /\ Top = operands[Len(operands)]
        BY <1>1, <1>2, TopType DEF Typed, Sound, Top
      <4> QED BY <2>2, <3>1, <4>1, CountFront, CountType DEF Weight, OnStack
    <3> QED BY <2>1, <2>2, <3>1, <3>2 DEF Pops
  <2>3. CASE /\ Has(2) /\ IsLd(Top.ty) /\ IsLd(Below.ty) /\ ~(Pops(ld_sp) /\ Pops(ld_sp - 2))
             /\ shapes' = shapes \cup PopShapes(2) \cup Stored(Top) \cup Stored(Below)
    <3>1. Below \in OperandSet /\ Below.at # "memory"
      BY <1>2, <2>3, TopType
    <3>2. ld_sp <= 4 /\ Top.at = "register" /\ Below.at = "register"
      BY <1>2, <1>3, <2>1, <2>3, <3>1, PlainStored DEF Plain, Shapes, PopShapes, OperandSet
    <3>3. Count(operands) = Count(Front(operands, 2)) + 2 /\ Count(Front(operands, 2)) \in Nat
      BY <1>2, <2>3, <3>2, TwoCounted DEF Weight, OnStack
    <3> QED BY <2>1, <2>3, <3>2, <3>3 DEF Pops
  <2>4. CASE shapes' = shapes \cup {"mixed"}
    BY <1>3, <2>4 DEF Plain, Shapes
  <2> QED BY <2>2, <2>3, <2>4 DEF PopFails
<1> QED BY <1>2, <1>3 DEF IInv

-----------------------------------------------------------------------------
(* The theorems *)

LEMMA InitInv == Init => IInv
<1> SUFFICES ASSUME Init PROVE IInv
  OBVIOUS
<1>1. Typed
  BY DEF Init, Typed, Sound
<1>2. Counted /\ ArmsPlain
  BY CountEmpty DEF Init, Counted, ArmsPlain
<1> QED BY <1>1, <1>2 DEF IInv

LEMMA NextInv == IInv /\ [Next]_vars => IInv'
<1> SUFFICES ASSUME IInv, [Next]_vars PROVE IInv'
  OBVIOUS
<1>1. CASE UNCHANGED vars
  BY <1>1 DEF vars, IInv, Typed, Plain, Counted, ArmsPlain
<1>2. CASE \E ty \in Types : Number(ty) \/ Variable(ty) \/ Cast(ty) \/ Operate(ty) \/ OperateLd(ty)
  BY <1>2, LeafStep, CastStep, OperateStep, OperateLdStep
<1>3. CASE Negate \/ CastToBool \/ Push \/ Assign \/ Discard \/ Not
  BY <1>3, NegateStep, CastToBoolStep, PushStep, AssignStep, DiscardStep, NotStep
<1>4. CASE \E f \in Callees, lost \in BOOLEAN : (lost => f.body = "library") /\ Call(f, lost)
  BY <1>4, CallStep
<1>5. CASE Branch \/ Colon \/ EndConditional \/ EndLogical
  BY <1>5, BranchStep, ColonStep, EndConditionalStep, EndLogicalStep
<1>6. CASE \E op \in {"?", "&&", "||"}, taken \in BOOLEAN : Open(op, taken)
  BY <1>6, OpenStep
<1>7. CASE Return \/ EndOfBody \/ PopFails
  BY <1>7, ReturnStep, EndOfBodyStep, PopFailsStep
<1> QED BY <1>1, <1>2, <1>3, <1>4, <1>5, <1>6, <1>7 DEF Next

\* In a plain function of any length, with conditionals nested to any depth and
\* any functions to call, the assertion at the end of emit_text() holds and
\* only a sixth long double is rejected.
THEOREM FloatOnlyDeepIsRejected == Spec => []OnlyDeepIsRejected
<1>1. IInv => OnlyDeepIsRejected
  <2>1. Held = Holding(operands)
    BY DEF Held, Holding, OnStack
  <2> QED BY <2>1 DEF IInv, OnlyDeepIsRejected, Counted, Count
<1> QED BY <1>1, InitInv, NextInv, PTL DEF Spec


RegSet == [a : [A -> Int], fa0 : Int, fs : [FS -> Int], ft : [FS -> Int]]

Untouched == [i \in FS |-> Callers(i)]

-----------------------------------------------------------------------------
(* Registers *)

LEMMA SetWord ==
  ASSUME NEW r \in RegSet, NEW i, NEW w \in Int
  PROVE  [r.a EXCEPT ![i] = w] \in [A -> Int]
<1>1. r.a \in [A -> Int]
  BY DEF RegSet
<1> QED BY <1>1

LEMMA PushLdEffect ==
  ASSUME NEW r \in RegSet, NEW h \in Int
  PROVE  /\ PushLd(r, h) \in RegSet /\ PushLd(r, h).ft = r.ft
         /\ \A i \in FS : i < h => PushLd(r, h).fs[i] = r.fs[i]
         /\ h \in 0 .. 10 => PushLd(r, h).fs[h] = r.a[0] /\ PushLd(r, h).fs[h + 1] = r.a[1]
<1>1. /\ r.fs \in [FS -> Int] /\ r.a \in [A -> Int] /\ r.a[0] \in Int /\ r.a[1] \in Int
  BY DEF RegSet, A
<1> DEFINE fs == [r.fs EXCEPT ![h] = r.a[0], ![h + 1] = r.a[1]]
<1>2. /\ fs \in [FS -> Int]
      /\ \A i \in FS : fs[i] = IF i = h + 1 THEN r.a[1] ELSE IF i = h THEN r.a[0] ELSE r.fs[i]
  BY <1>1
<1>3. PushLd(r, h) = [r EXCEPT !.fs = fs]
  BY <1>1 DEF PushLd, RegSet
<1> HIDE DEF fs
<1>4. PushLd(r, h) \in RegSet /\ PushLd(r, h).ft = r.ft /\ PushLd(r, h).fs = fs
  BY <1>2, <1>3 DEF RegSet
<1>5. h \in 0 .. 10 => h \in FS /\ h + 1 \in FS
  BY DEF FS
<1>6. FS \subseteq Int
  BY DEF FS
<1> QED BY <1>2, <1>4, <1>5, <1>6

LEMMA PopLdEffect ==
  ASSUME NEW r \in RegSet, NEW h, Pops(h)
  PROVE  /\ PopLd(r, h) \in RegSet /\ PopLd(r, h).fs = r.fs /\ PopLd(r, h).ft = r.ft
         /\ PopLd(r, h).a[h - 2] = r.fs[h - 2] /\ PopLd(r, h).a[h - 1] = r.fs[h - 1]
         /\ \A i \in A : i \notin {h - 2, h - 1} => PopLd(r, h).a[i] = r.a[i]
<1>1. /\ r.fs \in [FS -> Int] /\ r.a \in [A -> Int] /\ h \in 2 .. 8
      /\ r.fs[h - 1] \in Int /\ r.fs[h - 2] \in Int
  BY DEF RegSet, FS, Pops
<1> DEFINE a == [r.a EXCEPT ![h - 1] = r.fs[h - 1], ![h - 2] = r.fs[h - 2]]
<1>2. /\ a \in [A -> Int] /\ a[h - 2] = r.fs[h - 2] /\ a[h - 1] = r.fs[h - 1]
      /\ \A i \in A : i \notin {h - 2, h - 1} => a[i] = r.a[i]
  BY <1>1 DEF A
<1>3. PopLd(r, h) = [r EXCEPT !.a = a]
  BY <1>1 DEF PopLd, RegSet
<1> HIDE DEF a
<1> QED BY <1>2, <1>3 DEF RegSet

LEMMA PassedEffect ==
  ASSUME NEW r \in RegSet
  PROVE  Passed(r) \in RegSet /\ Passed(r).fs = r.fs /\ Passed(r).ft = r.ft
<1>1. Junk \in Int /\ [i \in A |-> Junk] \in [A -> Int]
  BY DEF Junk
<1> HIDE DEF Junk
<1> QED BY <1>1 DEF Passed, RegSet

\* What no routine of libgcc has used is still there.
SameFt(q, r) == \A i \in FS \ RoutineFt : q.ft[i] = r.ft[i]

LEMMA RoutineEffect ==
  ASSUME NEW r \in RegSet
  PROVE  Routine(r) \in RegSet /\ Routine(r).fs = r.fs /\ SameFt(Routine(r), r)
<1> DEFINE ft == [i \in FS |-> IF i \in RoutineFt THEN Junk ELSE r.ft[i]]
<1>1. ft \in [FS -> Int] /\ \A i \in FS \ RoutineFt : ft[i] = r.ft[i]
  BY DEF Junk, RegSet
<1>2. Routine(r) = [Passed(r) EXCEPT !.ft = ft]
  BY DEF Routine
<1> HIDE DEF ft
<1> QED BY <1>1, <1>2, PassedEffect DEF RegSet, SameFt

LEMMA ResultInEffect ==
  ASSUME NEW r \in RegSet, NEW ty \in Types, NEW v \in Nat
  PROVE  /\ ResultIn(r, ty, v) \in RegSet
         /\ ResultIn(r, ty, v).fs = r.fs /\ ResultIn(r, ty, v).ft = r.ft
         /\ Holds(ResultIn(r, ty, v), ty, v)
<1>1. r.a \in [A -> Int] /\ Lo(v) \in Int /\ Hi(v) \in Int
  BY DEF RegSet, Lo, Hi
<1>2. CASE ty = "int"
  BY <1>1, <1>2 DEF ResultIn, Holds, RegSet, A
<1>3. CASE ty = "double"
  BY <1>1, <1>3 DEF ResultIn, Holds, RegSet
<1>4. CASE ty = "ldouble"
  <2> DEFINE a == [r.a EXCEPT ![0] = Lo(v), ![1] = Hi(v)]
  <2>1. a \in [A -> Int] /\ a[0] = Lo(v) /\ a[1] = Hi(v)
    BY <1>1 DEF A
  <2>2. ResultIn(r, ty, v) = [r EXCEPT !.a = a]
    BY <1>1, <1>4 DEF ResultIn, RegSet
  <2> HIDE DEF a
  <2> QED BY <1>4, <2>1, <2>2 DEF Holds, RegSet
<1> QED BY <1>2, <1>3, <1>4 DEF Types

LEMMA TakeEffect ==
  ASSUME NEW r \in RegSet, NEW ty \in Types, Poppable(ty)
  PROVE  Take(r, ty) \in RegSet /\ Take(r, ty).fs = r.fs /\ Take(r, ty).ft = r.ft
  BY PopLdEffect DEF Take, Poppable

LEMMA TestedEffect ==
  ASSUME NEW r \in RegSet, NEW ty \in Types, Poppable(ty)
  PROVE  Tested(r, ty) \in RegSet /\ Tested(r, ty).fs = r.fs /\ SameFt(Tested(r, ty), r)
<1> DEFINE q == IF IsLd(ty) THEN Routine(Take(r, ty)) ELSE r
<1>1. q \in RegSet /\ q.fs = r.fs /\ SameFt(q, r)
  BY TakeEffect, RoutineEffect DEF SameFt
<1>2. Tested(r, ty) = [q EXCEPT !.a = [q.a EXCEPT ![0] = Junk]]
  BY <1>1 DEF Tested, RegSet
<1> HIDE DEF q
<1> QED BY <1>1, <1>2 DEF RegSet, SameFt, Junk, A

LEMMA CalledEffect ==
  ASSUME NEW r \in RegSet, NEW body \in {"leaf", "holds", "library"}, NEW lost \in BOOLEAN
  PROVE  /\ Called(body, r, lost) \in RegSet
         /\ body # "holds" => Called(body, r, lost).fs = r.fs
         /\ body = "leaf" => Called(body, r, lost).ft = r.fs
<1>1. r.fs \in [FS -> Int] /\ Junk \in Int
  BY DEF RegSet, Junk
<1>2. CASE body = "leaf"
  BY <1>1, <1>2 DEF Called, RegSet
<1>3. CASE body = "holds"
  <2> DEFINE fs == [r.fs EXCEPT ![0] = Junk, ![1] = Junk]
  <2>1. fs \in [FS -> Int] /\ Called(body, r, lost) = [r EXCEPT !.fs = fs, !.ft = fs]
    BY <1>1, <1>3 DEF Called
  <2> HIDE DEF fs
  <2> QED BY <1>3, <2>1 DEF RegSet
<1>4. CASE body = "library"
  BY <1>1, <1>4 DEF Called, RegSet
<1> QED BY <1>2, <1>3, <1>4

LEMMA LeaveEffect ==
  ASSUME regs \in RegSet, NEW r \in RegSet, NEW ty, NEW h \in Int, Leave(r, ty, h)
  PROVE  /\ regs' \in RegSet /\ status' \in {status, "rejected"}
         /\ SameFt(r, regs) => SameFt(regs', regs)
  BY PushLdEffect DEF Leave, Exec, SameFt

-----------------------------------------------------------------------------
(* The caller's registers *)

\* Until a call may have changed them, ft0-ft11 hold what the prologue put there.
Saved ==
  "unsaved" \notin shapes =>
    \A i \in FS \ RoutineFt : /\ regs.ft[i] = Callers(i)
                              /\ status = "done" => regs.fs[i] = Callers(i)

RInv == Typed /\ regs \in RegSet /\ mem \in Seq(Int) /\ Saved

\* What every step but a call and the epilogue does.
KeepsFt ==
  /\ regs' \in RegSet /\ mem' \in Seq(Int)
  /\ SameFt(regs', regs) /\ shapes \subseteq shapes' /\ status' # "done"

LEMMA ValueType ==
  ASSUME Typed, NEW right
  PROVE  Value(right) \in Nat /\ New \in Nat
  BY DEF Value, New, Junk, Typed

LEMMA LeafKeepsFt ==
  ASSUME RInv, NEW ty \in Types, Number(ty) \/ Variable(ty)
  PROVE  KeepsFt
<1>1. /\ regs \in RegSet /\ New \in Nat /\ ld_sp \in Int /\ mem' = mem /\ shapes' = shapes
      /\ status = "ok" /\ mem \in Seq(Int)
  BY ValueType DEF Number, Variable, Step, RInv, Typed
<1>2. CASE Number(ty)
  <2> DEFINE r == ResultIn(regs, ty, New)
             q == IF ty = "double" THEN [r EXCEPT !.a[0] = Lo(New)] ELSE r
  <2>1. r \in RegSet /\ r.ft = regs.ft
    BY <1>1, ResultInEffect
  <2>2. q \in RegSet /\ q.ft = regs.ft
    <3>1. Lo(New) \in Int
      BY <1>1 DEF Lo
    <3> HIDE DEF r
    <3>2. [r.a EXCEPT ![0] = Lo(New)] \in [A -> Int]
      BY <2>1, <3>1, SetWord
    <3> QED BY <2>1, <3>2 DEF RegSet
  <2>3. Leave(q, ty, ld_sp)
    BY <1>2 DEF Number
  <2> HIDE DEF q
  <2> QED BY <1>1, <2>2, <2>3, LeaveEffect DEF KeepsFt, SameFt
<1>3. CASE Variable(ty)
  <2> DEFINE r == [regs EXCEPT !.a[0] = Junk]
  <2>1. r \in RegSet /\ r.ft = regs.ft /\ r.fs = regs.fs
    <3>1. Junk \in Int
      BY DEF Junk
    <3>2. [regs.a EXCEPT ![0] = Junk] \in [A -> Int]
      BY <1>1, <3>1, SetWord
    <3> QED BY <1>1, <3>2 DEF RegSet
  <2>2. CASE IsLd(ty)
    <3> DEFINE fs == [r.fs EXCEPT ![ld_sp] = Lo(New), ![ld_sp + 1] = Hi(New)]
    <3>1. Lo(New) \in Int /\ Hi(New) \in Int
      BY <1>1 DEF Lo, Hi
    <3>2. fs \in [FS -> Int]
      BY <2>1, <3>1 DEF RegSet
    <3>3. regs' = regs \/ regs' = [r EXCEPT !.fs = fs]
      BY <1>3, <2>1, <2>2 DEF Variable, Exec, RegSet
    <3>4. status' # "done"
      BY <1>1, <1>3, <2>2 DEF Variable
    <3> HIDE DEF r, fs
    <3> QED BY <1>1, <2>1, <3>2, <3>3, <3>4 DEF RegSet, KeepsFt, SameFt
  <2>3. CASE ~IsLd(ty)
    <3>1. Leave(ResultIn(r, ty, New), ty, ld_sp)
      BY <1>3, <2>3 DEF Variable
    <3> HIDE DEF r
    <3>2. ResultIn(r, ty, New) \in RegSet /\ ResultIn(r, ty, New).ft = regs.ft
      BY <1>1, <2>1, ResultInEffect
    <3> QED BY <1>1, <3>1, <3>2, LeaveEffect DEF KeepsFt, SameFt
  <2> QED BY <2>2, <2>3
<1> QED BY <1>2, <1>3

LEMMA CastKeepsFt ==
  ASSUME RInv, NEW ty \in Types, Cast(ty)
  PROVE  KeepsFt
<1> DEFINE r == Take(regs, Top.ty)
           q == IF "ldouble" \in {ty, Top.ty} THEN Routine(r) ELSE r
           v == Value(Holds(r, Top.ty, Top.val))
<1>1. /\ regs \in RegSet /\ Top \in OperandSet /\ Poppable(Top.ty) /\ v \in Nat
      /\ Height(Top.ty) \in Int
  BY TopType, ValueType DEF Cast, Ready, RInv, Typed, Height
<1>2. q \in RegSet /\ SameFt(q, regs)
  BY <1>1, TakeEffect, RoutineEffect DEF OperandSet, SameFt
<1> HIDE DEF q
<1>3. ResultIn(q, ty, v) \in RegSet /\ SameFt(ResultIn(q, ty, v), regs)
  BY <1>1, <1>2, ResultInEffect DEF SameFt
<1>4. Leave(ResultIn(q, ty, v), ty, Height(Top.ty))
  BY DEF Cast, q
<1> QED BY <1>1, <1>3, <1>4, LeaveEffect DEF KeepsFt, SameFt, Cast, Step, RInv

LEMMA NegateKeepsFt ==
  ASSUME RInv, Negate
  PROVE  KeepsFt
<1>1. regs \in RegSet /\ Top \in OperandSet /\ status = "ok" /\ mem' = mem /\ mem \in Seq(Int)
  BY TopType DEF Negate, Ready, RInv, Step
<1>2. CASE IsLd(Top.ty)
  <2>1. [regs.a EXCEPT ![ld_sp + 1] = Junk] \in [A -> Int]
    BY <1>1, SetWord DEF Junk
  <2>2. regs' = regs \/ regs' = [regs EXCEPT !.a = [regs.a EXCEPT ![ld_sp + 1] = Junk]]
    BY <1>1, <1>2 DEF Negate, Exec, RegSet
  <2>3. status' # "done" /\ shapes \subseteq shapes'
    BY <1>1, <1>2 DEF Negate
  <2> QED BY <1>1, <2>1, <2>2, <2>3 DEF RegSet, KeepsFt, SameFt
<1>3. CASE ~IsLd(Top.ty)
  <2> DEFINE v == Value(Holds(regs, Top.ty, Top.val))
  <2>1. v \in Nat
    BY ValueType DEF RInv
  <2>2. regs' = regs \/ regs' = ResultIn(regs, Top.ty, v)
    BY <1>3 DEF Negate, Exec
  <2>3. status' # "done" /\ shapes \subseteq shapes'
    BY <1>1, <1>3 DEF Negate
  <2> HIDE DEF v
  <2> QED BY <1>1, <2>1, <2>2, <2>3, ResultInEffect DEF KeepsFt, SameFt, OperandSet
<1> QED BY <1>2, <1>3

LEMMA CastToBoolKeepsFt ==
  ASSUME RInv, CastToBool
  PROVE  KeepsFt
<1> DEFINE w == IF Holds(regs, "int", Top.val) THEN Lo(New) ELSE Junk
<1>1. regs \in RegSet /\ w \in Int
  BY ValueType DEF RInv, Lo, Junk
<1>2. regs' = regs \/ regs' = [regs EXCEPT !.a = [regs.a EXCEPT ![0] = w]]
  BY <1>1 DEF CastToBool, Exec, RegSet
<1>3. status' # "done" /\ shapes \subseteq shapes' /\ mem' = mem /\ mem \in Seq(Int)
  BY DEF CastToBool, Step, RInv
<1> HIDE DEF w
<1>4. [regs.a EXCEPT ![0] = w] \in [A -> Int]
  BY <1>1, SetWord
<1> QED BY <1>1, <1>2, <1>3, <1>4 DEF RegSet, KeepsFt, SameFt

LEMMA PushKeepsFt ==
  ASSUME RInv, Push
  PROVE  KeepsFt
<1>1. /\ regs \in RegSet /\ mem \in Seq(Int) /\ regs' = regs
      /\ status' # "done" /\ shapes \subseteq shapes'
  BY DEF Push, Step, RInv
<1>2. regs.a[0] \in Int /\ Lo(regs.fa0) \in Int
  BY <1>1 DEF RegSet, A, Lo
<1>3. mem' \in Seq(Int)
  BY <1>1, <1>2 DEF Push
<1> QED BY <1>1, <1>3 DEF KeepsFt, SameFt

LEMMA OperateKeepsFt ==
  ASSUME RInv, NEW ty \in Types, Operate(ty)
  PROVE  KeepsFt
<1>1. PICK v : v \in Nat /\ Exec(ResultIn(regs, ty, v))
  BY ValueType DEF Operate, RInv
<1>2. /\ regs \in RegSet /\ mem \in Seq(Int) /\ status' # "done" /\ shapes \subseteq shapes'
  BY DEF Operate, Step, RInv
<1>3. mem' \in Seq(Int)
  <2>1. /\ mem' = mem \/ mem' = Front(mem, 1)
    BY DEF Operate, Front
  <2>2. CASE mem = <<>>
    <3>1. Front(<<>>, 1) = <<>>
      <4>1. Len(<<>>) - 1 \in Int /\ Len(<<>>) - 1 < 1
        OBVIOUS
      <4> QED BY <4>1, SubSeqEmpty DEF Front
    <3> QED BY <1>2, <2>1, <2>2, <3>1
  <2>3. CASE mem # <<>>
    BY <1>2, <2>1, <2>3, EmptySeq, FrontOf
  <2> QED BY <2>2, <2>3
<1> QED BY <1>1, <1>2, <1>3, ResultInEffect DEF Exec, KeepsFt, SameFt

LEMMA OperateLdKeepsFt ==
  ASSUME RInv, NEW ty \in Types, OperateLd(ty)
  PROVE  KeepsFt
<1> DEFINE r == PopLd(PopLd(regs, ld_sp), ld_sp - 2)
<1>1. PICK v : v \in Nat /\ Leave(ResultIn(Routine(r), ty, v), ty, ld_sp - 4)
  BY ValueType DEF OperateLd, RInv
<1>2. /\ regs \in RegSet /\ mem \in Seq(Int) /\ mem' = mem /\ shapes \subseteq shapes'
      /\ Pops(ld_sp) /\ Pops(ld_sp - 2) /\ status = "ok" /\ ld_sp - 4 \in Int
  BY DEF OperateLd, Step, RInv, Typed
<1>3. r \in RegSet /\ r.ft = regs.ft
  BY <1>2, PopLdEffect
<1> HIDE DEF r
<1>4. ResultIn(Routine(r), ty, v) \in RegSet /\ SameFt(ResultIn(Routine(r), ty, v), regs)
  BY <1>1, <1>3, RoutineEffect, ResultInEffect DEF SameFt
<1> QED BY <1>1, <1>2, <1>4, LeaveEffect DEF KeepsFt, SameFt

LEMMA NotKeepsFt ==
  ASSUME RInv, Not
  PROVE  KeepsFt
<1>1. PICK v : v \in Nat /\ Leave(ResultIn(Tested(regs, Top.ty), "int", v), "int", Height(Top.ty))
  BY ValueType DEF Not, RInv
<1>2. /\ regs \in RegSet /\ mem \in Seq(Int) /\ mem' = mem /\ shapes \subseteq shapes'
      /\ Poppable(Top.ty) /\ status = "ok" /\ Top.ty \in Types /\ Height(Top.ty) \in Int
  BY TopType DEF Not, Step, Ready, RInv, Typed, OperandSet, Height
<1>3. /\ ResultIn(Tested(regs, Top.ty), "int", v) \in RegSet
      /\ SameFt(ResultIn(Tested(regs, Top.ty), "int", v), regs)
  <2> SUFFICES ASSUME NEW t, t = Tested(regs, Top.ty)
               PROVE  /\ ResultIn(t, "int", v) \in RegSet
                      /\ SameFt(ResultIn(t, "int", v), regs)
    OBVIOUS
  <2>1. "int" \in Types
    BY DEF Types
  <2>2. t \in RegSet /\ SameFt(t, regs)
    BY <1>2, TestedEffect
  <2>3. ResultIn(t, "int", v) \in RegSet /\ ResultIn(t, "int", v).ft = t.ft
    BY <1>1, <2>1, <2>2, ResultInEffect
  <2> QED BY <2>2, <2>3 DEF SameFt
<1> QED BY <1>1, <1>2, <1>3, LeaveEffect DEF KeepsFt, SameFt

\* The steps that leave the registers alone.
LEMMA PlainKeepsFt ==
  ASSUME RInv, Assign \/ Discard \/ Colon \/ EndConditional \/ PopFails
  PROVE  KeepsFt
<1>1. /\ UNCHANGED <<regs, mem>> /\ status = "ok" /\ shapes \subseteq shapes'
      /\ status' \in {"ok", "rejected"}
  BY DEF Assign, Discard, Colon, EndConditional, PopFails, Step
<1> QED BY <1>1 DEF KeepsFt, SameFt, RInv

LEMMA TestKeepsFt ==
  ASSUME RInv, Branch \/ (\E op \in {"?", "&&", "||"}, taken \in BOOLEAN : Open(op, taken))
  PROVE  KeepsFt
<1>1. /\ mem' = mem /\ status = "ok" /\ status' = "ok" /\ shapes \subseteq shapes' /\ Test(Top.ty)
      /\ Exec(Tested(regs, Top.ty))
  BY DEF Branch, Open, Step
<1>2. Top.ty \in Types /\ Poppable(Top.ty)
  BY <1>1, TopType DEF Test, Ready, RInv, OperandSet
<1> QED BY <1>1, <1>2, TestedEffect DEF Exec, KeepsFt, SameFt, RInv

LEMMA EndLogicalKeepsFt ==
  ASSUME RInv, EndLogical
  PROVE  KeepsFt
<1> DEFINE r == IF Live THEN Tested(regs, ComparedAs) ELSE regs
<1>1. /\ mem' = mem /\ status = "ok" /\ status' = "ok" /\ shapes \subseteq shapes'
      /\ Test(ComparedAs) /\ arms # <<>>
      /\ regs' = IF Arm.live \/ Arm.other THEN ResultIn(r, "int", New) ELSE r
  BY DEF EndLogical, Step
<1>2. ComparedAs \in Types /\ Poppable(ComparedAs) /\ New \in Nat /\ "int" \in Types
  <2>1. Top.ty \in Types
    BY <1>1, TopType DEF Test, Ready, RInv, OperandSet
  <2>2. Arm.ty \in Types
    BY <1>1, ArmType DEF RInv, Typed, ArmSet
  <2>3. New \in Nat /\ "int" \in Types
    BY ValueType DEF RInv, Types
  <2> QED BY <1>1, <2>1, <2>2, <2>3 DEF Test, ComparedAs
<1>3. r \in RegSet /\ SameFt(r, regs)
  BY <1>2, TestedEffect DEF RInv, SameFt
<1> HIDE DEF r
<1> QED BY <1>1, <1>2, <1>3, ResultInEffect DEF KeepsFt, SameFt, RInv

\* A call may use ft0-ft11 for the same purpose.
LEMMA CallSaves ==
  ASSUME RInv, NEW f \in Callees, NEW lost \in BOOLEAN, Call(f, lost)
  PROVE  /\ regs' \in RegSet /\ mem' \in Seq(Int) /\ Saved'
<1> DEFINE c == Called(f.body, regs, lost)
           q == ResultIn(Passed(c), f.result, New)
           h == IF IsLd(f.param) THEN ld_sp - 2 ELSE ld_sp
<1>1. /\ Leave(q, f.result, h) /\ h \in Int /\ status = "ok" /\ regs \in RegSet /\ New \in Nat
      /\ mem' = mem /\ mem \in Seq(Int)
      /\ shapes \subseteq shapes' /\ CallShapes(f.body, h) \subseteq shapes'
  BY ValueType DEF Call, Step, RInv, Typed
<1>2. f.body \in {"leaf", "holds", "library"} /\ f.result \in Types
  BY CalleesAssumption
<1>3. q \in RegSet /\ (f.body = "leaf" => q.ft = regs.fs)
  <2>1. c \in RegSet /\ (f.body = "leaf" => c.ft = regs.fs)
    BY <1>1, <1>2, CalledEffect
  <2> HIDE DEF c
  <2>2. Passed(c) \in RegSet /\ Passed(c).ft = c.ft
    BY <2>1, PassedEffect
  <2>3. q \in RegSet /\ q.ft = Passed(c).ft
    BY <1>1, <1>2, <2>2, ResultInEffect
  <2> QED BY <2>1, <2>2, <2>3
<1>4. regs' \in RegSet /\ status' \in {"ok", "rejected"}
  BY <1>1, <1>3, LeaveEffect
<1>5. ASSUME "unsaved" \notin shapes', NEW i \in FS \ RoutineFt PROVE regs'.ft[i] = Callers(i)
  <2>1. f.body = "leaf" /\ regs.fs = Untouched /\ "unsaved" \notin shapes
    BY <1>1, <1>5 DEF CallShapes, Untouched
  <2>2. SameFt(q, regs)
    BY <1>3, <2>1 DEF RInv, Saved, SameFt, Untouched
  <2> QED BY <1>1, <1>3, <2>1, <2>2, LeaveEffect DEF RInv, Saved, SameFt
<1> QED BY <1>1, <1>4, <1>5 DEF Saved

LEMMA EpilogueSaves ==
  ASSUME RInv, Return \/ EndOfBody
  PROVE  /\ regs' \in RegSet /\ mem' \in Seq(Int) /\ Saved'
<1>1. /\ regs \in RegSet /\ mem' = mem /\ mem \in Seq(Int) /\ shapes \subseteq shapes' /\ Saved
      /\ \E h : Epilogue(h)
  BY DEF Return, EndOfBody, RInv
<1>2. \/ status' = "done" /\ regs' = [regs EXCEPT !.fs = regs.ft]
      \/ status' = "asserted" /\ regs' = regs
  BY <1>1 DEF Epilogue
<1> QED BY <1>1, <1>2 DEF RegSet, Saved

LEMMA InitRInv == Init => RInv
<1> SUFFICES ASSUME Init PROVE RInv
  OBVIOUS
<1>1. Typed
  BY InitInv DEF IInv
<1>2. regs = [a |-> [i \in A |-> Junk], fa0 |-> Junk, fs |-> Untouched, ft |-> Untouched]
  BY DEF Init, Untouched
<1>3. regs \in RegSet
  BY <1>2 DEF RegSet, Junk, Untouched, Callers, FS
<1> QED BY <1>1, <1>2, <1>3 DEF Init, RInv, Saved, Untouched

LEMMA NextRInv == RInv /\ IInv /\ [Next]_vars => RInv'
<1> SUFFICES ASSUME RInv, IInv, [Next]_vars PROVE RInv'
  OBVIOUS
<1>1. Typed'
  BY NextInv DEF IInv
<1>2. CASE KeepsFt
  BY <1>1, <1>2 DEF KeepsFt, SameFt, RInv, Saved
<1>3. CASE UNCHANGED vars
  BY <1>1, <1>3 DEF vars, RInv, Saved
<1>4. CASE \E ty \in Types : Number(ty) \/ Variable(ty) \/ Cast(ty) \/ Operate(ty) \/ OperateLd(ty)
  BY <1>2, <1>4, LeafKeepsFt, CastKeepsFt, OperateKeepsFt, OperateLdKeepsFt
<1>5. CASE Negate \/ CastToBool \/ Push \/ Assign \/ Discard \/ Not
  BY <1>2, <1>5, NegateKeepsFt, CastToBoolKeepsFt, PushKeepsFt, PlainKeepsFt, NotKeepsFt
<1>6. CASE \E f \in Callees, lost \in BOOLEAN : (lost => f.body = "library") /\ Call(f, lost)
  BY <1>1, <1>6, CallSaves DEF RInv
<1>7. CASE Branch \/ Colon \/ EndConditional \/ EndLogical
  BY <1>2, <1>7, TestKeepsFt, PlainKeepsFt, EndLogicalKeepsFt
<1>8. CASE \E op \in {"?", "&&", "||"}, taken \in BOOLEAN : Open(op, taken)
  BY <1>2, <1>8, TestKeepsFt
<1>9. CASE Return \/ EndOfBody \/ PopFails
  BY <1>1, <1>2, <1>9, EpilogueSaves, PlainKeepsFt DEF RInv
<1> QED BY <1>3, <1>4, <1>5, <1>6, <1>7, <1>8, <1>9 DEF Next

\* A function that returns has put back its caller's fs0-fs11, if no function it
\* called has used ft0-ft11, and but for those where libgcc's routines do.
THEOREM FloatCallersRegistersKept == Spec => []CallersRegistersKept
<1>1. RInv => CallersRegistersKept
  BY DEF RInv, Saved, CallersRegistersKept
<1>2. Init => RInv /\ IInv
  BY InitInv, InitRInv
<1>3. (RInv /\ IInv) /\ [Next]_vars => (RInv /\ IInv)'
  BY NextInv, NextRInv
<1> QED BY <1>1, <1>2, <1>3, PTL DEF Spec


-----------------------------------------------------------------------------
(* Where the operands below the top are *)

\* The long doubles below the i-th operand.
Depth(s, i) == Count(SubSeq(s, 1, i - 1))

\* The i-th operand was computed by code that runs: the arms that were opened
\* before it are taken.
Reached(ar, i) == \A j \in 1 .. Len(ar) : ar[j].base < i => ar[j].live

Placed(r, o, d) == r.fs[2 * d] = Lo(o.val) /\ r.fs[2 * d + 1] = Hi(o.val)

OnMemory(s, ar) == {i \in 1 .. Len(s) : s[i].at = "memory" /\ Reached(ar, i)}
Order(S, i) == Cardinality(S \cap (1 .. i))

InMemory(s, ar, m) ==
  /\ Len(m) = Cardinality(OnMemory(s, ar))
  /\ \A i \in OnMemory(s, ar) : m[Order(OnMemory(s, ar), i)] = Lo(s[i].val)

Right(s, ar, r, m) ==
  /\ \A i \in 1 .. Len(s) : OnStack(s[i]) /\ Reached(ar, i) => Placed(r, s[i], Depth(s, i))
  /\ InMemory(s, ar, m)
  /\ \A i \in 1 .. Len(s) : s[i].at = "nowhere" => IsLd(s[i].ty)

LEMMA SamePrefix ==
  ASSUME NEW s \in Seq(OperandSet), NEW t \in Seq(OperandSet), NEW k \in Nat,
         k <= Len(s), k <= Len(t), \A i \in 1 .. k : s[i] = t[i]
  PROVE  SubSeq(s, 1, k) = SubSeq(t, 1, k) /\ SubSeq(s, 1, k) \in Seq(OperandSet)
         /\ Len(SubSeq(s, 1, k)) = k /\ \A i \in 1 .. k : SubSeq(s, 1, k)[i] = s[i]
<1>1. /\ Front(s, Len(s) - k) = SubSeq(s, 1, k) /\ Front(t, Len(t) - k) = SubSeq(t, 1, k)
      /\ Len(s) - k \in Nat /\ Len(t) - k \in Nat
  BY DEF Front
<1>2. /\ SubSeq(s, 1, k) \in Seq(OperandSet) /\ Len(SubSeq(s, 1, k)) = k
      /\ \A i \in 1 .. k : SubSeq(s, 1, k)[i] = s[i]
  <2>1. Len(s) - k <= Len(s) /\ Len(s) - (Len(s) - k) = k
    OBVIOUS
  <2> QED BY <1>1, <2>1, FrontOf
<1>3. /\ SubSeq(t, 1, k) \in Seq(OperandSet) /\ Len(SubSeq(t, 1, k)) = k
      /\ \A i \in 1 .. k : SubSeq(t, 1, k)[i] = t[i]
  <2>1. Len(t) - k <= Len(t) /\ Len(t) - (Len(t) - k) = k
    OBVIOUS
  <2> QED BY <1>1, <2>1, FrontOf
<1> QED BY <1>2, <1>3, SeqEqual

LEMMA DepthSame ==
  ASSUME NEW s \in Seq(OperandSet), NEW t \in Seq(OperandSet), NEW k \in Nat,
         k <= Len(s), k <= Len(t), \A i \in 1 .. k : s[i] = t[i],
         NEW n \in 1 .. k + 1
  PROVE  Depth(s, n) = Depth(t, n)
<1>1. /\ n - 1 \in Nat /\ n - 1 <= Len(s) /\ n - 1 <= Len(t)
      /\ \A i \in 1 .. n - 1 : s[i] = t[i]
  OBVIOUS
<1>2. SubSeq(s, 1, n - 1) = SubSeq(t, 1, n - 1)
  BY <1>1, SamePrefix
<1> QED BY <1>2 DEF Depth

LEMMA DepthOfNew ==
  ASSUME NEW s \in Seq(OperandSet), NEW o \in OperandSet
  PROVE  Depth(Append(s, o), Len(s) + 1) = Count(s)
<1>1. /\ Append(s, o) \in Seq(OperandSet) /\ Len(s) \in Nat /\ Len(s) <= Len(Append(s, o))
      /\ \A i \in 1 .. Len(s) : s[i] = Append(s, o)[i]
  OBVIOUS
<1>2. SubSeq(s, 1, Len(s)) = SubSeq(Append(s, o), 1, Len(s))
  BY <1>1, SamePrefix
<1>3. SubSeq(s, 1, Len(s)) = s /\ (Len(s) + 1) - 1 = Len(s)
  BY SubSeqFull
<1>4. Count(SubSeq(Append(s, o), 1, (Len(s) + 1) - 1)) = Count(s)
  BY <1>2, <1>3
<1> QED BY <1>4 DEF Depth

LEMMA DepthKept ==
  ASSUME NEW s \in Seq(OperandSet), NEW o \in OperandSet, NEW i \in 1 .. Len(s)
  PROVE  Depth(Append(s, o), i) = Depth(s, i) /\ Append(s, o)[i] = s[i]
<1> DEFINE t == Append(s, o)
<1>1. /\ t \in Seq(OperandSet) /\ Len(s) \in Nat /\ Len(s) <= Len(s) /\ Len(s) <= Len(t)
      /\ i \in 1 .. Len(s) + 1
  OBVIOUS
<1>2. \A k \in 1 .. Len(s) : t[k] = s[k]
  OBVIOUS
<1> HIDE DEF t
<1>3. Depth(t, i) = Depth(s, i)
  BY <1>1, <1>2, DepthSame
<1> QED BY <1>2, <1>3 DEF t

LEMMA DepthOfTop ==
  ASSUME NEW s \in Seq(OperandSet), Len(s) >= 1
  PROVE  Depth(s, Len(s)) = Count(Front(s, 1))
  BY DEF Depth, Front

LEMMA DepthBelow ==
  ASSUME NEW s \in Seq(OperandSet), NEW i \in 1 .. Len(s), OnStack(s[i])
  PROVE  Depth(s, i) \in Nat /\ Depth(s, i) + 1 <= Count(s)
<1> DEFINE t == SubSeq(s, 1, i - 1)
<1>1. t \in Seq(OperandSet) /\ Len(t) = i - 1 /\ \A k \in 1 .. i - 1 : t[k] = s[k]
  <2>1. i - 1 \in Nat /\ i - 1 <= Len(s)
    OBVIOUS
  <2> QED BY <2>1, SamePrefix
<1> HIDE DEF t
<1>2. Holding(t) \in SUBSET (Holding(s) \ {i}) /\ i \in Holding(s)
  BY <1>1 DEF Holding
<1>3. IsFiniteSet(Holding(s)) /\ Count(s) \in Nat /\ Count(t) \in Nat
  BY <1>1, CountType
<1>4. IsFiniteSet(Holding(s) \ {i}) /\ Cardinality(Holding(s) \ {i}) = Count(s) - 1
  BY <1>2, <1>3, FS_RemoveElement DEF Count
<1>5. Count(t) <= Count(s) - 1
  BY <1>2, <1>4, FS_Subset DEF Count
<1> QED BY <1>3, <1>5 DEF Depth, t

\* The second-highest of two long doubles.
LEMMA DepthOfBelow ==
  ASSUME NEW s \in Seq(OperandSet), Len(s) >= 2, OnStack(s[Len(s) - 1])
  PROVE  /\ Depth(s, Len(s) - 1) = Count(Front(s, 2))
         /\ Depth(s, Len(s)) = Count(Front(s, 2)) + 1
<1> DEFINE t == Front(s, 1)
<1>1. t \in Seq(OperandSet) /\ Len(t) = Len(s) - 1 /\ t[Len(t)] = s[Len(s) - 1]
  <2>1. 1 \in Nat /\ 1 <= Len(s)
    OBVIOUS
  <2>2. t \in Seq(OperandSet) /\ Len(t) = Len(s) - 1 /\ \A i \in 1 .. Len(s) - 1 : t[i] = s[i]
    BY <2>1, FrontOf
  <2> QED BY <2>2
<1>2. Count(t) = Count(Front(t, 1)) + 1 /\ Front(t, 1) \in Seq(OperandSet)
  <2>1. Weight(t[Len(t)]) = 1
    BY <1>1 DEF Weight
  <2> QED BY <1>1, <2>1, CountFront
<1>3. Front(t, 1) = Front(s, 2)
  <2>1. /\ Len(Front(t, 1)) = Len(s) - 2 /\ \A i \in 1 .. Len(s) - 2 : Front(t, 1)[i] = t[i]
    <3>1. 1 \in Nat /\ 1 <= Len(t)
      BY <1>1
    <3> QED BY <1>1, <3>1, FrontOf
  <2>2. /\ Front(s, 2) \in Seq(OperandSet) /\ Len(Front(s, 2)) = Len(s) - 2
        /\ \A i \in 1 .. Len(s) - 2 : Front(s, 2)[i] = s[i]
    <3>1. 2 \in Nat /\ 2 <= Len(s)
      OBVIOUS
    <3> QED BY <3>1, FrontOf
  <2>3. \A i \in 1 .. Len(s) - 1 : t[i] = s[i]
    <3>1. 1 \in Nat /\ 1 <= Len(s)
      OBVIOUS
    <3> QED BY <3>1, FrontOf
  <2>4. \A i \in 1 .. Len(s) - 2 : Front(t, 1)[i] = Front(s, 2)[i]
    BY <2>1, <2>2, <2>3
  <2> QED BY <1>2, <2>1, <2>2, <2>4, SeqEqual
<1>4. Depth(s, Len(s) - 1) = Count(Front(s, 2))
  BY DEF Depth, Front
<1>5. Depth(s, Len(s)) = Count(t)
  BY DepthOfTop
<1> QED BY <1>2, <1>3, <1>4, <1>5

LEMMA OnMemoryType ==
  ASSUME NEW s \in Seq(OperandSet), NEW ar
  PROVE  /\ IsFiniteSet(OnMemory(s, ar)) /\ Cardinality(OnMemory(s, ar)) \in Nat
         /\ OnMemory(s, ar) \cap (1 .. Len(s)) = OnMemory(s, ar)
<1>1. IsFiniteSet(1 .. Len(s))
  <2>1. 1 \in Int /\ Len(s) \in Int
    OBVIOUS
  <2> QED BY <2>1, FS_Interval
<1>2. OnMemory(s, ar) \subseteq 1 .. Len(s)
  BY DEF OnMemory
<1> QED BY <1>1, <1>2, FS_Subset, FS_CardinalityType

\* Values that are right stay so when operands that are not in memory go, ...
LEMMA RightFront ==
  ASSUME NEW s \in Seq(OperandSet), NEW ar, NEW r, NEW m, Right(s, ar, r, m),
         NEW n \in Nat, n <= Len(s),
         \A i \in Len(s) - n + 1 .. Len(s) : s[i].at # "memory"
  PROVE  Right(Front(s, n), ar, r, m)
<1> DEFINE t == Front(s, n)
           k == Len(s) - n
<1>1. /\ t \in Seq(OperandSet) /\ Len(t) = k
      /\ \A i \in 1 .. k : t[i] = s[i]
  BY FrontOf
<1>0. k \in Nat /\ Len(s) \in Nat /\ 1 .. k \subseteq 1 .. Len(s)
      /\ \A i \in 1 .. Len(s) : i \in 1 .. k \/ s[i].at # "memory"
  OBVIOUS
<1> HIDE DEF t, k
<1>2. OnMemory(t, ar) = OnMemory(s, ar)
  <2>1. \A i : i \in OnMemory(t, ar) <=> i \in 1 .. k /\ t[i].at = "memory" /\ Reached(ar, i)
    BY <1>1 DEF OnMemory
  <2>2. \A i : i \in OnMemory(s, ar) <=> i \in 1 .. Len(s) /\ s[i].at = "memory" /\ Reached(ar, i)
    BY DEF OnMemory
  <2> QED BY <1>0, <1>1, <2>1, <2>2
<1>3. \A i \in OnMemory(t, ar) : t[i] = s[i]
  BY <1>1 DEF OnMemory
<1>4. InMemory(t, ar, m)
  BY <1>2, <1>3 DEF Right, InMemory
<1>5. ASSUME NEW i \in 1 .. Len(t), OnStack(t[i]), Reached(ar, i)
      PROVE  Placed(r, t[i], Depth(t, i))
  <2>1. i \in 1 .. Len(s) /\ t[i] = s[i] /\ i \in 1 .. k + 1 /\ k <= Len(s) /\ k <= Len(t)
    BY <1>0, <1>1, <1>5 DEF k
  <2>2. Depth(t, i) = Depth(s, i)
    BY <1>0, <1>1, <2>1, DepthSame
  <2> QED BY <1>5, <2>1, <2>2 DEF Right
<1>6. \A i \in 1 .. Len(t) : t[i].at = "nowhere" => IsLd(t[i].ty)
  BY <1>0, <1>1 DEF Right
<1> QED BY <1>4, <1>5, <1>6 DEF Right, t

\* ... when arms change that were opened later, ...
LEMMA RightArms ==
  ASSUME NEW s \in Seq(OperandSet), NEW ar, NEW br, NEW r, NEW m, Right(s, ar, r, m),
         \A i \in 1 .. Len(s) : Reached(ar, i) <=> Reached(br, i)
  PROVE  Right(s, br, r, m)
<1>1. OnMemory(s, ar) = OnMemory(s, br)
  BY DEF OnMemory
<1> QED BY <1>1 DEF Right, InMemory

LEMMA WordsOfDepth ==
  ASSUME NEW d \in Nat, NEW c \in Nat, d + 1 <= c, c <= 6
  PROVE  2 * d \in FS /\ 2 * d + 1 \in FS /\ 2 * d < 2 * c /\ 2 * d + 1 < 2 * c
  BY DEF FS

\* ... when registers change that are above them, ...
LEMMA RightRegs ==
  ASSUME NEW s \in Seq(OperandSet), NEW ar, NEW r, NEW q, NEW m, Right(s, ar, r, m),
         Count(s) <= 6, \A i \in FS : i < 2 * Count(s) => q.fs[i] = r.fs[i]
  PROVE  Right(s, ar, q, m)
<1>1. ASSUME NEW i \in 1 .. Len(s), OnStack(s[i]), Reached(ar, i)
      PROVE  Placed(q, s[i], Depth(s, i))
  <2>1. Depth(s, i) \in Nat /\ Depth(s, i) + 1 <= Count(s) /\ Count(s) \in Nat
    BY <1>1, DepthBelow, CountType
  <2>2. /\ 2 * Depth(s, i) \in FS /\ 2 * Depth(s, i) + 1 \in FS
        /\ 2 * Depth(s, i) < 2 * Count(s) /\ 2 * Depth(s, i) + 1 < 2 * Count(s)
    BY <2>1, WordsOfDepth
  <2> QED BY <1>1, <2>2 DEF Right, Placed
<1> QED BY <1>1 DEF Right

\* ... and with one more operand that is right.
LEMMA RightAppend ==
  ASSUME NEW s \in Seq(OperandSet), NEW ar, NEW r, NEW m, Right(s, ar, r, m),
         NEW o \in OperandSet, o.at # "memory", o.at = "nowhere" => IsLd(o.ty),
         OnStack(o) /\ Reached(ar, Len(s) + 1) => Placed(r, o, Count(s))
  PROVE  Right(Append(s, o), ar, r, m)
<1> DEFINE t == Append(s, o)
           n == Len(s) + 1
<1>1. /\ t \in Seq(OperandSet) /\ Len(t) = n /\ t[n] = o /\ Len(s) \in Nat
      /\ \A i \in 1 .. Len(s) : t[i] = s[i]
  OBVIOUS
<1>2. Depth(t, n) = Count(s)
  BY DepthOfNew
<1> HIDE DEF t
<1>3. OnMemory(t, ar) = OnMemory(s, ar) /\ \A i \in OnMemory(s, ar) : t[i] = s[i]
  <2>1. \A i : i \in OnMemory(t, ar) <=> i \in 1 .. n /\ t[i].at = "memory" /\ Reached(ar, i)
    BY <1>1 DEF OnMemory
  <2>2. \A i : i \in OnMemory(s, ar) <=> i \in 1 .. Len(s) /\ s[i].at = "memory" /\ Reached(ar, i)
    BY DEF OnMemory
  <2>3. \A i : i \in 1 .. n <=> i \in 1 .. Len(s) \/ i = n
    BY <1>1
  <2> QED BY <1>1, <2>1, <2>2, <2>3
<1>4. InMemory(t, ar, m)
  BY <1>3 DEF Right, InMemory
<1>5. ASSUME NEW i \in 1 .. Len(t), OnStack(t[i]), Reached(ar, i)
      PROVE  Placed(r, t[i], Depth(t, i))
  <2>1. CASE i = n
    BY <1>1, <1>2, <1>5, <2>1
  <2>2. CASE i \in 1 .. Len(s)
    <3>1. Depth(t, i) = Depth(s, i) /\ t[i] = s[i]
      BY <2>2, DepthKept DEF t
    <3> QED BY <1>5, <2>2, <3>1 DEF Right
  <2> QED BY <1>1, <2>1, <2>2
<1>6. \A i \in 1 .. Len(t) : t[i].at = "nowhere" => IsLd(t[i].ty)
  BY <1>1 DEF Right
<1> QED BY <1>4, <1>5, <1>6 DEF Right, t

\* One more operand in memory is the last in order.
LEMMA OrderAppend ==
  ASSUME NEW S, IsFiniteSet(S), NEW n \in Nat \ {0}, S \subseteq 1 .. n - 1
  PROVE  /\ Cardinality(S \cup {n}) = Cardinality(S) + 1 /\ Cardinality(S) \in Nat
         /\ Order(S \cup {n}, n) = Cardinality(S) + 1
         /\ \A i \in S : Order(S \cup {n}, i) = Order(S, i) /\ Order(S, i) \in 1 .. Cardinality(S)
<1>1. /\ Cardinality(S \cup {n}) = Cardinality(S) + 1 /\ Cardinality(S) \in Nat
  <2>1. n \notin S
    OBVIOUS
  <2> QED BY <2>1, FS_AddElement, FS_CardinalityType
<1>2. (S \cup {n}) \cap (1 .. n) = S \cup {n}
  <2>1. S \cup {n} \subseteq 1 .. n
    OBVIOUS
  <2> QED BY <2>1
<1>4. \A i \in S : (S \cup {n}) \cap (1 .. i) = S \cap (1 .. i)
  OBVIOUS
<1>5. ASSUME NEW i \in S PROVE Order(S, i) \in 1 .. Cardinality(S)
  <2>1. S \cap (1 .. i) \in SUBSET S /\ i \in S \cap (1 .. i)
    OBVIOUS
  <2>2. /\ IsFiniteSet(S \cap (1 .. i)) /\ Order(S, i) <= Cardinality(S) /\ Order(S, i) \in Nat
        /\ Order(S, i) # 0
    BY <2>1, FS_Subset, FS_EmptySet, FS_CardinalityType DEF Order
  <2> QED BY <1>1, <2>2
<1> QED BY <1>1, <1>2, <1>4, <1>5 DEF Order

LEMMA InMemoryPush ==
  ASSUME NEW s \in Seq(OperandSet), NEW ar, NEW m \in Seq(Int), InMemory(s, ar, m),
         NEW o \in OperandSet, o.at = "memory", NEW w \in Int,
         Reached(ar, Len(s) + 1) => w = Lo(o.val)
  PROVE  InMemory(Append(s, o), ar, IF Reached(ar, Len(s) + 1) THEN Append(m, w) ELSE m)
<1> DEFINE t == Append(s, o)
           n == Len(s) + 1
           S == OnMemory(s, ar)
<1>1. /\ t \in Seq(OperandSet) /\ Len(t) = n /\ t[n] = o /\ n \in Nat \ {0}
      /\ \A i \in 1 .. Len(s) : t[i] = s[i]
  OBVIOUS
<1>0. /\ 1 .. Len(s) = 1 .. n - 1 /\ \A i : i \in 1 .. n <=> i \in 1 .. Len(s) \/ i = n
      /\ n \notin 1 .. Len(s)
  OBVIOUS
<1> HIDE DEF t, n
<1>2. IsFiniteSet(S) /\ S \subseteq 1 .. Len(s)
  BY OnMemoryType DEF OnMemory
<1>5. \A i : i \in OnMemory(t, ar) <=> i \in 1 .. n /\ t[i].at = "memory" /\ Reached(ar, i)
  BY <1>1 DEF OnMemory
<1>6. \A i : i \in S <=> i \in 1 .. Len(s) /\ s[i].at = "memory" /\ Reached(ar, i)
  BY DEF OnMemory
<1>3. CASE ~Reached(ar, n)
  <2>1. OnMemory(t, ar) = S /\ \A i \in S : t[i] = s[i]
    BY <1>0, <1>1, <1>3, <1>5, <1>6
  <2> QED BY <1>3, <2>1 DEF InMemory, t, n
<1>4. CASE Reached(ar, n)
  <2>1. OnMemory(t, ar) = S \cup {n} /\ \A i \in S : t[i] = s[i]
    BY <1>0, <1>1, <1>4, <1>5, <1>6
  <2>2. /\ Cardinality(S \cup {n}) = Cardinality(S) + 1 /\ Cardinality(S) \in Nat
        /\ Order(S \cup {n}, n) = Cardinality(S) + 1
        /\ \A i \in S : Order(S \cup {n}, i) = Order(S, i) /\ Order(S, i) \in 1 .. Cardinality(S)
    BY <1>0, <1>1, <1>2, OrderAppend
  <2>3. Len(m) = Cardinality(S) /\ \A i \in S : m[Order(S, i)] = Lo(s[i].val)
    BY DEF InMemory
  <2> HIDE DEF S
  <2>4. Append(m, w)[Cardinality(S) + 1] = Lo(o.val) /\ Len(Append(m, w)) = Cardinality(S) + 1
        /\ \A k \in 1 .. Cardinality(S) : Append(m, w)[k] = m[k]
    <3>1. /\ Len(Append(m, w)) = Len(m) + 1 /\ Append(m, w)[Len(m) + 1] = w
          /\ \A k \in 1 .. Len(m) : Append(m, w)[k] = m[k]
      OBVIOUS
    <3> QED BY <1>4, <2>3, <3>1 DEF n
  <2>5. ASSUME NEW i \in S \cup {n} PROVE Append(m, w)[Order(S \cup {n}, i)] = Lo(t[i].val)
    BY <1>1, <2>1, <2>2, <2>3, <2>4
  <2>6. InMemory(t, ar, Append(m, w))
    BY <2>1, <2>2, <2>4, <2>5 DEF InMemory
  <2> QED BY <1>4, <2>6 DEF t, n
<1> QED BY <1>3, <1>4

\* Pushing an operand onto the memory stack.
LEMMA RightPush ==
  ASSUME NEW s \in Seq(OperandSet), NEW ar, NEW r, NEW m \in Seq(Int), Right(s, ar, r, m),
         NEW o \in OperandSet, o.at = "memory", NEW w \in Int,
         Reached(ar, Len(s) + 1) => w = Lo(o.val)
  PROVE  Right(Append(s, o), ar, r, IF Reached(ar, Len(s) + 1) THEN Append(m, w) ELSE m)
<1> DEFINE t == Append(s, o)
           n == Len(s) + 1
<1>1. /\ t \in Seq(OperandSet) /\ Len(t) = n /\ t[n] = o /\ Len(s) \in Nat
      /\ \A i \in 1 .. Len(s) : t[i] = s[i]
  OBVIOUS
<1>2. InMemory(t, ar, IF Reached(ar, n) THEN Append(m, w) ELSE m)
  BY InMemoryPush DEF Right
<1> HIDE DEF t
<1>3. ASSUME NEW i \in 1 .. Len(t), OnStack(t[i]), Reached(ar, i)
      PROVE  Placed(r, t[i], Depth(t, i))
  <2>1. i \in 1 .. Len(s)
    BY <1>1, <1>3 DEF OnStack
  <2>2. Depth(t, i) = Depth(s, i) /\ t[i] = s[i]
    BY <2>1, DepthKept DEF t
  <2> QED BY <1>3, <2>1, <2>2 DEF Right
<1>4. \A i \in 1 .. Len(t) : t[i].at = "nowhere" => IsLd(t[i].ty)
  BY <1>1 DEF Right
<1> QED BY <1>2, <1>3, <1>4 DEF Right, t

\* Popping it, from below an operand that is not there.
LEMMA RightPop ==
  ASSUME NEW s \in Seq(OperandSet), NEW ar, NEW r, NEW m \in Seq(Int), Right(s, ar, r, m),
         Len(s) >= 2, s[Len(s)].at # "memory", s[Len(s) - 1].at = "memory"
  PROVE  /\ Right(Front(s, 2), ar, r, IF Reached(ar, Len(s) - 1) THEN Front(m, 1) ELSE m)
         /\ Reached(ar, Len(s) - 1) => m[Len(m)] = Lo(s[Len(s) - 1].val)
<1> DEFINE t == Front(s, 2)
           n == Len(s) - 1
           S == OnMemory(s, ar)
           T == OnMemory(t, ar)
<1>0. /\ n \in Nat \ {0} /\ 1 .. Len(s) - 2 = 1 .. n - 1 /\ n \in 1 .. Len(s) /\ n \notin 1 .. n - 1
      /\ \A i : i \in 1 .. Len(s) <=> i \in 1 .. n - 1 \/ i = n \/ i = Len(s)
      /\ 2 \in Nat /\ 2 <= Len(s) /\ s[n].at = "memory" /\ s[Len(s)].at # "memory"
  OBVIOUS
<1>1. /\ t \in Seq(OperandSet) /\ Len(t) = Len(s) - 2
      /\ \A i \in 1 .. Len(s) - 2 : t[i] = s[i]
  BY <1>0, FrontOf
<1> HIDE DEF t
<1>2. IsFiniteSet(T) /\ T \subseteq 1 .. n - 1 /\ \A i \in T : t[i] = s[i]
  <2>1. T \subseteq 1 .. Len(t)
    BY DEF OnMemory
  <2> QED BY <1>0, <1>1, <2>1, OnMemoryType
<1>8. \A i : i \in T <=> i \in 1 .. n - 1 /\ t[i].at = "memory" /\ Reached(ar, i)
  BY <1>0, <1>1 DEF OnMemory
<1>9. \A i : i \in S <=> i \in 1 .. Len(s) /\ s[i].at = "memory" /\ Reached(ar, i)
  BY DEF OnMemory
<1>3. Len(m) = Cardinality(S) /\ \A i \in S : m[Order(S, i)] = Lo(s[i].val)
  BY DEF Right, InMemory
<1>4. ASSUME NEW i \in 1 .. Len(t), OnStack(t[i]), Reached(ar, i)
      PROVE  Placed(r, t[i], Depth(t, i))
  <2>1. i \in 1 .. Len(s) /\ t[i] = s[i]
    BY <1>0, <1>1, <1>4
  <2>2. Depth(t, i) = Depth(s, i)
    <3>1. i \in 1 .. Len(t) + 1 /\ Len(t) <= Len(s) /\ Len(t) <= Len(t) /\ Len(t) \in Nat
          /\ \A k \in 1 .. Len(t) : t[k] = s[k]
      BY <1>1
    <3> QED BY <1>1, <3>1, DepthSame
  <2> QED BY <1>4, <2>1, <2>2 DEF Right
<1>5. \A i \in 1 .. Len(t) : t[i].at = "nowhere" => IsLd(t[i].ty)
  BY <1>1 DEF Right
<1>11. \A i \in 1 .. n - 1 : t[i] = s[i]
  BY <1>0, <1>1
<1>12. \A i : i \in S <=> (i = n /\ Reached(ar, n)) \/ i \in T
  <2>1. \A i : i \in 1 .. Len(s) /\ s[i].at = "memory" <=> i = n \/ (i \in 1 .. n - 1 /\ s[i].at = "memory")
    BY <1>0
  <2> HIDE DEF n, S, T
  <2> QED BY <1>8, <1>9, <1>11, <2>1
<1>10. Reached(ar, Len(s) - 1) = Reached(ar, n) /\ s[Len(s) - 1] = s[n]
  OBVIOUS
<1> HIDE DEF n, S, T
<1>6. CASE ~Reached(ar, n)
  <2>1. T = S
    BY <1>6, <1>12
  <2>2. InMemory(t, ar, m)
    BY <1>2, <1>3, <2>1 DEF InMemory, S, T
  <2> QED BY <1>4, <1>5, <1>6, <1>10, <2>2 DEF Right, t
<1>7. CASE Reached(ar, n)
  <2>1. S = T \cup {n}
    BY <1>7, <1>12
  <2>2. /\ Cardinality(S) = Cardinality(T) + 1 /\ Cardinality(T) \in Nat
        /\ Order(S, n) = Cardinality(T) + 1
        /\ \A i \in T : Order(S, i) = Order(T, i) /\ Order(T, i) \in 1 .. Cardinality(T)
    <3>1. IsFiniteSet(T) /\ n \in Nat \ {0} /\ T \subseteq 1 .. n - 1
      BY <1>0, <1>2
    <3>2. /\ Cardinality(T \cup {n}) = Cardinality(T) + 1 /\ Cardinality(T) \in Nat
          /\ Order(T \cup {n}, n) = Cardinality(T) + 1
          /\ \A i \in T : /\ Order(T \cup {n}, i) = Order(T, i)
                         /\ Order(T, i) \in 1 .. Cardinality(T)
      BY <3>1, OrderAppend
    <3> QED BY <2>1, <3>2
  <2>3. n \in S /\ T \subseteq S
    BY <2>1
  <2>4. m[Len(m)] = Lo(s[n].val)
    BY <1>3, <2>2, <2>3
  <2>5. Len(Front(m, 1)) = Len(m) - 1 /\ \A k \in 1 .. Len(m) - 1 : Front(m, 1)[k] = m[k]
    <3>1. 1 \in Nat /\ 1 <= Len(m)
      BY <1>3, <2>2
    <3> QED BY <3>1, FrontOf
  <2>6. ASSUME NEW i \in T PROVE Front(m, 1)[Order(T, i)] = Lo(t[i].val)
    <3>1. m[Order(T, i)] = Lo(s[i].val) /\ t[i] = s[i]
      BY <1>2, <1>3, <2>2, <2>3, <2>6
    <3>2. Order(T, i) \in 1 .. Len(m) - 1
      BY <1>3, <2>2, <2>6
    <3> QED BY <2>5, <3>1, <3>2
  <2>7. InMemory(t, ar, Front(m, 1))
    BY <1>3, <2>2, <2>5, <2>6 DEF InMemory, T
  <2> QED BY <1>4, <1>5, <1>7, <1>10, <2>4, <2>7 DEF Right, t
<1> QED BY <1>6, <1>7

-----------------------------------------------------------------------------
(* The invariant *)

\* Arms are opened within each other, over the operands that are there; and of
\* the two arms of a conditional that is reached one is taken.
Nested ==
  /\ Base <= Len(operands)
  /\ \A j \in 1 .. Len(arms), k \in 1 .. Len(arms) :
       j < k => /\ arms[j].base <= arms[k].base
                /\ arms[k].live \/ arms[k].other => arms[j].live
  /\ \A j \in 1 .. Len(arms) : ~(arms[j].live /\ arms[j].other)
  /\ \A j \in 1 .. Len(arms) :
       (\A k \in 1 .. j - 1 : arms[k].live) => arms[j].live \/ arms[j].other

\* Only the top operand, and only of the innermost arm, is in the registers
\* for the result.
InRegister(s, r, base, live) ==
  \A i \in 1 .. Len(s) : s[i].at = "register" /\ ~IsLd(s[i].ty) =>
    i = Len(s) /\ i > base /\ (live => Holds(r, s[i].ty, s[i].val))

\* Where the first arm was taken its value stays in its register through the
\* second.
OtherKept(ar, r) ==
  \A j \in 1 .. Len(ar) : ar[j].op = ":" /\ ar[j].other => Holds(r, ar[j].ty, ar[j].val)

Arrives ==
  Right(operands, arms, regs, mem) /\ InRegister(operands, regs, Base, Live) /\ OtherKept(arms, regs)

VInv == Nested /\ (Plain => ~wrong /\ (status = "ok" => Arrives))

-----------------------------------------------------------------------------
(* Arms *)

LEMMA LiveIsAll ==
  ASSUME Typed, Nested
  PROVE  /\ Live <=> \A j \in 1 .. Len(arms) : arms[j].live
         /\ \A i \in Nat : i > Base => (Reached(arms, i) <=> Live)
<1>1. CASE arms = <<>>
  BY <1>1 DEF Live, Reached
<1>2. CASE arms # <<>>
  <2> DEFINE n == Len(arms)
  <2>1. n \in 1 .. n /\ n \in Nat
    BY <1>2, EmptySeq DEF Typed
  <2>2. Live <=> arms[n].live
    BY <1>2 DEF Live
  <2>3. arms[n].live => \A j \in 1 .. n : arms[j].live
    BY <2>1 DEF Nested
  <2>4. \A j \in 1 .. n : arms[j].base <= Base /\ arms[j].base \in Nat
    <3>1. \A j \in 1 .. n : arms[j] \in ArmSet
      BY DEF Typed
    <3>2. Base = arms[n].base
      BY <1>2 DEF Base
    <3>3. \A j \in 1 .. n : j = n \/ j < n
      BY <2>1
    <3> HIDE DEF n
    <3> QED BY <2>1, <3>1, <3>2, <3>3 DEF Nested, ArmSet, n
  <2>5. Base \in Nat
    BY BaseType DEF Typed
  <2> QED BY <2>1, <2>2, <2>3, <2>4, <2>5 DEF Reached
<1> QED BY <1>1, <1>2

\* Operands that were there when the innermost arm was opened do not depend on it.
LEMMA ReachedOuter ==
  ASSUME Typed, Nested, arms # <<>>, NEW i \in Nat, i <= Base
  PROVE  Reached(arms, i) <=> Reached(Outer, i)
<1> DEFINE n == Len(arms)
<1>1. n \in Nat \ {0} /\ Len(Outer) = n - 1 /\ \A j \in 1 .. n - 1 : Outer[j] = arms[j]
  BY ArmType, EmptySeq DEF Typed
<1>2. arms[n].base = Base
  BY DEF Base
<1>3. \A j : j \in 1 .. n <=> j = n \/ j \in 1 .. n - 1
  BY <1>1
<1>4. Base \in Nat
  BY BaseType DEF Typed
<1> HIDE DEF n
<1>5. Reached(arms, i) <=> \A j \in 1 .. n : arms[j].base < i => arms[j].live
  BY DEF Reached, n
<1>6. Reached(Outer, i) <=> \A j \in 1 .. n - 1 : arms[j].base < i => arms[j].live
  BY <1>1 DEF Reached
<1> QED BY <1>2, <1>3, <1>4, <1>5, <1>6

LEMMA ReachedAppend ==
  ASSUME NEW ar \in Seq(ArmSet), NEW arm \in ArmSet, NEW i \in Nat, i <= arm.base
  PROVE  Reached(Append(ar, arm), i) <=> Reached(ar, i)
<1> DEFINE br == Append(ar, arm)
           n == Len(ar) + 1
<1>1. Len(br) = n /\ br[n] = arm /\ n \in Nat /\ \A j \in 1 .. n - 1 : br[j] = ar[j]
  OBVIOUS
<1>2. arm.base \in Nat /\ ~(arm.base < i)
  BY DEF ArmSet
<1>3. \A j : j \in 1 .. n <=> j = n \/ j \in 1 .. n - 1
  BY <1>1
<1>4. 1 .. Len(ar) = 1 .. n - 1
  OBVIOUS
<1> HIDE DEF br, n
<1> QED BY <1>1, <1>2, <1>3, <1>4 DEF Reached, br

LEMMA NestedSame ==
  ASSUME Typed, Nested, arms' = arms, Base <= Len(operands')
  PROVE  Nested' /\ Base' = Base /\ Live' = Live
  BY DEF Nested, Base, Live

LEMMA NestedOuter ==
  ASSUME Typed, Nested, arms # <<>>, arms' = Outer, Base <= Len(operands'), Len(operands') \in Nat
  PROVE  /\ Nested' /\ Base' <= Base /\ Base' \in Nat
         /\ Live' <=> Arm.live \/ Arm.other
         /\ Live <=> Arm.live
         /\ ~(Arm.live /\ Arm.other)
<1> DEFINE n == Len(arms)
<1>1. /\ n \in Nat \ {0} /\ Len(Outer) = n - 1 /\ \A j \in 1 .. n - 1 : Outer[j] = arms[j]
      /\ Outer \in Seq(ArmSet) /\ Arm = arms[n]
  BY ArmType, EmptySeq DEF Typed, Arm
<1>2. /\ \A j \in 1 .. n - 1 : j \in 1 .. n /\ j < n
      /\ n \in 1 .. n
      /\ \A j \in 1 .. n - 1 : \A k \in 1 .. j - 1 : k \in 1 .. n - 1
  BY <1>1
<1>3. Live <=> Arm.live
  BY <1>1 DEF Live
<1>4. Base = Arm.base /\ Base \in Nat
  BY <1>1, BaseType DEF Base, Typed
<1>5. Base' <= Base /\ Base' \in Nat
  <2>1. CASE arms' = <<>>
    BY <1>4, <2>1 DEF Base
  <2>2. CASE arms' # <<>>
    <3>1. Base' = arms[n - 1].base /\ n - 1 \in 1 .. n - 1 /\ arms[n - 1] \in ArmSet
      BY <1>1, <2>2, EmptySeq DEF Base, Typed
    <3> QED BY <1>1, <1>2, <1>4, <3>1 DEF Nested, ArmSet
  <2> QED BY <2>1, <2>2
<1>6. Live' <=> Arm.live \/ Arm.other
  <2>1. CASE arms' = <<>>
    <3>1. n - 1 = 0
      BY <1>1, <2>1
    <3>2. Live'
      BY <2>1 DEF Live
    <3>3. 1 .. 0 = {}
      OBVIOUS
    <3> QED BY <1>1, <1>2, <3>1, <3>2, <3>3 DEF Nested
  <2>2. CASE arms' # <<>>
    <3>1. (Live' <=> arms[n - 1].live) /\ n - 1 \in 1 .. n - 1 /\ n - 1 \in 1 .. n /\ n - 1 < n
      BY <1>1, <2>2, EmptySeq DEF Live
    <3>2. arms[n - 1].live => \A k \in 1 .. n - 1 : arms[k].live
      <4>1. \A k \in 1 .. n - 1 : k = n - 1 \/ k < n - 1
        BY <1>1
      <4> QED BY <1>2, <3>1, <4>1 DEF Nested
    <3>3. (\A k \in 1 .. n - 1 : arms[k].live) => arms[n].live \/ arms[n].other
      BY <1>2 DEF Nested
    <3>4. arms[n].live \/ arms[n].other => arms[n - 1].live
      BY <1>2, <3>1 DEF Nested
    <3> QED BY <1>1, <3>1, <3>2, <3>3, <3>4
  <2> QED BY <2>1, <2>2
<1>7. Nested'
  <2>1. Base' <= Len(operands')
    BY <1>4, <1>5
  <2>2. /\ \A j \in 1 .. n - 1, k \in 1 .. n - 1 :
              j < k => /\ arms[j].base <= arms[k].base
                       /\ arms[k].live \/ arms[k].other => arms[j].live
        /\ \A j \in 1 .. n - 1 : ~(arms[j].live /\ arms[j].other)
        /\ \A j \in 1 .. n - 1 :
              (\A k \in 1 .. j - 1 : arms[k].live) => arms[j].live \/ arms[j].other
    BY <1>2 DEF Nested
  <2> HIDE DEF n
  <2> QED BY <1>1, <1>2, <2>1, <2>2 DEF Nested
<1>8. ~(Arm.live /\ Arm.other)
  BY <1>1, <1>2 DEF Nested
<1> QED BY <1>3, <1>5, <1>6, <1>7, <1>8

\* Another arm instead of, or above, the arms that are open.
LEMMA NestedAppend ==
  ASSUME NEW ar \in Seq(ArmSet), NEW arm \in ArmSet, arms' = Append(ar, arm),
         \A j \in 1 .. Len(ar), k \in 1 .. Len(ar) :
           j < k => /\ ar[j].base <= ar[k].base
                    /\ ar[k].live \/ ar[k].other => ar[j].live,
         \A j \in 1 .. Len(ar) : ~(ar[j].live /\ ar[j].other),
         \A j \in 1 .. Len(ar) :
           (\A k \in 1 .. j - 1 : ar[k].live) => ar[j].live \/ ar[j].other,
         \A j \in 1 .. Len(ar) : ar[j].base <= arm.base,
         arm.live \/ arm.other => \A j \in 1 .. Len(ar) : ar[j].live,
         ~(arm.live /\ arm.other),
         (\A k \in 1 .. Len(ar) : ar[k].live) => arm.live \/ arm.other,
         arm.base <= Len(operands')
  PROVE  Nested' /\ Base' = arm.base /\ (Live' <=> arm.live)
<1> DEFINE n == Len(ar) + 1
           m == Len(ar)
<1>1. /\ Len(arms') = n /\ arms'[n] = arm /\ n \in Nat \ {0} /\ arms' # <<>>
      /\ \A j \in 1 .. m : arms'[j] = ar[j]
  OBVIOUS
<1>2. /\ \A j : j \in 1 .. n <=> j = n \/ j \in 1 .. m
      /\ \A j \in 1 .. m : j < n /\ ~(n < j) /\ j \in Nat
      /\ \A j \in 1 .. m : \A k \in 1 .. j - 1 : k \in 1 .. m
      /\ 1 .. n - 1 = 1 .. m /\ ~(n < n)
  OBVIOUS
<1>3. Base' = arm.base /\ (Live' <=> arm.live)
  BY <1>1 DEF Base, Live
<1> HIDE DEF n, m
<1>4. \A j \in 1 .. n, k \in 1 .. n :
        j < k => /\ arms'[j].base <= arms'[k].base
                 /\ arms'[k].live \/ arms'[k].other => arms'[j].live
  <2> SUFFICES ASSUME NEW j \in 1 .. n, NEW k \in 1 .. n, j < k
               PROVE  /\ arms'[j].base <= arms'[k].base
                      /\ arms'[k].live \/ arms'[k].other => arms'[j].live
    OBVIOUS
  <2>1. j \in 1 .. m /\ (k = n \/ k \in 1 .. m)
    BY <1>2
  <2> QED BY <1>1, <2>1 DEF m
<1>5. \A j \in 1 .. n : ~(arms'[j].live /\ arms'[j].other)
  BY <1>1, <1>2 DEF m
<1>6. ASSUME NEW j \in 1 .. n, \A k \in 1 .. j - 1 : arms'[k].live
      PROVE  arms'[j].live \/ arms'[j].other
  <2>1. CASE j = n
    <3>1. \A k \in 1 .. m : ar[k].live
      BY <1>1, <1>2, <1>6, <2>1
    <3> QED BY <1>1, <2>1, <3>1 DEF m
  <2>2. CASE j \in 1 .. m
    <3>1. \A k \in 1 .. j - 1 : ar[k].live
      BY <1>1, <1>2, <1>6, <2>2
    <3> QED BY <1>1, <2>2, <3>1 DEF m
  <2> QED BY <1>2, <2>1, <2>2
<1> QED BY <1>1, <1>3, <1>4, <1>5, <1>6 DEF Nested

-----------------------------------------------------------------------------
(* What a step leaves in place *)

\* An arm that waits with its value in a register is in code that does not run.
LEMMA OtherKeptStep ==
  ASSUME Typed, Nested, OtherKept(arms, regs), ~Live => regs' = regs
  PROVE  OtherKept(arms, regs')
<1>1. CASE Live
  <2>1. \A j \in 1 .. Len(arms) : ~arms[j].other
    BY <1>1, LiveIsAll DEF Nested
  <2> QED BY <2>1 DEF OtherKept
<1>2. CASE ~Live
  BY <1>2
<1> QED BY <1>1, <1>2

\* The operands below those a step uses.
LEMMA RestArrives ==
  ASSUME Typed, Nested, Arrives, NEW n \in Nat, n <= Len(operands),
         \A i \in Len(operands) - n + 1 .. Len(operands) : operands[i].at # "memory",
         n = 0 => Clear,
         \A i \in 1 .. Len(operands) - n : Reached(arms, i) <=> Reached(arms', i),
         Count(Front(operands, n)) <= 6, mem' = mem,
         \A i \in FS : i < 2 * Count(Front(operands, n)) => regs'.fs[i] = regs.fs[i]
  PROVE  /\ Right(Front(operands, n), arms', regs', mem')
         /\ \A i \in 1 .. Len(Front(operands, n)) :
              Front(operands, n)[i].at = "register" => IsLd(Front(operands, n)[i].ty)
<1> DEFINE t == Front(operands, n)
<1>1. /\ operands \in Seq(OperandSet) /\ t \in Seq(OperandSet) /\ Len(t) = Len(operands) - n
      /\ \A i \in 1 .. Len(operands) - n : t[i] = operands[i]
  BY FrontOf DEF Typed, Sound
<1>2. Right(t, arms, regs, mem)
  BY <1>1, RightFront DEF Arrives
<1>3. Right(t, arms', regs, mem)
  <2>1. \A i \in 1 .. Len(t) : Reached(arms, i) <=> Reached(arms', i)
    BY <1>1
  <2> HIDE DEF t
  <2> QED BY <1>1, <1>2, <2>1, RightArms
<1>4. Right(t, arms', regs', mem)
  <2> HIDE DEF t
  <2>1. Count(t) <= 6 /\ \A i \in FS : i < 2 * Count(t) => regs'.fs[i] = regs.fs[i]
    BY DEF t
  <2> QED BY <1>1, <1>3, <2>1, RightRegs
<1>5. ASSUME NEW i \in 1 .. Len(t), t[i].at = "register", ~IsLd(t[i].ty)
      PROVE  FALSE
  <2>1. i \in 1 .. Len(operands) /\ operands[i] = t[i] /\ Len(operands) \in Nat
    BY <1>1
  <2>2. i = Len(operands) /\ i > Base
    BY <1>5, <2>1 DEF Arrives, InRegister
  <2>3. n = 0
    BY <1>1, <1>5, <2>1, <2>2
  <2>4. Has(1) /\ Top = operands[i]
    BY <2>1, <2>2, BaseType DEF Has, Top, Typed
  <2> QED BY <1>5, <2>1, <2>3, <2>4 DEF Clear, IsLd
<1> QED BY <1>4, <1>5

\* An operation that replaces n operands by its result o.
LEMMA OperationArrives ==
  ASSUME Typed, Nested, Arrives, NEW n \in Nat, n <= Len(operands), Has(n),
         \A i \in Len(operands) - n + 1 .. Len(operands) : operands[i].at # "memory",
         n = 0 => Clear,
         NEW o \in OperandSet, o.at # "memory", o.at = "nowhere" => IsLd(o.ty), Replace(n, o),
         \/ arms' = arms
         \/ arms # <<>> /\ arms' = Outer /\ Len(operands) - n = Base,
         Count(Front(operands, n)) <= 6, mem' = mem,
         \A i \in FS : i < 2 * Count(Front(operands, n)) => regs'.fs[i] = regs.fs[i],
         Live' /\ OnStack(o) => Placed(regs', o, Count(Front(operands, n))),
         Live' /\ o.at = "register" /\ ~IsLd(o.ty) => Holds(regs', o.ty, o.val),
         OtherKept(arms', regs')
  PROVE  Arrives' /\ Nested'
<1> DEFINE t == Front(operands, n)
<1>1. /\ operands \in Seq(OperandSet) /\ t \in Seq(OperandSet) /\ Len(t) = Len(operands) - n
      /\ Len(t) \in Nat /\ operands' = Append(t, o) /\ Base \in Nat /\ Base <= Len(t)
  BY FrontOf, BaseType DEF Typed, Sound, Replace, Front, Has
<1> HIDE DEF t
<1>2. Len(operands') = Len(t) + 1 /\ operands'[Len(t) + 1] = o /\ Len(operands') \in Nat
      /\ operands' \in Seq(OperandSet)
      /\ \A i \in 1 .. Len(t) : operands'[i] = t[i]
  BY <1>1
<1>3. Nested' /\ Base' <= Len(t) /\ Base' \in Nat
  BY <1>1, <1>2, NestedSame, NestedOuter
<1>4. \A i \in 1 .. Len(operands) - n : Reached(arms, i) <=> Reached(arms', i)
  <2>1. CASE arms' = arms
    BY <2>1
  <2>2. CASE arms # <<>> /\ arms' = Outer /\ Len(operands) - n = Base
    <3>1. \A i \in 1 .. Len(operands) - n : i \in Nat /\ i <= Base
      BY <1>1, <2>2
    <3> QED BY <2>2, <3>1, ReachedOuter
  <2> QED BY <2>1, <2>2
<1>5. /\ Right(t, arms', regs', mem')
      /\ \A i \in 1 .. Len(t) : t[i].at = "register" => IsLd(t[i].ty)
  BY <1>4, RestArrives DEF t
<1>6. Reached(arms', Len(t) + 1) <=> Live'
  <2>1. arms' \in Seq(ArmSet)
    BY ArmType DEF Typed
  <2>2. CASE arms' = arms
    <3>1. Len(t) + 1 \in Nat /\ Len(t) + 1 > Base
      BY <1>1
    <3> QED BY <2>2, <3>1, LiveIsAll DEF Live
  <2>3. CASE arms # <<>> /\ arms' = Outer
    <3>1. (Live' <=> Arm.live \/ Arm.other)
      BY <1>1, <1>2, <2>3, NestedOuter
    <3>2. Len(Outer) = Len(arms) - 1 /\ Len(arms) \in Nat \ {0} /\ Arm = arms[Len(arms)]
          /\ \A j \in 1 .. Len(arms) - 1 : Outer[j] = arms[j] /\ arms[j] \in ArmSet
      BY <2>3, ArmType, EmptySeq DEF Typed, Arm
    <3>3. \A j \in 1 .. Len(arms) - 1 : j \in 1 .. Len(arms) /\ j < Len(arms)
          /\ Len(arms) \in 1 .. Len(arms)
      BY <3>2
    <3>4. \A j \in 1 .. Len(arms) - 1 : arms[j].base < Len(t) + 1
      <4>1. \A j \in 1 .. Len(arms) - 1 : arms[j].base <= Base /\ arms[j].base \in Nat
        BY <2>3, <3>2, <3>3 DEF Nested, Base, ArmSet
      <4> QED BY <1>1, <4>1
    <3>5. Reached(Outer, Len(t) + 1) <=> \A j \in 1 .. Len(arms) - 1 : arms[j].live
      BY <3>2, <3>4 DEF Reached
    <3>6. (\A j \in 1 .. Len(arms) - 1 : arms[j].live) <=> Arm.live \/ Arm.other
      BY <3>2, <3>3 DEF Nested
    <3> QED BY <2>3, <3>1, <3>5, <3>6
  <2> QED BY <2>2, <2>3
<1>7. Right(operands', arms', regs', mem')
  BY <1>1, <1>5, <1>6, RightAppend DEF t
<1>8. InRegister(operands', regs', Base', Live')
  <2> SUFFICES ASSUME NEW i \in 1 .. Len(operands'),
                      operands'[i].at = "register", ~IsLd(operands'[i].ty)
               PROVE  /\ i = Len(operands') /\ i > Base'
                      /\ Live' => Holds(regs', operands'[i].ty, operands'[i].val)
    BY DEF InRegister
  <2>1. i = Len(t) + 1
    BY <1>1, <1>2, <1>5
  <2> QED BY <1>1, <1>2, <1>3, <2>1
<1> QED BY <1>3, <1>7, <1>8 DEF Arrives

\* A step that takes n operands away.
LEMMA RemovalArrives ==
  ASSUME Typed, Nested, Arrives, NEW n \in Nat \ {0}, n <= Len(operands),
         \A i \in Len(operands) - n + 1 .. Len(operands) : operands[i].at # "memory",
         operands' = Front(operands, n), mem' = mem,
         \A i \in 1 .. Len(operands) - n : Reached(arms, i) <=> Reached(arms', i),
         Count(Front(operands, n)) <= 6,
         \A i \in FS : i < 2 * Count(Front(operands, n)) => regs'.fs[i] = regs.fs[i],
         OtherKept(arms', regs')
  PROVE  Arrives'
<1>1. n \in Nat /\ (n = 0 => Clear)
  OBVIOUS
<1>2. /\ Right(operands', arms', regs', mem')
      /\ \A i \in 1 .. Len(operands') : operands'[i].at = "register" => IsLd(operands'[i].ty)
  BY <1>1, RestArrives
<1>3. InRegister(operands', regs', Base', Live')
  BY <1>2 DEF InRegister
<1> QED BY <1>2, <1>3 DEF Arrives

-----------------------------------------------------------------------------
(* What a step finds *)

\* The state of a plain function before a step.
Good ==
  /\ Typed /\ Nested /\ Arrives /\ ~wrong /\ regs \in RegSet /\ mem \in Seq(Int)
  /\ ArmsPlain /\ ld_sp = 2 * Count(operands) /\ ld_sp <= 10 /\ Count(operands) \in Nat

LEMMA GoodBefore ==
  ASSUME IInv, RInv, VInv, Plain', shapes \subseteq shapes', status = "ok"
  PROVE  Good
<1>1. Plain
  BY PlainBefore
<1>2. Count(operands) \in Nat
  BY CountType DEF IInv, Typed, Sound
<1> QED BY <1>1, <1>2 DEF IInv, RInv, VInv, Counted, Good

LEMMA StackType ==
  ASSUME Good
  PROVE  ld_sp = 2 * Count(operands) /\ ld_sp \in 0 .. 10
<1>1. ld_sp = 2 * Count(operands) /\ ld_sp <= 10 /\ Count(operands) \in Nat
  BY DEF Good
<1> HIDE DEF Count
<1> QED BY <1>1

LEMMA TopReached ==
  ASSUME Good, NEW n \in Nat \ {0}, Has(n)
  PROVE  /\ n <= Len(operands) /\ Len(operands) \in Nat /\ Len(operands) - n >= Base
         /\ Reached(arms, Len(operands) - n + 1) <=> Live
<1>1. Base \in Nat /\ Len(operands) \in Nat /\ Len(operands) - Base >= n
  BY BaseType DEF Good, Typed, Sound, Has
<1>2. Len(operands) - n + 1 \in Nat /\ Len(operands) - n + 1 > Base
  BY <1>1
<1>3. Reached(arms, Len(operands) - n + 1) <=> Live
  BY <1>2, LiveIsAll DEF Good
<1> QED BY <1>1, <1>3

\* An int or a double on top is where the code emitted next takes it.
LEMMA ScalarTop ==
  ASSUME Good, Ready, ~IsLd(Top.ty)
  PROVE  Top.at = "register" /\ (Live => Holds(regs, Top.ty, Top.val))
<1>1. Has(1) /\ Top.at # "memory" /\ Top = operands[Len(operands)]
  BY DEF Ready, Top
<1>2. Top \in OperandSet /\ Len(operands) \in 1 .. Len(operands)
  BY <1>1, TopType DEF Good
<1>3. Top.at = "register"
  BY <1>1, <1>2 DEF Good, Arrives, Right, OperandSet
<1> QED BY <1>1, <1>2, <1>3 DEF Good, Arrives, InRegister

\* A long double on top is the highest on the stack.
LEMMA LdTop ==
  ASSUME Good, Ready, IsLd(Top.ty), Top.at = "register"
  PROVE  /\ ld_sp = 2 * Count(Front(operands, 1)) + 2 /\ Count(Front(operands, 1)) \in 0 .. 4
         /\ Live => regs.fs[ld_sp - 2] = Lo(Top.val) /\ regs.fs[ld_sp - 1] = Hi(Top.val)
<1>1. Has(1) /\ 1 \in Nat \ {0} /\ Top = operands[Len(operands)]
  BY DEF Ready, Top
<1>2. /\ Len(operands) >= 1 /\ operands \in Seq(OperandSet) /\ Len(operands) \in 1 .. Len(operands)
      /\ Len(operands) - 1 + 1 = Len(operands) /\ OnStack(operands[Len(operands)])
      /\ Reached(arms, Len(operands) - 1 + 1) <=> Live
  BY <1>1, TopReached DEF Good, Typed, Sound, OnStack
<1>3. Count(operands) = Count(Front(operands, 1)) + 1 /\ Count(Front(operands, 1)) \in Nat
  BY <1>2, CountFront, CountType DEF Weight
<1>4. Depth(operands, Len(operands)) = Count(Front(operands, 1))
  BY <1>2, DepthOfTop
<1>5. Live => Placed(regs, Top, Count(Front(operands, 1)))
  BY <1>1, <1>2, <1>4 DEF Good, Arrives, Right
<1>6. ld_sp = 2 * Count(Front(operands, 1)) + 2 /\ ld_sp <= 10
  BY <1>3 DEF Good
<1>7. /\ ld_sp - 2 = 2 * Count(Front(operands, 1)) /\ ld_sp - 1 = 2 * Count(Front(operands, 1)) + 1
      /\ Count(Front(operands, 1)) \in 0 .. 4
  BY <1>3, <1>6
<1> QED BY <1>5, <1>6, <1>7 DEF Placed

\* Popped, it is the operand of what comes next if nothing is held below it.
LEMMA TopTaken ==
  ASSUME Good, Ready, Poppable(Top.ty), Stored(Top) \subseteq shapes',
         PopShapes(1) \subseteq shapes', Plain'
  PROVE  Live => Holds(Take(regs, Top.ty), Top.ty, Top.val)
<1>1. CASE ~IsLd(Top.ty)
  BY <1>1, ScalarTop DEF Take
<1>2. CASE IsLd(Top.ty)
  <2>1. Top \in OperandSet /\ Top.at = "register"
    <3>1. Top \in OperandSet /\ Has(1) /\ Top.at # "memory"
      BY TopType DEF Good, Ready
    <3> QED BY <3>1, PlainStored DEF OperandSet
  <2>2. ~(ld_sp > 2 * 1)
    BY <1>2 DEF PopShapes, Plain, Shapes
  <2>3. ld_sp = 2 /\ Pops(ld_sp)
    BY <1>2, <2>1, <2>2, LdTop DEF Poppable
  <2>4. Live => regs.fs[0] = Lo(Top.val) /\ regs.fs[1] = Hi(Top.val)
    BY <1>2, <2>1, <2>3, LdTop
  <2>5. PopLd(regs, 2).a[0] = regs.fs[0] /\ PopLd(regs, 2).a[1] = regs.fs[1]
    BY <2>3, PopLdEffect DEF Good
  <2> QED BY <1>2, <2>3, <2>4, <2>5 DEF Take, Holds, IsLd
<1> QED BY <1>1, <1>2

\* Stored or passed, it is read off the stack.
LEMMA TopRead ==
  ASSUME Good, Ready, IsLd(Top.ty), Stored(Top) \subseteq shapes', Plain'
  PROVE  Live => regs.fs[ld_sp - 2] = Lo(Top.val) /\ regs.fs[ld_sp - 1] = Hi(Top.val)
<1>1. Top \in OperandSet /\ Has(1) /\ Top.at # "memory"
  BY TopType DEF Good, Ready
<1>2. Top.at = "register"
  BY <1>1, PlainStored DEF OperandSet
<1> QED BY <1>2, LdTop

\* Height of the stack without the top operand.
LEMMA HeightGood ==
  ASSUME Good, Ready, Stored(Top) \subseteq shapes', Plain'
  PROVE  /\ Height(Top.ty) = 2 * Count(Front(operands, 1))
         /\ Height(Top.ty) \in 0 .. 10 /\ Count(Front(operands, 1)) <= 5
         /\ 1 \in Nat \ {0} /\ 1 <= Len(operands) /\ Has(1) /\ Top \in OperandSet
         /\ \A i \in Len(operands) - 1 + 1 .. Len(operands) : operands[i].at # "memory"
<1>1. Has(1) /\ Top.at # "memory"
  BY DEF Ready
<1>2. /\ 1 <= Len(operands) /\ Top \in OperandSet /\ Len(operands) \in Nat
      /\ operands \in Seq(OperandSet)
  BY <1>1, TopType DEF Good, Typed, Sound
<1>3. /\ Height(Top.ty) = 2 * Count(Front(operands, 1))
      /\ Height(Top.ty) <= 10 /\ Height(Top.ty) \in Nat
  BY <1>1, HeightCounts DEF Good
<1>4. Count(Front(operands, 1)) \in Nat
  <2>1. Front(operands, 1) \in Seq(OperandSet)
    BY <1>2, CountFront
  <2> QED BY <2>1, CountType
<1>5. Count(Front(operands, 1)) <= 5
  BY <1>3, <1>4
<1>6. \A i \in Len(operands) - 1 + 1 .. Len(operands) : i = Len(operands)
  BY <1>2
<1> QED BY <1>1, <1>2, <1>3, <1>5, <1>6 DEF Top

\* The result of an operation is where the next one looks for it.
LEMMA LeaveArrives ==
  ASSUME Good, NEW n \in Nat, n <= Len(operands), Has(n),
         \A i \in Len(operands) - n + 1 .. Len(operands) : operands[i].at # "memory",
         n = 0 => Clear,
         NEW ty \in Types, Replace(n, Operand(ty, New, "register")), arms' = arms, mem' = mem,
         NEW r \in RegSet, NEW h, h = 2 * Count(Front(operands, n)), h \in 0 .. 10,
         Leave(r, ty, h),
         \A i \in FS : i < h => r.fs[i] = regs.fs[i],
         Live => Holds(r, ty, New)
  PROVE  Arrives'
<1> DEFINE o == Operand(ty, New, "register")
           c == Count(Front(operands, n))
<1>1. o \in OperandSet /\ o.at = "register" /\ o.ty = ty /\ o.val = New
  BY ResultType DEF Good, Operand
<1>2. h \in Int /\ c \in Nat /\ c <= 6 /\ 2 * c = h
  <2>1. Front(operands, n) \in Seq(OperandSet)
    BY FrontOf DEF Good, Typed, Sound
  <2>2. c \in Nat
    BY <2>1, CountType
  <2> HIDE DEF c
  <2>3. h = 2 * c
    BY DEF c
  <2> QED BY <2>2, <2>3
<1>3. /\ \A i \in FS : i < h => regs'.fs[i] = regs.fs[i]
      /\ ~Live => regs' = regs
      /\ Live /\ ~IsLd(ty) => regs' = r
      /\ Live /\ IsLd(ty) => regs'.fs[h] = r.a[0] /\ regs'.fs[h + 1] = r.a[1]
  BY <1>2, PushLdEffect DEF Leave, Exec
<1>4. Live' = Live
  BY DEF Live
<1>5. Live' /\ OnStack(o) => Placed(regs', o, c)
  <2>1. IsLd(ty) /\ Live => r.a[0] = Lo(New) /\ r.a[1] = Hi(New)
    BY DEF Holds, IsLd
  <2> HIDE DEF o, c
  <2> QED BY <1>1, <1>2, <1>3, <1>4, <2>1 DEF Placed, OnStack
<1>6. Live' /\ o.at = "register" /\ ~IsLd(o.ty) => Holds(regs', o.ty, o.val)
  BY <1>1, <1>3, <1>4
<1>7. OtherKept(arms', regs')
  BY <1>3, OtherKeptStep DEF Good, Arrives
<1>8. /\ o.at # "memory" /\ (o.at = "nowhere" => IsLd(o.ty)) /\ Replace(n, o)
      /\ \A i \in FS : i < 2 * c => regs'.fs[i] = regs.fs[i]
  BY <1>1, <1>2, <1>3
<1> HIDE DEF o
<1> QED BY <1>1, <1>2, <1>5, <1>6, <1>7, <1>8, OperationArrives DEF Good

-----------------------------------------------------------------------------
(* Operations *)

\* An operand that nothing is in the way of.
LEMMA NothingUsed ==
  ASSUME Good
  PROVE  /\ 0 \in Nat /\ 0 <= Len(operands) /\ Front(operands, 0) = operands
         /\ \A i \in Len(operands) - 0 + 1 .. Len(operands) : operands[i].at # "memory"
         /\ Has(0) /\ ld_sp = 2 * Count(Front(operands, 0)) /\ ld_sp \in 0 .. 10
<1>1. /\ operands \in Seq(OperandSet) /\ Len(operands) \in Nat
      /\ Base <= Len(operands) /\ Base \in Nat
  BY BaseType DEF Good, Typed, Sound, Nested
<1>2. Front(operands, 0) = operands
  BY <1>1, FrontZero
<1>3. ld_sp = 2 * Count(operands) /\ ld_sp \in 0 .. 10
  BY StackType
<1> QED BY <1>1, <1>2, <1>3 DEF Has

LEMMA NumberArrives ==
  ASSUME Good, NEW ty \in Types, Number(ty)
  PROVE  ~wrong' /\ Arrives'
<1> DEFINE r == ResultIn(regs, ty, New)
           q == IF ty = "double" THEN [r EXCEPT !.a[0] = Lo(New)] ELSE r
<1>1. /\ Leave(q, ty, ld_sp) /\ Replace(0, Operand(ty, New, "register")) /\ Clear
      /\ arms' = arms /\ mem' = mem /\ wrong' = wrong /\ New \in Nat /\ regs \in RegSet
  BY ValueType DEF Number, Good
<1>2. r \in RegSet /\ r.fs = regs.fs /\ Holds(r, ty, New)
  BY <1>1, ResultInEffect
<1>3. q \in RegSet /\ q.fs = regs.fs /\ Holds(q, ty, New)
  <2>1. Lo(New) \in Int
    BY <1>1 DEF Lo
  <2> HIDE DEF r
  <2>2. [r.a EXCEPT ![0] = Lo(New)] \in [A -> Int]
    BY <1>2, <2>1, SetWord
  <2>3. CASE ty = "double"
    <3>1. q = [r EXCEPT !.a = [r.a EXCEPT ![0] = Lo(New)]]
      BY <1>2, <2>3 DEF RegSet
    <3> HIDE DEF q
    <3>2. q \in RegSet /\ q.fs = r.fs /\ q.fa0 = r.fa0
      BY <1>2, <2>2, <3>1 DEF RegSet
    <3> QED BY <1>2, <2>3, <3>2 DEF Holds
  <2> QED BY <1>2, <2>3
<1> HIDE DEF q
<1>4. Arrives'
  BY <1>1, <1>3, NothingUsed, LeaveArrives
<1> QED BY <1>1, <1>4 DEF Good

LEMMA VariableArrives ==
  ASSUME Good, NEW ty \in Types, Variable(ty)
  PROVE  ~wrong' /\ Arrives'
<1> DEFINE r == [regs EXCEPT !.a[0] = Junk]
           o == Operand(ty, New, "register")
<1>1. /\ Replace(0, o) /\ Clear /\ arms' = arms /\ mem' = mem /\ wrong' = wrong
      /\ New \in Nat /\ regs \in RegSet
  BY ValueType DEF Variable, Good
<1>2. r \in RegSet /\ r.fs = regs.fs
  <2>1. [regs.a EXCEPT ![0] = Junk] \in [A -> Int]
    BY <1>1, SetWord DEF Junk
  <2> QED BY <1>1, <2>1 DEF RegSet
<1>3. CASE ~IsLd(ty)
  <2>1. Leave(ResultIn(r, ty, New), ty, ld_sp)
    BY <1>3 DEF Variable
  <2> HIDE DEF r
  <2>2. /\ ResultIn(r, ty, New) \in RegSet /\ ResultIn(r, ty, New).fs = regs.fs
        /\ Holds(ResultIn(r, ty, New), ty, New)
    BY <1>1, <1>2, ResultInEffect
  <2>3. Arrives'
    BY <1>1, <2>1, <2>2, NothingUsed, LeaveArrives
  <2> QED BY <1>1, <2>3 DEF Good
<1>4. CASE IsLd(ty)
  <2> DEFINE fs == [r.fs EXCEPT ![ld_sp] = Lo(New), ![ld_sp + 1] = Hi(New)]
             c == Count(operands)
  <2>1. o \in OperandSet /\ o.at = "register" /\ o.ty = ty /\ o.val = New
    BY ResultType DEF Good, Operand
  <2>2. c \in Nat /\ ld_sp = 2 * c /\ ld_sp \in 0 .. 10 /\ c <= 6
        /\ Front(operands, 0) = operands
    BY NothingUsed DEF Good
  <2>3. /\ fs[2 * c] = Lo(New) /\ fs[2 * c + 1] = Hi(New)
        /\ \A i \in FS : i < 2 * c => fs[i] = regs.fs[i]
    <3>1. r.fs \in [FS -> Int] /\ ld_sp \in FS /\ ld_sp + 1 \in FS /\ FS \subseteq Int
      BY <1>2, <2>2 DEF RegSet, FS
    <3> HIDE DEF r
    <3>2. /\ fs[ld_sp] = Lo(New) /\ fs[ld_sp + 1] = Hi(New)
          /\ \A i \in FS : i < ld_sp => fs[i] = r.fs[i]
      BY <3>1
    <3> QED BY <1>2, <2>2, <3>2
  <2>4. regs' = IF Live THEN [r EXCEPT !.fs = fs] ELSE regs
    BY <1>2, <1>4 DEF Variable, Exec, RegSet
  <2>5. Live => regs'.fs = fs
    <3> HIDE DEF r, fs
    <3> QED BY <1>2, <2>4 DEF RegSet
  <2>6. Live' = Live
    BY <1>1 DEF Live
  <2>7. OtherKept(arms', regs')
    BY <1>1, <2>4, OtherKeptStep DEF Good, Arrives
  <2>8. Live' /\ OnStack(o) => Placed(regs', o, c)
    <3> HIDE DEF fs, o, c
    <3> QED BY <2>1, <2>3, <2>5, <2>6 DEF Placed
  <2>9. \A i \in FS : i < 2 * c => regs'.fs[i] = regs.fs[i]
    <3> HIDE DEF fs, c, r
    <3> QED BY <2>3, <2>4, <2>5
  <2>10. o.at # "memory" /\ (o.at = "nowhere" => IsLd(o.ty))
         /\ (Live' /\ o.at = "register" /\ ~IsLd(o.ty) => Holds(regs', o.ty, o.val))
    BY <1>4, <2>1
  <2> HIDE DEF o, fs, r
  <2>11. Arrives'
    BY <1>1, <2>1, <2>2, <2>7, <2>8, <2>9, <2>10, NothingUsed, OperationArrives DEF Good
  <2> QED BY <1>1, <2>11 DEF Good
<1> QED BY <1>3, <1>4

LEMMA CastArrives ==
  ASSUME Good, Plain', NEW ty \in Types, Cast(ty)
  PROVE  ~wrong' /\ Arrives'
<1> DEFINE r == Take(regs, Top.ty)
           q == IF "ldouble" \in {ty, Top.ty} THEN Routine(r) ELSE r
           v == Value(Holds(r, Top.ty, Top.val))
           h == Height(Top.ty)
<1>1. /\ Leave(ResultIn(q, ty, v), ty, h) /\ Replace(1, Operand(ty, New, "register"))
      /\ arms' = arms /\ mem' = mem /\ wrong' = wrong /\ regs \in RegSet
      /\ Ready /\ Poppable(Top.ty)
      /\ PopShapes(1) \subseteq shapes' /\ Stored(Top) \subseteq shapes'
  BY DEF Cast, Good
<1>2. v \in Nat /\ (Live => v = New)
  BY <1>1, TopTaken, ValueType DEF Value, Good
<1>3. Top \in OperandSet /\ h = 2 * Count(Front(operands, 1)) /\ h \in 0 .. 10
  BY <1>1, HeightGood
<1>4. q \in RegSet /\ q.fs = regs.fs
  BY <1>1, <1>3, TakeEffect, RoutineEffect DEF OperandSet
<1> HIDE DEF v, q
<1>5. /\ ResultIn(q, ty, v) \in RegSet /\ ResultIn(q, ty, v).fs = regs.fs
      /\ Holds(ResultIn(q, ty, v), ty, v)
  BY <1>2, <1>4, ResultInEffect
<1> HIDE DEF h
<1>6. Arrives'
  BY <1>1, <1>2, <1>3, <1>5, HeightGood, LeaveArrives
<1> QED BY <1>1, <1>6 DEF Good

LEMMA NotArrives ==
  ASSUME Good, Plain', Not
  PROVE  ~wrong' /\ Arrives'
<1> DEFINE v == Value(Seen(regs, Top.ty))
           q == Tested(regs, Top.ty)
           h == Height(Top.ty)
<1>1. /\ Leave(ResultIn(q, "int", v), "int", h) /\ Replace(1, Operand("int", New, "register"))
      /\ arms' = arms /\ mem' = mem /\ wrong' = wrong /\ regs \in RegSet
      /\ Ready /\ Poppable(Top.ty) /\ "int" \in Types
      /\ PopShapes(1) \subseteq shapes' /\ Stored(Top) \subseteq shapes'
  BY DEF Not, Good, TestShapes, Types
<1>2. v \in Nat /\ (Live => v = New)
  BY <1>1, TopTaken, ValueType DEF Value, Seen, Good
<1>3. Top \in OperandSet /\ h = 2 * Count(Front(operands, 1)) /\ h \in 0 .. 10
  BY <1>1, HeightGood
<1>4. q \in RegSet /\ q.fs = regs.fs
  BY <1>1, <1>3, TestedEffect DEF OperandSet
<1> HIDE DEF v, q
<1>5. /\ ResultIn(q, "int", v) \in RegSet /\ ResultIn(q, "int", v).fs = regs.fs
      /\ Holds(ResultIn(q, "int", v), "int", v)
  BY <1>1, <1>2, <1>4, ResultInEffect
<1> HIDE DEF h
<1>6. Arrives'
  BY <1>1, <1>2, <1>3, <1>5, HeightGood, LeaveArrives
<1> QED BY <1>1, <1>6 DEF Good

\* An operation on an int or a double and nothing else.
LEMMA ScalarArrives ==
  ASSUME Good, Ready, ~IsLd(Top.ty), NEW ty \in Types, ~IsLd(ty),
         Replace(1, Operand(ty, New, "register")), arms' = arms, mem' = mem,
         UNCHANGED <<ld_sp, status>>,
         NEW r \in RegSet, r.fs = regs.fs, Exec(r), Live => Holds(r, ty, New)
  PROVE  Arrives'
<1>1. Leave(r, ty, ld_sp)
  BY DEF Leave
<1>2. /\ 1 \in Nat /\ 1 <= Len(operands) /\ Has(1) /\ Top.at # "memory"
      /\ Top = operands[Len(operands)] /\ operands \in Seq(OperandSet) /\ Len(operands) \in Nat
  BY TopType DEF Good, Typed, Sound, Ready, Top
<1>3. Count(Front(operands, 1)) = Count(operands)
  <2>1. Front(operands, 1) \in Seq(OperandSet) /\ Count(operands) = Count(Front(operands, 1)) + 0
    BY <1>2, CountFront DEF Weight, OnStack
  <2> QED BY <2>1, CountType
<1>4. ld_sp = 2 * Count(Front(operands, 1)) /\ ld_sp \in 0 .. 10
  BY <1>3, StackType
<1>5. \A i \in Len(operands) - 1 + 1 .. Len(operands) : operands[i].at # "memory"
  BY <1>2
<1> QED BY <1>1, <1>2, <1>4, <1>5, LeaveArrives

LEMMA NegateArrives ==
  ASSUME Good, Plain', Negate
  PROVE  ~wrong' /\ Arrives'
<1> DEFINE v == Value(Holds(regs, Top.ty, Top.val))
           r == ResultIn(regs, Top.ty, v)
<1>1. /\ Ready /\ ~IsLd(Top.ty) /\ wrong' = wrong /\ arms' = arms /\ mem' = mem
      /\ UNCHANGED <<ld_sp, status>> /\ Exec(r) /\ regs \in RegSet
      /\ Replace(1, Operand(Top.ty, New, Top.at))
  BY DEF Negate, Plain, Shapes, Good
<1>2. Top.ty \in Types /\ v \in Nat /\ Top.at = "register" /\ (Live => v = New)
  BY <1>1, ScalarTop, TopType, ValueType DEF Value, Good, Ready, OperandSet
<1> HIDE DEF v
<1>3. r \in RegSet /\ r.fs = regs.fs /\ Holds(r, Top.ty, v)
  BY <1>1, <1>2, ResultInEffect
<1> HIDE DEF r
<1>4. Arrives'
  BY <1>1, <1>2, <1>3, ScalarArrives
<1> QED BY <1>1, <1>4 DEF Good

LEMMA CastToBoolArrives ==
  ASSUME Good, Plain', CastToBool
  PROVE  ~wrong' /\ Arrives'
<1> DEFINE w == IF Holds(regs, "int", Top.val) THEN Lo(New) ELSE Junk
           r == [regs EXCEPT !.a[0] = w]
<1>1. /\ Ready /\ Top.ty = "int" /\ wrong' = wrong /\ arms' = arms /\ mem' = mem
      /\ UNCHANGED <<ld_sp, status>> /\ Exec(r) /\ regs \in RegSet
      /\ Replace(1, Operand("int", New, "register")) /\ "int" \in Types /\ ~IsLd("int")
  BY DEF CastToBool, Plain, Shapes, Good, Types, IsLd
<1>2. w \in Int /\ (Live => w = Lo(New))
  <2>1. Live => Holds(regs, "int", Top.val)
    BY <1>1, ScalarTop
  <2>2. Lo(New) \in Int /\ Junk \in Int
    BY ValueType DEF Good, Lo, Junk
  <2> QED BY <2>1, <2>2
<1> HIDE DEF w
<1>3. r \in RegSet /\ r.fs = regs.fs /\ r.a[0] = w
  <2>1. [regs.a EXCEPT ![0] = w] \in [A -> Int] /\ [regs.a EXCEPT ![0] = w][0] = w
    BY <1>1, <1>2, SetWord DEF RegSet, A
  <2> QED BY <1>1, <2>1 DEF RegSet
<1> HIDE DEF r
<1>4. Live => Holds(r, "int", New)
  BY <1>2, <1>3 DEF Holds
<1>5. Arrives'
  BY <1>1, <1>3, <1>4, ScalarArrives
<1> QED BY <1>1, <1>5 DEF Good

\* Below the top nothing is in the registers for the result.
LEMMA OthersOnStack ==
  ASSUME Good, NEW n \in Nat \ {0}
  PROVE  \A i \in 1 .. Len(operands) - n : operands[i].at = "register" => IsLd(operands[i].ty)
<1>1. Len(operands) \in Nat
  BY DEF Good, Typed, Sound
<1>2. \A i \in 1 .. Len(operands) - n : i \in 1 .. Len(operands) /\ i # Len(operands)
  BY <1>1
<1> QED BY <1>2 DEF Good, Arrives, InRegister

LEMMA PushArrives ==
  ASSUME Good, Push
  PROVE  ~wrong' /\ Arrives'
<1> DEFINE o == Operand(Top.ty, Top.val, "memory")
           t == Front(operands, 1)
           w == IF Top.ty = "int" THEN regs.a[0] ELSE Lo(regs.fa0)
<1>1. /\ Ready /\ ~IsLd(Top.ty) /\ Has(1) /\ Top.at # "memory" /\ 1 \in Nat \ {0}
      /\ mem' = (IF Live THEN Append(mem, w) ELSE mem) /\ mem \in Seq(Int)
      /\ Replace(1, o) /\ UNCHANGED <<regs, arms, wrong>> /\ regs \in RegSet
  BY DEF Push, Ready, Good
<1>2. /\ Top \in OperandSet /\ operands \in Seq(OperandSet) /\ Top = operands[Len(operands)]
      /\ 1 <= Len(operands) /\ Len(operands) \in Nat
      /\ Len(operands) - 1 + 1 = Len(operands)
      /\ Reached(arms, Len(operands) - 1 + 1) <=> Live
  BY <1>1, TopType, TopReached DEF Top, Good, Typed, Sound
<1>3. /\ t \in Seq(OperandSet) /\ Len(t) = Len(operands) - 1 /\ operands' = Append(t, o)
      /\ \A i \in 1 .. Len(operands) - 1 : t[i] = operands[i]
  BY <1>1, <1>2, FrontOf DEF Replace, Front
<1>4. o \in OperandSet /\ o.at = "memory" /\ o.val = Top.val
  BY <1>2 DEF Operand, OperandSet
<1>5. w \in Int /\ (Live => w = Lo(o.val))
  <2>1. w \in Int
    BY <1>1 DEF RegSet, A, Lo
  <2>2. Live => Holds(regs, Top.ty, Top.val)
    BY <1>1, ScalarTop
  <2>3. Top.ty \in {"int", "double"}
    BY <1>1, <1>2 DEF OperandSet, Types, IsLd
  <2> QED BY <1>4, <2>1, <2>2, <2>3 DEF Holds
<1> HIDE DEF o, t, w
<1>6. Right(t, arms, regs, mem)
  <2>1. \A i \in Len(operands) - 1 + 1 .. Len(operands) : operands[i].at # "memory"
    BY <1>1, <1>2
  <2> QED BY <1>1, <1>2, <2>1, RightFront DEF t, Good, Arrives
<1>7. Reached(arms, Len(t) + 1) <=> Live
  BY <1>2, <1>3
<1>8. Right(operands', arms, regs, mem')
  <2>1. Right(Append(t, o), arms, regs, IF Reached(arms, Len(t) + 1) THEN Append(mem, w) ELSE mem)
    BY <1>1, <1>3, <1>4, <1>5, <1>6, <1>7, RightPush
  <2> QED BY <1>1, <1>3, <1>7, <2>1
<1>9. InRegister(operands', regs, Base', Live')
  <2> SUFFICES ASSUME NEW i \in 1 .. Len(operands'), operands'[i].at = "register",
                      ~IsLd(operands'[i].ty)
               PROVE  FALSE
    BY DEF InRegister
  <2>1. i \in 1 .. Len(t) /\ operands'[i] = t[i]
    BY <1>3, <1>4
  <2>2. operands[i].at = "register" /\ ~IsLd(operands[i].ty) /\ i \in 1 .. Len(operands) - 1
    BY <1>3, <2>1
  <2> QED BY <1>1, <2>2, OthersOnStack
<1>10. arms' = arms /\ regs' = regs /\ OtherKept(arms, regs) /\ ~wrong'
  BY <1>1 DEF Good, Arrives
<1> QED BY <1>8, <1>9, <1>10 DEF Arrives

LEMMA OperateArrives ==
  ASSUME Good, NEW ty \in Types, Operate(ty)
  PROVE  ~wrong' /\ Arrives'
<1> DEFINE o == Operand(ty, New, "register")
           t == Front(operands, 2)
           n == Len(operands) - 1
           right == Live => Holds(regs, Top.ty, Top.val) /\ mem[Len(mem)] = Lo(Below.val)
           v == Value(right)
           r == ResultIn(regs, ty, v)
<1>1. /\ Has(2) /\ ~IsLd(Top.ty) /\ Ready /\ Top.at # "memory" /\ Below.at = "memory"
      /\ ty \in {"int", Top.ty} /\ Exec(r) /\ 2 \in Nat \ {0}
      /\ mem' = (IF Live THEN Front(mem, 1) ELSE mem) /\ mem \in Seq(Int)
      /\ Replace(2, o) /\ UNCHANGED <<arms, wrong>> /\ regs \in RegSet
  BY DEF Operate, Ready, Good, Front
<1>2. /\ operands \in Seq(OperandSet) /\ Top = operands[Len(operands)] /\ Below = operands[n]
      /\ 2 <= Len(operands) /\ Len(operands) \in Nat
      /\ Len(operands) - 2 + 1 = n /\ Len(operands) - 2 >= Base
      /\ Reached(arms, Len(operands) - 2 + 1) <=> Live
  BY <1>1, TopReached DEF Top, Below, Good, Typed, Sound
<1>3. /\ t \in Seq(OperandSet) /\ Len(t) = Len(operands) - 2 /\ operands' = Append(t, o)
      /\ \A i \in 1 .. Len(operands) - 2 : t[i] = operands[i]
  BY <1>1, <1>2, FrontOf DEF Replace, Front
<1>4. o \in OperandSet /\ o.at = "register" /\ o.val = New /\ o.ty = ty /\ ~IsLd(ty)
  BY <1>1, ResultType DEF Good, Operand, IsLd
<1>5. /\ Right(t, arms, regs, mem')
      /\ Live => mem[Len(mem)] = Lo(Below.val)
  <2>1. /\ Right(t, arms, regs, IF Reached(arms, n) THEN Front(mem, 1) ELSE mem)
        /\ Reached(arms, n) => mem[Len(mem)] = Lo(operands[n].val)
    <3>1. /\ Right(operands, arms, regs, mem) /\ Len(operands) >= 2
          /\ operands[Len(operands)].at # "memory" /\ operands[Len(operands) - 1].at = "memory"
      BY <1>1, <1>2 DEF Good, Arrives
    <3> QED BY <1>1, <1>2, <3>1, RightPop
  <2>2. Reached(arms, n) <=> Live
    BY <1>2
  <2> HIDE DEF n, t
  <2> QED BY <1>1, <1>2, <2>1, <2>2
<1>6. right /\ v = New /\ New \in Nat
  BY <1>1, <1>5, ScalarTop, ValueType DEF Value, Good
<1> HIDE DEF right, v, o, t, n
<1>7. r \in RegSet /\ r.fs = regs.fs /\ Holds(r, ty, New)
  BY <1>1, <1>6, ResultInEffect
<1> HIDE DEF r
<1>8. regs'.fs = regs.fs /\ (~Live => regs' = regs) /\ (Live => regs' = r) /\ Live' = Live
  BY <1>1, <1>7 DEF Exec, Live
<1>9. Right(operands', arms', regs', mem')
  <2>1. Count(t) <= 6
    <3>1. Count(operands) = Count(t)
      <4>1. Weight(Below) = 0 /\ Weight(Top) = 0
        BY <1>1 DEF Weight, OnStack
      <4> QED BY <1>1, <4>1, TwoCounted DEF t, Good
    <3>2. Count(operands) <= 6
      BY DEF Good
    <3> QED BY <3>1, <3>2
  <2>2. Right(t, arms, regs', mem')
    BY <1>3, <1>5, <1>8, <2>1, RightRegs
  <2>3. ~OnStack(o) /\ o.at # "memory" /\ o.at # "nowhere"
    BY <1>4 DEF OnStack
  <2> QED BY <1>1, <1>3, <1>4, <2>2, <2>3, RightAppend
<1>10. InRegister(operands', regs', Base', Live')
  <2> SUFFICES ASSUME NEW i \in 1 .. Len(operands'), operands'[i].at = "register",
                      ~IsLd(operands'[i].ty)
               PROVE  /\ i = Len(operands') /\ i > Base'
                      /\ Live' => Holds(regs', operands'[i].ty, operands'[i].val)
    BY DEF InRegister
  <2>1. CASE i \in 1 .. Len(t)
    <3>1. operands[i].at = "register" /\ ~IsLd(operands[i].ty) /\ i \in 1 .. Len(operands) - 2
      BY <1>3, <2>1
    <3> QED BY <1>1, <3>1, OthersOnStack
  <2>2. CASE i = Len(t) + 1
    <3>1. operands'[i] = o /\ i = Len(operands')
      BY <1>3, <1>4, <2>2
    <3>2. Base' = Base /\ Base \in Nat
      BY <1>1, BaseType DEF Base, Good, Typed
    <3>3. i > Base'
      BY <1>2, <1>3, <2>2, <3>2
    <3> QED BY <1>4, <1>7, <1>8, <3>1, <3>3
  <2> QED BY <1>3, <1>4, <2>1, <2>2
<1>11. OtherKept(arms', regs') /\ ~wrong'
  BY <1>1, <1>8, OtherKeptStep DEF Good, Arrives
<1> QED BY <1>9, <1>10, <1>11 DEF Arrives

\* The two long doubles are the only ones, and go to a0-a3.
LEMMA OperateLdArrives ==
  ASSUME Good, Plain', NEW ty \in Types, OperateLd(ty)
  PROVE  ~wrong' /\ Arrives'
<1> DEFINE p == PopLd(regs, ld_sp)
           r == PopLd(p, ld_sp - 2)
           right == /\ Holds(r, "ldouble", Below.val)
                    /\ r.a[2] = Lo(Top.val) /\ r.a[3] = Hi(Top.val)
           v == Value(right)
           q == ResultIn(Routine(r), ty, v)
           h == ld_sp - 4
<1>1. /\ Has(2) /\ IsLd(Top.ty) /\ IsLd(Below.ty) /\ Pops(ld_sp) /\ Pops(ld_sp - 2)
      /\ Leave(q, ty, h) /\ Replace(2, Operand(ty, New, "register")) /\ 2 \in Nat \ {0}
      /\ UNCHANGED <<mem, arms, wrong>> /\ regs \in RegSet
      /\ PopShapes(2) \subseteq shapes' /\ Stored(Top) \subseteq shapes'
      /\ Stored(Below) \subseteq shapes'
  <2>1. regs \in RegSet
    BY DEF Good
  <2>2. shapes' = shapes \cup PopShapes(2) \cup Stored(Top) \cup Stored(Below)
    BY DEF OperateLd
  <2>3. /\ Has(2) /\ IsLd(Top.ty) /\ IsLd(Below.ty) /\ Pops(ld_sp) /\ Pops(ld_sp - 2)
        /\ Leave(q, ty, h) /\ Replace(2, Operand(ty, New, "register"))
        /\ UNCHANGED <<mem, arms, wrong>>
    BY Zenon DEF OperateLd
  <2>4. 2 \in Nat \ {0}
    OBVIOUS
  <2> HIDE DEF q, h
  <2> QED BY <2>1, <2>2, <2>3, <2>4
<1>2. /\ Top \in OperandSet /\ Below \in OperandSet /\ Top.at = "register" /\ Below.at = "register"
      /\ operands \in Seq(OperandSet) /\ 2 <= Len(operands) /\ Len(operands) \in Nat
      /\ Top = operands[Len(operands)] /\ Below = operands[Len(operands) - 1]
  <2>1. /\ Top \in OperandSet /\ Below \in OperandSet /\ Top.at # "memory" /\ Below.at # "memory"
    BY <1>1, TopType DEF Good
  <2>2. Top.at # "nowhere" /\ Below.at # "nowhere"
    BY <1>1, <2>1, PlainStored
  <2> QED BY <1>1, <2>1, <2>2, TopType DEF OperandSet, Top, Below, Good, Typed, Sound
<1>3. /\ ld_sp = 4 /\ h = 0 /\ Count(Front(operands, 2)) = 0
  <2>1. /\ Count(operands) = Count(Front(operands, 2)) + 1 + 1 /\ Count(Front(operands, 2)) \in Nat
    BY <1>1, <1>2, TwoCounted DEF Good, Weight, OnStack
  <2>2. ~(ld_sp > 2 * 2)
    BY <1>1 DEF PopShapes, Plain, Shapes
  <2> QED BY <2>1, <2>2, StackType
<1>4. Live => /\ regs.fs[0] = Lo(Below.val) /\ regs.fs[1] = Hi(Below.val)
              /\ regs.fs[2] = Lo(Top.val) /\ regs.fs[3] = Hi(Top.val)
  <2>1. /\ Depth(operands, Len(operands) - 1) = 0 /\ Depth(operands, Len(operands)) = 1
    BY <1>1, <1>2, <1>3, DepthOfBelow DEF OnStack
  <2>2. /\ Live => Reached(arms, Len(operands)) /\ Reached(arms, Len(operands) - 1)
    <3>1. Base \in Nat /\ Len(operands) - Base >= 2
      BY <1>1, BaseType DEF Has, Good, Typed
    <3>2. /\ Len(operands) - 1 \in Nat /\ Len(operands) - 1 > Base /\ Len(operands) > Base
      BY <1>2, <3>1
    <3> QED BY <1>2, <3>2, LiveIsAll DEF Good
  <2>3. Live => Placed(regs, Below, 0) /\ Placed(regs, Top, 1)
    <3>1. Len(operands) \in 1 .. Len(operands) /\ Len(operands) - 1 \in 1 .. Len(operands)
      BY <1>2
    <3> QED BY <1>1, <1>2, <2>1, <2>2, <3>1 DEF Good, Arrives, Right, OnStack
  <2> QED BY <2>3 DEF Placed
<1>5. /\ p \in RegSet /\ p.fs = regs.fs /\ p.a[2] = regs.fs[2] /\ p.a[3] = regs.fs[3]
  BY <1>1, <1>3, PopLdEffect
<1> HIDE DEF p
<1>6. /\ r \in RegSet /\ r.fs = regs.fs /\ r.a[0] = regs.fs[0] /\ r.a[1] = regs.fs[1]
      /\ r.a[2] = regs.fs[2] /\ r.a[3] = regs.fs[3]
  <2>1. Pops(2)
    BY DEF Pops
  <2>2. /\ PopLd(p, 2) \in RegSet /\ PopLd(p, 2).fs = p.fs
        /\ PopLd(p, 2).a[2 - 2] = p.fs[2 - 2] /\ PopLd(p, 2).a[2 - 1] = p.fs[2 - 1]
        /\ \A i \in A : i \notin {2 - 2, 2 - 1} => PopLd(p, 2).a[i] = p.a[i]
    BY <1>5, <2>1, PopLdEffect
  <2> QED BY <1>3, <1>5, <2>2 DEF A
<1> HIDE DEF r
<1>7. Live => right
  BY <1>4, <1>6 DEF Holds, IsLd
<1>8. v \in Nat /\ (Live => v = New)
  BY <1>7, ValueType DEF Value, Good
<1> HIDE DEF right, v
<1>9. q \in RegSet /\ Holds(q, ty, v)
  BY <1>6, <1>8, RoutineEffect, ResultInEffect
<1>10. \A i \in FS : i < h => q.fs[i] = regs.fs[i]
  BY <1>3 DEF FS
<1>11. h = 2 * Count(Front(operands, 2)) /\ h \in 0 .. 10
  BY <1>3
<1>12. \A i \in Len(operands) - 2 + 1 .. Len(operands) : operands[i].at # "memory"
  <2>1. \A i \in Len(operands) - 2 + 1 .. Len(operands) : i = Len(operands) \/ i = Len(operands) - 1
    BY <1>2
  <2> QED BY <1>2, <2>1
<1> HIDE DEF q, h
<1>13. Arrives'
  BY <1>1, <1>2, <1>8, <1>9, <1>10, <1>11, <1>12, LeaveArrives
<1> QED BY <1>1, <1>13 DEF Good

LEMMA AssignArrives ==
  ASSUME Good, Plain', Assign
  PROVE  ~wrong' /\ Arrives'
<1> DEFINE o == Operand(Top.ty, Top.val, IF IsLd(Top.ty) THEN "nowhere" ELSE "register")
           seen == IF IsLd(Top.ty)
                   THEN regs.fs[ld_sp - 2] = Lo(Top.val) /\ regs.fs[ld_sp - 1] = Hi(Top.val)
                   ELSE Holds(regs, Top.ty, Top.val)
<1>1. /\ Ready /\ Stored(Top) \subseteq shapes' /\ Replace(1, o)
      /\ UNCHANGED <<regs, mem, arms>> /\ wrong' = (wrong \/ (Live /\ ~seen))
  BY DEF Assign
<1>2. /\ 1 \in Nat \ {0} /\ 1 <= Len(operands) /\ Has(1) /\ Top \in OperandSet
      /\ Count(Front(operands, 1)) <= 6
      /\ \A i \in Len(operands) - 1 + 1 .. Len(operands) : operands[i].at # "memory"
  <2>1. Count(Front(operands, 1)) <= 5 => Count(Front(operands, 1)) <= 6
    <3>1. Front(operands, 1) \in Seq(OperandSet)
      <4>1. 1 \in Nat /\ 1 <= Len(operands) /\ operands \in Seq(OperandSet)
        BY <1>1, HeightGood DEF Good, Typed, Sound
      <4> QED BY <4>1, CountFront
    <3>2. Count(Front(operands, 1)) \in Nat
      BY <3>1, CountType
    <3> QED BY <3>2
  <2> QED BY <1>1, <2>1, HeightGood
<1>3. Live => seen
  BY <1>1, TopRead, ScalarTop
<1>4. /\ o \in OperandSet /\ o.at # "memory" /\ (o.at = "nowhere" => IsLd(o.ty)) /\ ~OnStack(o)
      /\ o.at = "register" /\ ~IsLd(o.ty) => Top.ty = o.ty /\ Top.val = o.val /\ ~IsLd(Top.ty)
  BY <1>2 DEF Operand, OperandSet, OnStack
<1>5. Live' = Live
  BY <1>1 DEF Live
<1>6. Live' /\ o.at = "register" /\ ~IsLd(o.ty) => Holds(regs', o.ty, o.val)
  BY <1>1, <1>4, <1>5, ScalarTop
<1>7. OtherKept(arms', regs')
  BY <1>1 DEF Good, Arrives
<1> HIDE DEF o, seen
<1>8. Arrives'
  BY <1>1, <1>2, <1>4, <1>6, <1>7, OperationArrives DEF Good
<1> QED BY <1>1, <1>3, <1>8 DEF Good

\* What every step that takes the top operand away needs.
LEMMA DropArrives ==
  ASSUME Good, Has(1), Top.at # "memory", operands' = Front(operands, 1), mem' = mem,
         \A i \in 1 .. Len(operands) - 1 : Reached(arms, i) <=> Reached(arms', i),
         regs'.fs = regs.fs, OtherKept(arms', regs')
  PROVE  Arrives'
<1>1. /\ 1 \in Nat \ {0} /\ 1 <= Len(operands) /\ Len(operands) \in Nat
      /\ operands \in Seq(OperandSet) /\ Top = operands[Len(operands)]
  BY TopType DEF Good, Typed, Sound, Top
<1>2. \A i \in Len(operands) - 1 + 1 .. Len(operands) : operands[i].at # "memory"
  BY <1>1
<1>3. Count(Front(operands, 1)) <= 6
  <2>1. /\ Front(operands, 1) \in Seq(OperandSet)
        /\ Count(operands) = Count(Front(operands, 1)) + Weight(operands[Len(operands)])
    BY <1>1, CountFront
  <2>2. Count(Front(operands, 1)) \in Nat /\ Weight(operands[Len(operands)]) \in Nat
        /\ Count(operands) \in Nat
    BY <1>1, <2>1, CountType DEF Weight
  <2>3. ld_sp = 2 * Count(operands) /\ ld_sp \in 0 .. 10
    BY StackType
  <2> QED BY <2>1, <2>2, <2>3
<1> QED BY <1>1, <1>2, <1>3, RemovalArrives DEF Good

LEMMA DiscardArrives ==
  ASSUME Good, Discard
  PROVE  ~wrong' /\ Arrives'
<1>1. /\ Has(1) /\ Top.at # "memory" /\ operands' = Front(operands, 1)
      /\ UNCHANGED <<regs, mem, arms, wrong>>
  BY DEF Discard, Ready, Drop, Front
<1>2. OtherKept(arms', regs')
  BY <1>1 DEF Good, Arrives
<1>3. Arrives'
  BY <1>1, <1>2, DropArrives
<1> QED BY <1>1, <1>3 DEF Good

LEMMA CallArrives ==
  ASSUME Good, Plain', NEW f \in Callees, NEW lost \in BOOLEAN, Call(f, lost)
  PROVE  ~wrong' /\ Arrives'
<1> DEFINE c == Called(f.body, regs, lost)
           q == ResultIn(Passed(c), f.result, New)
           h == IF IsLd(f.param) THEN ld_sp - 2 ELSE ld_sp
           n == IF f.param = "none" THEN 0 ELSE 1
           seen == \/ f.param = "none"
                   \/ IF IsLd(f.param)
                      THEN regs.fs[h] = Lo(Top.val) /\ regs.fs[h + 1] = Hi(Top.val)
                      ELSE Holds(regs, f.param, Top.val)
<1>1. /\ Leave(q, f.result, h) /\ Replace(n, Operand(f.result, New, "register"))
      /\ UNCHANGED <<mem, arms>> /\ wrong' = (wrong \/ (Live /\ ~seen))
      /\ f.param = "none" => Clear
      /\ f.param # "none" => Ready /\ Top.ty = f.param /\ Stored(Top) \subseteq shapes'
      /\ CallShapes(f.body, h) \subseteq shapes'
  BY DEF Call
<1>2. f.body \in {"leaf", "holds", "library"} /\ f.result \in Types
  BY CalleesAssumption
<1>3. regs \in RegSet /\ New \in Nat
  BY ValueType DEF Good
<1>4. /\ n \in Nat /\ n <= Len(operands) /\ Has(n) /\ (n = 0 => Clear)
      /\ \A i \in Len(operands) - n + 1 .. Len(operands) : operands[i].at # "memory"
      /\ h = 2 * Count(Front(operands, n)) /\ h \in 0 .. 10
  <2>1. CASE f.param = "none"
    BY <1>1, <2>1, NothingUsed DEF IsLd
  <2>2. CASE f.param # "none"
    <3>1. h = Height(Top.ty) /\ n = 1
      BY <1>1, <2>2 DEF Height
    <3>2. /\ 1 \in Nat /\ 1 <= Len(operands) /\ Has(1)
          /\ \A i \in Len(operands) - 1 + 1 .. Len(operands) : operands[i].at # "memory"
          /\ Height(Top.ty) = 2 * Count(Front(operands, 1)) /\ Height(Top.ty) \in 0 .. 10
      BY <1>1, <2>2, HeightGood
    <3> HIDE DEF h, n
    <3> QED BY <3>1, <3>2
  <2> QED BY <2>1, <2>2
<1>5. Live => seen
  <2>1. CASE IsLd(f.param)
    <3>1. h = ld_sp - 2 /\ h + 1 = ld_sp - 1 /\ f.param # "none"
      BY <2>1, StackType DEF IsLd
    <3> QED BY <1>1, <2>1, <3>1, TopRead
  <2>2. CASE ~IsLd(f.param)
    BY <1>1, <2>2, ScalarTop
  <2> QED BY <2>1, <2>2
<1>6. c \in RegSet /\ (f.body # "holds" => c.fs = regs.fs)
  BY <1>2, <1>3, CalledEffect
<1> HIDE DEF c
<1>7. q \in RegSet /\ q.fs = c.fs /\ Holds(q, f.result, New)
  <2>1. Passed(c) \in RegSet /\ Passed(c).fs = c.fs
    BY <1>6, PassedEffect
  <2> QED BY <1>2, <1>3, <2>1, ResultInEffect
<1>8. f.body = "holds" => ~(h > 0)
  BY <1>1 DEF CallShapes, Plain, Shapes
<1>9. \A i \in FS : i < h => q.fs[i] = regs.fs[i]
  <2>1. CASE f.body = "holds"
    <3>1. h = 0
      BY <1>4, <1>8, <2>1
    <3> QED BY <3>1 DEF FS
  <2>2. CASE f.body # "holds"
    BY <1>6, <1>7, <2>2
  <2> QED BY <2>1, <2>2
<1> HIDE DEF q, h, n, seen
<1>10. Arrives'
  BY <1>1, <1>2, <1>4, <1>7, <1>9, LeaveArrives
<1> QED BY <1>1, <1>5, <1>10 DEF Good

-----------------------------------------------------------------------------
(* Conditions *)

LEMMA TestSeen ==
  ASSUME Good, Plain', Test(Top.ty), TestShapes \subseteq shapes'
  PROVE  /\ ~wrong' /\ (Live => Seen(regs, Top.ty))
         /\ Has(1) /\ Top.at # "memory" /\ Top \in OperandSet
         /\ Tested(regs, Top.ty) \in RegSet /\ Tested(regs, Top.ty).fs = regs.fs
<1>1. /\ Ready /\ Poppable(Top.ty) /\ wrong' = (wrong \/ (Live /\ ~Seen(regs, Top.ty)))
      /\ Stored(Top) \subseteq shapes' /\ PopShapes(1) \subseteq shapes'
  BY DEF Test, TestShapes
<1>2. Has(1) /\ Top.at # "memory" /\ Top \in OperandSet /\ regs \in RegSet
  BY <1>1, TopType DEF Good, Ready
<1>3. Live => Seen(regs, Top.ty)
  BY <1>1, TopTaken DEF Seen
<1>4. Tested(regs, Top.ty) \in RegSet /\ Tested(regs, Top.ty).fs = regs.fs
  BY <1>1, <1>2, TestedEffect DEF OperandSet
<1> QED BY <1>1, <1>2, <1>3, <1>4 DEF Good

LEMMA BranchArrives ==
  ASSUME Good, Plain', Branch
  PROVE  ~wrong' /\ Arrives'
<1>1. /\ Test(Top.ty) /\ Exec(Tested(regs, Top.ty)) /\ TestShapes \subseteq shapes'
      /\ Len(operands) = 1 /\ operands' = <<>> /\ UNCHANGED <<mem, arms>> /\ arms = <<>>
  BY DEF Branch
<1>2. /\ ~wrong' /\ Has(1) /\ Top.at # "memory" /\ Tested(regs, Top.ty).fs = regs.fs
  BY <1>1, TestSeen
<1>3. Front(operands, 1) = <<>>
  <2>1. operands \in Seq(OperandSet)
    BY DEF Good, Typed, Sound
  <2> QED BY <1>1, <2>1, SubSeqEmpty DEF Front
<1>4. regs'.fs = regs.fs
  BY <1>1, <1>2 DEF Exec
<1>5. OtherKept(arms', regs')
  BY <1>1 DEF OtherKept
<1> QED BY <1>1, <1>2, <1>3, <1>4, <1>5, DropArrives

\* An arm opened within those that are open.
LEMMA OpenNested ==
  ASSUME Typed, Nested, NEW arm \in ArmSet, arms' = Append(arms, arm),
         Base <= arm.base, arm.base <= Len(operands'),
         ~(arm.live /\ arm.other), arm.live \/ arm.other <=> Live
  PROVE  Nested'
<1>1. arms \in Seq(ArmSet) /\ Len(arms) \in Nat /\ Base \in Nat /\ arm.base \in Nat
  BY BaseType DEF Typed, ArmSet
<1>2. \A j \in 1 .. Len(arms) : arms[j].base <= arm.base
  <2>1. CASE Len(arms) = 0
    BY <2>1
  <2>2. CASE Len(arms) # 0
    <3>1. /\ Len(arms) \in 1 .. Len(arms) /\ Base = arms[Len(arms)].base
          /\ \A j \in 1 .. Len(arms) : j = Len(arms) \/ j < Len(arms)
          /\ \A j \in 1 .. Len(arms) : arms[j].base \in Nat
      <4>1. arms # <<>>
        BY <2>2
      <4>2. Base = arms[Len(arms)].base
        BY <4>1 DEF Base
      <4>3. \A j \in 1 .. Len(arms) : arms[j] \in ArmSet
        BY <1>1
      <4>4. \A j \in 1 .. Len(arms) : arms[j].base \in Nat
        BY <4>3 DEF ArmSet
      <4> QED BY <1>1, <2>2, <4>2, <4>4
    <3>2. \A j \in 1 .. Len(arms) : arms[j].base <= Base
      BY <1>1, <3>1 DEF Nested
    <3> QED BY <1>1, <3>1, <3>2
  <2> QED BY <2>1, <2>2
<1>3. Live <=> \A j \in 1 .. Len(arms) : arms[j].live
  BY LiveIsAll
<1> QED BY <1>1, <1>2, <1>3, NestedAppend DEF Nested

LEMMA OpenArm ==
  ASSUME Typed, Has(1), NEW op \in {"?", "&&", "||"}, NEW live \in BOOLEAN, NEW other \in BOOLEAN
  PROVE  [op |-> op, ty |-> Top.ty, base |-> Len(operands) - 1,
          live |-> live, other |-> other, val |-> Junk] \in ArmSet
<1>1. Len(operands) - 1 \in Nat /\ Top.ty \in Types /\ Junk \in Nat
  <2>1. 1 <= Len(operands) /\ Len(operands) \in Nat /\ Top \in OperandSet
    BY TopType
  <2> QED BY <2>1 DEF OperandSet, Junk
<1> QED BY <1>1 DEF ArmSet

LEMMA OpenArrives ==
  ASSUME Good, Plain', NEW op \in {"?", "&&", "||"}, NEW taken \in BOOLEAN, Open(op, taken)
  PROVE  ~wrong' /\ Arrives'
<1> DEFINE arm == [op |-> op, ty |-> Top.ty, base |-> Len(operands) - 1,
                   live |-> Live /\ taken, other |-> Live /\ ~taken, val |-> Junk]
<1>1. /\ Test(Top.ty) /\ Exec(Tested(regs, Top.ty)) /\ TestShapes \subseteq shapes'
      /\ operands' = Front(operands, 1) /\ mem' = mem /\ arms' = Append(arms, arm)
  BY DEF Open, Drop, Front
<1>2. /\ ~wrong' /\ Has(1) /\ Top.at # "memory" /\ Tested(regs, Top.ty).fs = regs.fs
  BY <1>1, TestSeen
<1>3. arm \in ArmSet
  <2>1. (Live /\ taken) \in BOOLEAN /\ (Live /\ ~taken) \in BOOLEAN
    OBVIOUS
  <2> QED BY <1>2, <2>1, OpenArm DEF Good
<1>4. arm.op # ":" /\ arm.base = Len(operands) - 1
  OBVIOUS
<1> HIDE DEF arm
<1>5. regs'.fs = regs.fs /\ (~Live => regs' = regs)
  BY <1>1, <1>2 DEF Exec
<1>6. OtherKept(arms', regs')
  <2>1. OtherKept(arms, regs')
    BY <1>5, OtherKeptStep DEF Good, Arrives
  <2>2. arms \in Seq(ArmSet)
    BY DEF Good, Typed
  <2>3. \A j \in 1 .. Len(arms') : arms'[j] = arm \/ (j \in 1 .. Len(arms) /\ arms'[j] = arms[j])
    BY <1>1, <1>3, <2>2
  <2> QED BY <1>4, <2>1, <2>3 DEF OtherKept
<1>7. \A i \in 1 .. Len(operands) - 1 : Reached(arms, i) <=> Reached(arms', i)
  <2>1. arms \in Seq(ArmSet) /\ Len(operands) \in Nat
    BY DEF Good, Typed, Sound
  <2>2. \A i \in 1 .. Len(operands) - 1 : i \in Nat /\ i <= arm.base
    BY <1>4, <2>1
  <2> QED BY <1>1, <1>3, <2>1, <2>2, ReachedAppend
<1>8. Arrives'
  BY <1>1, <1>2, <1>5, <1>6, <1>7, DropArrives
<1> QED BY <1>2, <1>8

\* The innermost arm, seen from the ones around it.
LEMMA ArmNested ==
  ASSUME Typed, Nested, arms # <<>>
  PROVE  /\ Arm \in ArmSet /\ Outer \in Seq(ArmSet) /\ Arm.base = Base /\ (Live <=> Arm.live)
         /\ Len(arms) \in 1 .. Len(arms) /\ Arm = arms[Len(arms)]
         /\ Len(Outer) = Len(arms) - 1
         /\ \A j \in 1 .. Len(Outer) : /\ Outer[j] = arms[j] /\ j \in 1 .. Len(arms)
                                       /\ arms[j].base <= Arm.base
         /\ ~(Arm.live /\ Arm.other)
         /\ Arm.live \/ Arm.other <=> \A j \in 1 .. Len(Outer) : Outer[j].live
<1> DEFINE n == Len(arms)
<1>1. /\ n \in Nat \ {0} /\ Outer \in Seq(ArmSet) /\ Len(Outer) = n - 1 /\ Arm \in ArmSet
      /\ \A j \in 1 .. n - 1 : Outer[j] = arms[j]
  BY ArmType, EmptySeq DEF Typed
<1>2. Arm = arms[n] /\ Arm.base = Base /\ (Live <=> Arm.live)
  BY DEF Arm, Base, Live
<1>3. n \in 1 .. n /\ \A j \in 1 .. n - 1 : j \in 1 .. n /\ j < n
  BY <1>1
<1> HIDE DEF n
<1>4. \A j \in 1 .. n - 1 : /\ arms[j].base <= arms[n].base
                            /\ arms[n].live \/ arms[n].other => arms[j].live
  BY <1>3 DEF Nested, n
<1>5. /\ ~(arms[n].live /\ arms[n].other)
      /\ (\A j \in 1 .. n - 1 : arms[j].live) => arms[n].live \/ arms[n].other
  BY <1>3 DEF Nested, n
<1> QED BY <1>1, <1>2, <1>3, <1>4, <1>5 DEF n

LEMMA ColonArm ==
  ASSUME Typed, Has(1), arms # <<>>
  PROVE  [Arm EXCEPT !.op = ":", !.live = Arm.other, !.other = Arm.live,
                     !.ty = Top.ty, !.val = Top.val] \in ArmSet
<1>1. Arm \in ArmSet /\ Top \in OperandSet
  BY ArmType, TopType DEF Typed
<1> QED BY <1>1 DEF ArmSet, OperandSet

LEMMA ColonNested ==
  ASSUME Typed, Nested, arms # <<>>, NEW arm \in ArmSet, arms' = Append(Outer, arm),
         arm.base = Base, arm.live = Arm.other, arm.other = Arm.live, Base <= Len(operands')
  PROVE  Nested'
<1>1. /\ Arm \in ArmSet /\ Outer \in Seq(ArmSet) /\ Arm.base = Base
      /\ \A j \in 1 .. Len(Outer) : /\ Outer[j] = arms[j] /\ j \in 1 .. Len(arms)
                                    /\ arms[j].base <= Arm.base
      /\ ~(Arm.live /\ Arm.other)
      /\ Arm.live \/ Arm.other <=> \A j \in 1 .. Len(Outer) : Outer[j].live
  BY ArmNested
<1>2. \A j \in 1 .. Len(Outer), k \in 1 .. Len(Outer) :
        j < k => /\ Outer[j].base <= Outer[k].base
                 /\ Outer[k].live \/ Outer[k].other => Outer[j].live
  BY <1>1 DEF Nested
<1>3. \A j \in 1 .. Len(Outer) : ~(Outer[j].live /\ Outer[j].other)
  BY <1>1 DEF Nested
<1>4. \A j \in 1 .. Len(Outer) :
        (\A k \in 1 .. j - 1 : Outer[k].live) => Outer[j].live \/ Outer[j].other
  <2> SUFFICES ASSUME NEW j \in 1 .. Len(Outer), \A k \in 1 .. j - 1 : Outer[k].live
               PROVE  Outer[j].live \/ Outer[j].other
    OBVIOUS
  <2>1. \A k \in 1 .. j - 1 : k \in 1 .. Len(Outer)
    BY <1>1
  <2>2. \A k \in 1 .. j - 1 : arms[k].live
    BY <1>1, <2>1
  <2> QED BY <1>1, <2>2 DEF Nested
<1>5. /\ \A j \in 1 .. Len(Outer) : Outer[j].base <= arm.base
      /\ arm.live \/ arm.other => \A j \in 1 .. Len(Outer) : Outer[j].live
      /\ ~(arm.live /\ arm.other)
      /\ (\A j \in 1 .. Len(Outer) : Outer[j].live) => arm.live \/ arm.other
  BY <1>1
<1> QED BY <1>1, <1>2, <1>3, <1>4, <1>5, NestedAppend

LEMMA ColonArrives ==
  ASSUME Good, Plain', Colon
  PROVE  ~wrong' /\ Arrives'
<1> DEFINE arm == [Arm EXCEPT !.op = ":", !.live = Arm.other, !.other = Arm.live,
                              !.ty = Top.ty, !.val = Top.val]
<1>1. /\ Ready /\ ~IsLd(Top.ty) /\ arms # <<>> /\ Len(operands) = Base + 1
      /\ operands' = Front(operands, 1) /\ arms' = Append(Outer, arm)
      /\ UNCHANGED <<regs, mem, wrong>>
  BY DEF Colon, Drop, Front, Plain, Shapes
<1>2. Has(1) /\ Top.at # "memory" /\ Base \in Nat
  BY <1>1, BaseType DEF Ready, Good, Typed
<1>3. arm \in ArmSet
  BY <1>1, <1>2, ColonArm DEF Good
<1>4. /\ Arm \in ArmSet /\ Outer \in Seq(ArmSet) /\ Arm.base = Base /\ (Live <=> Arm.live)
      /\ \A j \in 1 .. Len(Outer) : Outer[j] = arms[j] /\ j \in 1 .. Len(arms)
  BY <1>1, ArmNested DEF Good
<1>5. arm.base = Base /\ arm.ty = Top.ty /\ arm.val = Top.val /\ arm.other = Arm.live
  BY <1>4 DEF ArmSet
<1> HIDE DEF arm
<1>6. OtherKept(arms', regs')
  <2>1. \A j \in 1 .. Len(arms') :
          arms'[j] = arm \/ (j \in 1 .. Len(arms) /\ arms'[j] = arms[j])
    <3>1. \A j \in 1 .. Len(arms') :
            arms'[j] = arm \/ (j \in 1 .. Len(Outer) /\ arms'[j] = Outer[j])
      BY <1>1, <1>3, <1>4
    <3> QED BY <1>4, <3>1
  <2>2. arm.other => Holds(regs, arm.ty, arm.val)
    BY <1>1, <1>4, <1>5, ScalarTop
  <2>3. OtherKept(arms, regs) /\ regs' = regs
    BY <1>1 DEF Good, Arrives
  <2> QED BY <2>1, <2>2, <2>3 DEF OtherKept
<1>7. \A i \in 1 .. Len(operands) - 1 : Reached(arms, i) <=> Reached(arms', i)
  <2> TAKE i \in 1 .. Len(operands) - 1
  <2>1. i \in Nat /\ i <= Base
    BY <1>1, <1>2
  <2>2. Reached(arms, i) <=> Reached(Outer, i)
    BY <1>1, <2>1, ReachedOuter DEF Good
  <2>3. Reached(arms', i) <=> Reached(Outer, i)
    BY <1>1, <1>3, <1>4, <1>5, <2>1, ReachedAppend
  <2> QED BY <2>2, <2>3
<1>8. Arrives'
  BY <1>1, <1>2, <1>6, <1>7, DropArrives
<1> QED BY <1>1, <1>8 DEF Good

\* Arms that are left keep what waits in registers if these change only where
\* all of them are taken.
LEMMA OuterKept ==
  ASSUME Good, arms # <<>>, arms' = Outer, regs' = regs \/ Arm.live \/ Arm.other
  PROVE  OtherKept(arms', regs')
<1>1. /\ \A j \in 1 .. Len(Outer) : Outer[j] = arms[j] /\ j \in 1 .. Len(arms)
      /\ Arm.live \/ Arm.other <=> \A j \in 1 .. Len(Outer) : Outer[j].live
  BY ArmNested DEF Good
<1>2. CASE regs' = regs
  BY <1>1, <1>2 DEF Good, Arrives, OtherKept
<1>3. CASE Arm.live \/ Arm.other
  <2>1. \A j \in 1 .. Len(Outer) : ~Outer[j].other
    BY <1>1, <1>3 DEF Good, Nested
  <2> QED BY <2>1 DEF OtherKept
<1> QED BY <1>2, <1>3

LEMMA EndConditionalArrives ==
  ASSUME Good, Plain', EndConditional
  PROVE  ~wrong' /\ Arrives'
<1> DEFINE o == Operand(Top.ty, IF Arm.other THEN Arm.val ELSE Top.val, Top.at)
<1>1. /\ Ready /\ arms # <<>> /\ Len(operands) = Base + 1 /\ Arm.op = ":" /\ Top.ty = Arm.ty
      /\ arms' = Outer /\ Replace(1, o) /\ UNCHANGED <<regs, mem, wrong>>
      /\ Stored(Top) \subseteq shapes'
  BY DEF EndConditional
<1>2. /\ Len(arms) \in 1 .. Len(arms) /\ Arm = arms[Len(arms)] /\ Arm \in ArmSet
      /\ ~(Arm.live /\ Arm.other) /\ (Live <=> Arm.live)
  BY <1>1, ArmNested DEF Good
<1>3. ~IsLd(Top.ty)
  BY <1>1, <1>2 DEF Good, ArmsPlain
<1>4. Top.at = "register" /\ (Live => Holds(regs, Top.ty, Top.val))
  BY <1>1, <1>3, ScalarTop
<1>5. /\ 1 \in Nat \ {0} /\ 1 <= Len(operands) /\ Has(1) /\ Top \in OperandSet
      /\ Count(Front(operands, 1)) <= 6 /\ Len(operands) - 1 = Base
      /\ \A i \in Len(operands) - 1 + 1 .. Len(operands) : operands[i].at # "memory"
  <2>1. /\ 1 <= Len(operands) /\ Has(1) /\ Top \in OperandSet /\ Base \in Nat
        /\ operands \in Seq(OperandSet)
        /\ Height(Top.ty) = 2 * Count(Front(operands, 1)) /\ Height(Top.ty) \in 0 .. 10
        /\ \A i \in Len(operands) - 1 + 1 .. Len(operands) : operands[i].at # "memory"
    BY <1>1, HeightGood, BaseType DEF Good, Typed, Sound
  <2>2. Count(Front(operands, 1)) \in Nat
    <3>1. Front(operands, 1) \in Seq(OperandSet)
      BY <2>1, CountFront
    <3> QED BY <3>1, CountType
  <2> QED BY <1>1, <2>1, <2>2
<1>6. /\ o \in OperandSet /\ o.at = "register" /\ ~OnStack(o) /\ o.ty = Top.ty
      /\ o.val = IF Arm.other THEN Arm.val ELSE Top.val
  BY <1>2, <1>3, <1>4, <1>5 DEF Operand, OperandSet, ArmSet, OnStack
<1>7. Live' <=> Arm.live \/ Arm.other
  <2>1. Base <= Len(operands') /\ Len(operands') \in Nat
    <3>1. /\ Front(operands, 1) \in Seq(OperandSet) /\ Len(Front(operands, 1)) = Len(operands) - 1
          /\ operands' = Append(Front(operands, 1), o) /\ Base \in Nat
      BY <1>1, <1>5, FrontOf, BaseType DEF Good, Typed, Sound, Replace, Front
    <3> QED BY <1>5, <3>1
  <2> QED BY <1>1, <2>1, NestedOuter DEF Good
<1>8. Live' => Holds(regs', o.ty, o.val)
  <2>1. CASE Arm.other
    BY <1>1, <1>2, <1>6, <2>1 DEF Good, Arrives, OtherKept
  <2>2. CASE ~Arm.other
    BY <1>1, <1>2, <1>4, <1>6, <1>7, <2>2
  <2> QED BY <2>1, <2>2
<1>9. OtherKept(arms', regs')
  BY <1>1, OuterKept
<1> HIDE DEF o
<1>10. Arrives'
  BY <1>1, <1>5, <1>6, <1>8, <1>9, OperationArrives DEF Good
<1> QED BY <1>1, <1>10 DEF Good

LEMMA EndLogicalArrives ==
  ASSUME Good, Plain', EndLogical
  PROVE  ~wrong' /\ Arrives'
<1> DEFINE o == Operand("int", New, "register")
           t == Tested(regs, Top.ty)
           r == IF Live THEN t ELSE regs
<1>1. ComparedAs = Top.ty
  BY DEF EndLogical, Plain, Shapes
<1>2. /\ arms # <<>> /\ Len(operands) = Base + 1 /\ arms' = Outer /\ Replace(1, o) /\ mem' = mem
      /\ Test(Top.ty) /\ TestShapes \subseteq shapes'
      /\ regs' = IF Arm.live \/ Arm.other THEN ResultIn(r, "int", New) ELSE r
  BY <1>1 DEF EndLogical
<1>3. /\ ~wrong' /\ t \in RegSet /\ t.fs = regs.fs /\ Ready /\ Stored(Top) \subseteq shapes'
  BY <1>2, TestSeen DEF Test, TestShapes
<1>4. /\ 1 \in Nat \ {0} /\ 1 <= Len(operands) /\ Has(1)
      /\ Count(Front(operands, 1)) <= 6 /\ Len(operands) - 1 = Base /\ Base \in Nat
      /\ \A i \in Len(operands) - 1 + 1 .. Len(operands) : operands[i].at # "memory"
  <2>1. /\ 1 <= Len(operands) /\ Has(1) /\ Base \in Nat /\ operands \in Seq(OperandSet)
        /\ Height(Top.ty) = 2 * Count(Front(operands, 1)) /\ Height(Top.ty) \in 0 .. 10
        /\ \A i \in Len(operands) - 1 + 1 .. Len(operands) : operands[i].at # "memory"
    BY <1>3, HeightGood, BaseType DEF Good, Typed, Sound
  <2>2. Count(Front(operands, 1)) \in Nat
    <3>1. Front(operands, 1) \in Seq(OperandSet)
      BY <2>1, CountFront
    <3> QED BY <3>1, CountType
  <2> QED BY <1>2, <2>1, <2>2
<1>5. o \in OperandSet /\ o.at = "register" /\ o.ty = "int" /\ o.val = New /\ ~OnStack(o)
      /\ New \in Nat /\ "int" \in Types
  BY ResultType, ValueType DEF Good, Operand, Types, OnStack, IsLd
<1> HIDE DEF o, t
<1>6. r \in RegSet /\ r.fs = regs.fs /\ (~Live => r = regs)
  BY <1>3 DEF Good
<1>7. (Live <=> Arm.live) /\ (Live' <=> Arm.live \/ Arm.other)
  <2>1. Base <= Len(operands') /\ Len(operands') \in Nat
    <3>1. /\ Front(operands, 1) \in Seq(OperandSet) /\ Len(Front(operands, 1)) = Len(operands) - 1
          /\ operands' = Append(Front(operands, 1), o)
      BY <1>2, <1>4, FrontOf DEF Good, Typed, Sound, Replace, Front
    <3> QED BY <1>4, <1>5, <3>1
  <2> QED BY <1>2, <2>1, NestedOuter DEF Good
<1> HIDE DEF r
<1>8. /\ regs'.fs = regs.fs
      /\ Live' => Holds(regs', "int", New)
      /\ ~(Arm.live \/ Arm.other) => regs' = regs
  BY <1>2, <1>5, <1>6, <1>7, ResultInEffect
<1>9. OtherKept(arms', regs')
  BY <1>2, <1>8, OuterKept
<1>10. Arrives'
  BY <1>2, <1>4, <1>5, <1>8, <1>9, OperationArrives DEF Good
<1> QED BY <1>3, <1>10

\* A function returns the value C does.
LEMMA ReturnSeen ==
  ASSUME Good, Plain', Return
  PROVE  ~wrong'
<1>1. /\ Ready /\ Poppable(Top.ty) /\ arms = <<>>
      /\ wrong' = (wrong \/ ~Holds(Take(regs, Top.ty), Top.ty, Top.val))
      /\ Stored(Top) \subseteq shapes' /\ PopShapes(1) \subseteq shapes'
  BY DEF Return, TestShapes
<1>2. Live
  BY <1>1 DEF Live
<1> QED BY <1>1, <1>2, TopTaken DEF Good

-----------------------------------------------------------------------------
(* The nesting of arms, in any function *)

LEMMA LeftOver ==
  ASSUME Typed, Nested, NEW n \in {0, 1, 2}, Has(n), NEW o, Replace(n, o) \/ Drop(n)
  PROVE  Len(operands') \in Nat /\ Base <= Len(operands')
<1>1. Base \in Nat /\ Len(operands) \in Nat /\ Len(operands) - n >= Base
      /\ operands \in Seq(OperandSet)
  BY BaseType DEF Typed, Sound, Has
<1>2. n \in Nat /\ n <= Len(operands)
  BY <1>1
<1>3. Front(operands, n) \in Seq(OperandSet) /\ Len(Front(operands, n)) = Len(operands) - n
  BY <1>1, <1>2, FrontOf
<1>4. CASE Replace(n, o)
  <2>1. operands' = Append(Front(operands, n), o)
    BY <1>4 DEF Replace, Front
  <2>2. Len(operands') = Len(operands) - n + 1
    BY <1>3, <2>1
  <2> QED BY <1>1, <1>2, <2>2
<1>5. CASE Drop(n)
  <2>1. operands' = Front(operands, n)
    BY <1>5 DEF Drop, Front
  <2> QED BY <1>1, <1>2, <1>3, <2>1
<1> QED BY <1>4, <1>5

LEMMA OperationNested ==
  ASSUME Typed, Nested, arms' = arms, NEW n \in {0, 1, 2}, Has(n),
         NEW o, Replace(n, o) \/ Drop(n)
  PROVE  Nested'
  BY LeftOver, NestedSame

LEMMA NoOperand ==
  ASSUME Typed, Nested
  PROVE  Has(0)
<1>1. Base \in Nat /\ Len(operands) \in Nat /\ Base <= Len(operands)
  BY BaseType DEF Typed, Sound, Nested
<1> QED BY <1>1 DEF Has

LEMMA TypedStepNested ==
  ASSUME Typed, Nested, NEW ty \in Types,
         Number(ty) \/ Variable(ty) \/ Cast(ty) \/ Operate(ty) \/ OperateLd(ty)
  PROVE  Nested'
<1>1. CASE Number(ty) \/ Variable(ty)
  <2>1. arms' = arms /\ Replace(0, Operand(ty, New, "register"))
    BY <1>1 DEF Number, Variable
  <2> QED BY <2>1, NoOperand, OperationNested
<1>2. CASE Cast(ty)
  <2>1. arms' = arms /\ Has(1) /\ Replace(1, Operand(ty, New, "register"))
    BY <1>2 DEF Cast, Ready
  <2> QED BY <2>1, OperationNested
<1>3. CASE Operate(ty) \/ OperateLd(ty)
  <2>1. arms' = arms /\ Has(2) /\ Replace(2, Operand(ty, New, "register"))
    BY <1>3 DEF Operate, OperateLd
  <2> QED BY <2>1, OperationNested
<1> QED BY <1>1, <1>2, <1>3

LEMMA UnaryStepNested ==
  ASSUME Typed, Nested, Negate \/ CastToBool \/ Push \/ Assign \/ Discard \/ Not
  PROVE  Nested'
<1>1. arms' = arms /\ Has(1)
  BY DEF Negate, CastToBool, Push, Assign, Discard, Not, Ready
<1>2. CASE Negate \/ CastToBool \/ Push \/ Assign \/ Not
  <2>1. \E o : Replace(1, o)
    BY <1>2 DEF Negate, CastToBool, Push, Assign, Not
  <2> QED BY <1>1, <2>1, OperationNested
<1>3. CASE Discard
  <2>1. Drop(1)
    BY <1>3 DEF Discard
  <2> QED BY <1>1, <2>1, OperationNested
<1> QED BY <1>2, <1>3

LEMMA CallNested ==
  ASSUME Typed, Nested, NEW f, NEW lost, Call(f, lost)
  PROVE  Nested'
<1> DEFINE n == IF f.param = "none" THEN 0 ELSE 1
<1>1. arms' = arms /\ Replace(n, Operand(f.result, New, "register"))
  BY DEF Call
<1>2. Has(n)
  BY NoOperand DEF Call, Ready
<1>3. n \in {0, 1, 2}
  OBVIOUS
<1> HIDE DEF n
<1> QED BY <1>1, <1>2, <1>3, OperationNested

LEMMA ArmStepNested ==
  ASSUME Typed, Nested, Colon \/ EndConditional \/ EndLogical
  PROVE  Nested'
<1>1. arms # <<>> /\ Has(1)
  BY DEF Colon, EndConditional, EndLogical, Test, Ready
<1>2. CASE Colon
  <2> DEFINE arm == [Arm EXCEPT !.op = ":", !.live = Arm.other, !.other = Arm.live,
                                !.ty = Top.ty, !.val = Top.val]
  <2>1. arms' = Append(Outer, arm) /\ Drop(1)
    BY <1>2 DEF Colon
  <2>2. arm \in ArmSet
    BY <1>1, ColonArm
  <2>3. arm.base = Base /\ arm.live = Arm.other /\ arm.other = Arm.live
    BY <1>1, ArmNested DEF ArmSet
  <2>4. Base <= Len(operands')
    BY <1>1, <2>1, LeftOver
  <2> HIDE DEF arm
  <2> QED BY <1>1, <2>1, <2>2, <2>3, <2>4, ColonNested
<1>3. CASE EndConditional \/ EndLogical
  <2>1. arms' = Outer /\ \E o : Replace(1, o)
    BY <1>3 DEF EndConditional, EndLogical
  <2>2. Base <= Len(operands') /\ Len(operands') \in Nat
    BY <1>1, <2>1, LeftOver
  <2> QED BY <1>1, <2>1, <2>2, NestedOuter
<1> QED BY <1>2, <1>3

LEMMA OpenStepNested ==
  ASSUME Typed, Nested, NEW op \in {"?", "&&", "||"}, NEW taken \in BOOLEAN, Open(op, taken)
  PROVE  Nested'
<1> DEFINE arm == [op |-> op, ty |-> Top.ty, base |-> Len(operands) - 1,
                   live |-> Live /\ taken, other |-> Live /\ ~taken, val |-> Junk]
<1>1. Has(1) /\ Drop(1) /\ arms' = Append(arms, arm)
  BY DEF Open, Test, Ready
<1>2. arm \in ArmSet
  <2>1. (Live /\ taken) \in BOOLEAN /\ (Live /\ ~taken) \in BOOLEAN
    OBVIOUS
  <2> QED BY <1>1, <2>1, OpenArm
<1>3. ~(arm.live /\ arm.other) /\ (arm.live \/ arm.other <=> Live)
  OBVIOUS
<1>4. Base <= arm.base /\ arm.base <= Len(operands')
  <2>1. /\ Base \in Nat /\ Len(operands) - Base >= 1 /\ operands \in Seq(OperandSet)
        /\ 1 \in Nat /\ 1 <= Len(operands) /\ operands' = Front(operands, 1)
    BY <1>1, BaseType, TopType DEF Typed, Sound, Has, Drop, Front
  <2>2. Len(operands') = Len(operands) - 1
    BY <2>1, FrontOf
  <2> QED BY <2>1, <2>2
<1> HIDE DEF arm
<1> QED BY <1>1, <1>2, <1>3, <1>4, OpenNested

LEMMA NextNested == Typed /\ Nested /\ [Next]_vars => Nested'
<1> SUFFICES ASSUME Typed, Nested, [Next]_vars PROVE Nested'
  OBVIOUS
<1>1. CASE UNCHANGED vars \/ EndOfBody \/ PopFails
  <2>1. arms' = arms /\ operands' = operands
    BY <1>1 DEF vars, EndOfBody, PopFails
  <2>2. Base <= Len(operands')
    BY <2>1 DEF Nested
  <2> QED BY <2>1, <2>2, NestedSame
<1>2. CASE Branch \/ Return
  <2>1. arms' = arms /\ operands' = <<>> /\ Base = 0
    BY <1>2 DEF Branch, Return, Base
  <2>2. Base <= Len(operands')
    BY <2>1
  <2> QED BY <2>1, <2>2, NestedSame
<1>3. CASE \E ty \in Types : Number(ty) \/ Variable(ty) \/ Cast(ty) \/ Operate(ty) \/ OperateLd(ty)
  BY <1>3, TypedStepNested
<1>4. CASE Negate \/ CastToBool \/ Push \/ Assign \/ Discard \/ Not
  BY <1>4, UnaryStepNested
<1>5. CASE \E f \in Callees, lost \in BOOLEAN : (lost => f.body = "library") /\ Call(f, lost)
  BY <1>5, CallNested
<1>6. CASE Colon \/ EndConditional \/ EndLogical
  BY <1>6, ArmStepNested
<1>7. CASE \E op \in {"?", "&&", "||"}, taken \in BOOLEAN : Open(op, taken)
  BY <1>7, OpenStepNested
<1> QED BY <1>1, <1>2, <1>3, <1>4, <1>5, <1>6, <1>7 DEF Next

-----------------------------------------------------------------------------
(* The theorem *)

LEMMA InitVInv == Init => VInv
<1> SUFFICES ASSUME Init PROVE VInv
  OBVIOUS
<1>1. operands = <<>> /\ arms = <<>> /\ mem = <<>> /\ ~wrong /\ Base = 0
  BY DEF Init, Base
<1>2. Nested
  BY <1>1 DEF Nested
<1>3. OnMemory(operands, arms) = {}
  BY <1>1 DEF OnMemory
<1>4. InMemory(operands, arms, mem)
  BY <1>1, <1>3, FS_EmptySet DEF InMemory
<1>5. Arrives
  BY <1>1, <1>4 DEF Arrives, Right, InRegister, OtherKept
<1> QED BY <1>1, <1>2, <1>5 DEF VInv

LEMMA NextShapes ==
  ASSUME Next
  PROVE  shapes \subseteq shapes' /\ status = "ok"
<1>1. ASSUME NEW ty \in Types,
             Number(ty) \/ Variable(ty) \/ Cast(ty) \/ Operate(ty) \/ OperateLd(ty)
      PROVE  shapes \subseteq shapes' /\ status = "ok"
  BY <1>1 DEF Number, Variable, Cast, Operate, OperateLd, Step
<1>2. CASE Negate \/ CastToBool \/ Push \/ Assign \/ Discard \/ Not
  BY <1>2 DEF Negate, CastToBool, Push, Assign, Discard, Not, Step
<1>3. ASSUME NEW f \in Callees, NEW lost \in BOOLEAN, Call(f, lost)
      PROVE  shapes \subseteq shapes' /\ status = "ok"
  BY <1>3 DEF Call, Step
<1>4. CASE Branch \/ Colon \/ EndConditional \/ EndLogical
  BY <1>4 DEF Branch, Colon, EndConditional, EndLogical, Step
<1>5. ASSUME NEW op \in {"?", "&&", "||"}, NEW taken \in BOOLEAN, Open(op, taken)
      PROVE  shapes \subseteq shapes' /\ status = "ok"
  BY <1>5 DEF Open, Step
<1>6. CASE Return \/ EndOfBody \/ PopFails
  BY <1>6 DEF Return, EndOfBody, PopFails, Step
<1> QED BY <1>1, <1>2, <1>3, <1>4, <1>5, <1>6 DEF Next

\* What stops the compiler.
LEMMA StopsThere ==
  ASSUME Return \/ EndOfBody \/ PopFails
  PROVE  status' # "ok"
  BY DEF Return, EndOfBody, PopFails, Epilogue

LEMMA NextArrives ==
  ASSUME Good, Plain', Next
  PROVE  ~wrong' /\ (status' = "ok" => Arrives')
<1>1. CASE \E ty \in Types : Number(ty) \/ Variable(ty) \/ Cast(ty) \/ Operate(ty) \/ OperateLd(ty)
  BY <1>1, NumberArrives, VariableArrives, CastArrives, OperateArrives, OperateLdArrives
<1>2. CASE Negate \/ CastToBool \/ Push \/ Assign \/ Discard \/ Not
  BY <1>2, NegateArrives, CastToBoolArrives, PushArrives, AssignArrives, DiscardArrives, NotArrives
<1>3. CASE \E f \in Callees, lost \in BOOLEAN : (lost => f.body = "library") /\ Call(f, lost)
  BY <1>3, CallArrives
<1>4. CASE Branch \/ Colon \/ EndConditional \/ EndLogical
  BY <1>4, BranchArrives, ColonArrives, EndConditionalArrives, EndLogicalArrives
<1>5. CASE \E op \in {"?", "&&", "||"}, taken \in BOOLEAN : Open(op, taken)
  BY <1>5, OpenArrives
<1>6. CASE Return
  BY <1>6, ReturnSeen, StopsThere
<1>7. CASE EndOfBody \/ PopFails
  <2>1. ~wrong'
    BY <1>7 DEF EndOfBody, PopFails, Good
  <2> QED BY <1>7, <2>1, StopsThere
<1> QED BY <1>1, <1>2, <1>3, <1>4, <1>5, <1>6, <1>7 DEF Next

LEMMA NextVInv == IInv /\ RInv /\ VInv /\ [Next]_vars => VInv'
<1> SUFFICES ASSUME IInv, RInv, VInv, [Next]_vars PROVE VInv'
  OBVIOUS
<1>1. Nested'
  BY NextNested DEF IInv, VInv
<1>2. CASE UNCHANGED vars
  <2>1. /\ shapes' = shapes /\ operands' = operands /\ arms' = arms /\ regs' = regs
        /\ mem' = mem /\ wrong' = wrong /\ status' = status
    BY <1>2 DEF vars
  <2>2. Plain' = Plain /\ Base' = Base /\ Live' = Live
    BY <2>1 DEF Plain, Base, Live
  <2>3. Arrives => Arrives'
    BY <2>1, <2>2 DEF Arrives
  <2> QED BY <1>1, <2>1, <2>2, <2>3 DEF VInv
<1>3. CASE Next
  <2>1. ASSUME Plain' PROVE ~wrong' /\ (status' = "ok" => Arrives')
    <3>1. Good
      BY <1>3, <2>1, NextShapes, GoodBefore
    <3> QED BY <1>3, <2>1, <3>1, NextArrives
  <2> QED BY <1>1, <2>1 DEF VInv
<1> QED BY <1>2, <1>3

\* In a plain function of any length, with conditionals nested to any depth and
\* any functions to call, every value that is stored, returned, passed or
\* tested is the one C computes.
THEOREM FloatValuesArrive == Spec => []ValuesArrive
<1>1. VInv => ValuesArrive
  BY DEF VInv, ValuesArrive
<1>2. Init => IInv /\ RInv /\ VInv
  BY InitInv, InitRInv, InitVInv
<1>3. (IInv /\ RInv /\ VInv) /\ [Next]_vars => (IInv /\ RInv /\ VInv)'
  BY NextInv, NextRInv, NextVInv
<1> QED BY <1>1, <1>2, <1>3, PTL DEF Spec

================================================================================
