---------------------------- MODULE IntExprProofs ----------------------------
(* Expressions of any size and shape, whatever the widths of char, int and  *)
(* long: their types are those of C, as long as "~" and the shifts are not  *)
(* applied to _Bool and the char types; and without the combinations of     *)
(* WeakOps and WeakCasts, registers, branches and constants are right.      *)
EXTENDS IntExpr, SequenceTheorems, WellFoundedInduction, TLAPS

Unpromoted == {"not", "shl", "shr"} \X {"bool", "char", "uchar"}

Typed(e) == e.type \in AllTypes /\ e.ty = e.type
Inv == /\ \E S : operands \in Seq(S)
       /\ \A i \in DOMAIN operands : Typed(operands[i])

\* get_common_type(), type.c:293-323, is the usual arithmetic conversions.
LEMMA CommonTypeIsUsual ==
  ASSUME NEW t \in AllTypes, NEW u \in AllTypes
  PROVE  get_common_type(t, u) = UsualType(t, u) /\ get_common_type(t, u) \in AllTypes
<1> DEFINE p == Promoted(t)
           q == Promoted(u)
<1>0. \A s \in AllTypes : Bits[s] \in Nat
  BY BitsAssumption
<1>1. p \in {"int", "uint", "long", "ulong"} /\ q \in {"int", "uint", "long", "ulong"}
  BY BitsAssumption DEF Promoted, AllTypes
<1>2. get_common_type(t, u) = IF Bits[p] # Bits[q] THEN IF Bits[p] < Bits[q] THEN q ELSE p
                              ELSE IF q \in Unsigned THEN q ELSE p
  BY DEF get_common_type, Promoted
<1>3. UsualType(t, u) = IF p = q THEN p
                        ELSE IF Bits[p] > Bits[q] THEN p
                        ELSE IF Bits[q] > Bits[p] THEN q
                        ELSE CHOOSE s \in {p, q} : s \in Unsigned
  BY DEF UsualType
<1> HIDE DEF p, q
<1>4. Bits[p] \in Nat /\ Bits[q] \in Nat
  BY <1>0, <1>1 DEF AllTypes
<1>5. get_common_type(t, u) \in AllTypes
  BY <1>1, <1>2 DEF AllTypes
<1>6. CASE p = q \/ Bits[p] # Bits[q]
  BY <1>2, <1>3, <1>4, <1>5, <1>6
<1>7. CASE p # q /\ Bits[p] = Bits[q]
  <2>1. {p, q} = {"int", "uint"} \/ {p, q} = {"long", "ulong"}
    BY <1>1, <1>7, BitsAssumption DEF AllTypes
  <2>2. PICK s \in {p, q} : s \in Unsigned /\ \A r \in {p, q} : r \in Unsigned => r = s
    BY <2>1 DEF Unsigned
  <2>3. (CHOOSE r \in {p, q} : r \in Unsigned) = s
    BY <2>2
  <2>4. get_common_type(t, u) = s
    BY <1>2, <1>7, <2>1, <2>2 DEF Unsigned
  <2> QED
    BY <1>3, <1>4, <1>5, <1>7, <2>3, <2>4
<1> QED
  BY <1>6, <1>7

\* The operands are those there were and the new node.
LEMMA BuildIs ==
  ASSUME \E S : operands \in Seq(S), NEW n, NEW e, n \in 0 .. Len(operands), Build(n, e)
  PROVE  /\ (\E S : operands \in Seq(S))'
         /\ \A i \in DOMAIN operands' : operands'[i] = e \/ \E j \in DOMAIN operands : operands'[i] = operands[j]
<1>1. PICK S : operands \in Seq(S)
  OBVIOUS
<1> DEFINE kept == SubSeq(operands, 1, Len(operands) - n)
<1>2. Len(operands) \in Nat /\ DOMAIN operands = 1 .. Len(operands)
  BY <1>1
<1>3. \A i \in 1 .. Len(operands) - n : operands[i] \in S
  BY <1>1, <1>2
<1>4. /\ kept \in Seq(S)
      /\ Len(kept) = Len(operands) - n
      /\ \A i \in 1 .. Len(kept) : kept[i] = operands[i]
  <2>1. 1 \in Int /\ Len(operands) - n \in Nat
    BY <1>2
  <2> DEFINE m == Len(operands) - n
  <2> HIDE DEF m
  <2>2. /\ SubSeq(operands, 1, m) \in Seq(S)
        /\ Len(SubSeq(operands, 1, m)) = IF 1 <= m THEN m - 1 + 1 ELSE 0
        /\ \A i \in 1 .. m - 1 + 1 : SubSeq(operands, 1, m)[i] = operands[1 + i - 1]
    BY <1>3, <2>1, SubSeqProperties DEF m
  <2>3. Len(SubSeq(operands, 1, m)) = m
    BY <2>1, <2>2 DEF m
  <2>4. \A i \in 1 .. m : SubSeq(operands, 1, m)[i] = operands[i]
    BY <2>1, <2>2 DEF m
  <2> QED
    BY <2>2, <2>3, <2>4 DEF m
<1> HIDE DEF kept
<1>5. kept \in Seq(S \cup {e})
  BY <1>4
<1>6. operands' = Append(kept, e)
  BY DEF Build, kept
<1>7. operands' \in Seq(S \cup {e})
  BY <1>5, <1>6
<1>8. ASSUME NEW i \in DOMAIN operands'
      PROVE  operands'[i] = e \/ \E j \in DOMAIN operands : operands'[i] = operands[j]
  <2>1. CASE i = Len(kept) + 1
    BY <1>5, <1>6, <2>1
  <2>2. CASE i \in 1 .. Len(kept)
    <3>1. operands'[i] = operands[i] /\ i \in DOMAIN operands
      BY <1>2, <1>4, <1>5, <1>6, <2>2
    <3> QED
      BY <3>1
  <2> QED
    BY <1>5, <1>6, <2>1, <2>2
<1> QED
  BY <1>7, <1>8

\* A new node whose type is right keeps the types of all operands right.
LEMMA BuildKeepsTypes ==
  ASSUME Inv, NEW n, NEW e, n \in 0 .. Len(operands), Typed(e), Build(n, e)
  PROVE  Inv'
<1>1. /\ (\E S : operands \in Seq(S))'
      /\ \A i \in DOMAIN operands' : operands'[i] = e \/ \E j \in DOMAIN operands : operands'[i] = operands[j]
  BY BuildIs DEF Inv
<1>2. (\A i \in DOMAIN operands : Typed(operands[i]))'
  BY <1>1 DEF Inv, Typed
<1> QED
  BY <1>1, <1>2 DEF Inv

LEMMA OperandsTyped ==
  ASSUME Inv
  PROVE  /\ Len(operands) \in Nat
         /\ operands # <<>> => 1 \in 0 .. Len(operands) /\ Typed(Top)
         /\ Len(operands) = 2 => operands # <<>> /\ Typed(Below)
<1>1. PICK S : operands \in Seq(S)
  BY DEF Inv
<1>2. Len(operands) \in Nat /\ DOMAIN operands = 1 .. Len(operands)
  BY <1>1
<1>3. operands # <<>> => Len(operands) \in 1 .. Len(operands)
  BY <1>1, <1>2
<1> QED
  BY <1>2, <1>3 DEF Inv, Top, Below

\* A binary operator gives its node the right type, shifts of the small types
\* left out.
LEMMA BinaryTyped ==
  ASSUME Unpromoted \subseteq SkippedOps,
         NEW op, NEW l, Typed(l), NEW r, Typed(r), Meaningful(op, l, r)
  PROVE  Typed(BinaryOf(op, l, r))
<1>1. CASE op \in Shift
  <2>1. BinaryOf(op, l, r).type = Promoted(l.type) /\ BinaryOf(op, l, r).ty = l.ty
    BY <1>1 DEF BinaryOf, ShiftOf, Expr
  <2>2. <<op, l.ty>> \notin SkippedOps
    BY <1>1 DEF Meaningful
  <2>3. Promoted(l.type) = l.type
    BY <1>1, <2>2, BitsAssumption DEF Typed, Promoted, AllTypes, Unpromoted, Shift
  <2> QED
    BY <2>1, <2>3 DEF Typed
<1>2. CASE op \notin Shift
  <2> DEFINE t == UsualType(l.type, r.type)
             ty == get_common_type(l.ty, r.ty)
  <2>1. /\ BinaryOf(op, l, r).type = IF op \in Comparison THEN "int" ELSE t
        /\ BinaryOf(op, l, r).ty = IF op \in Comparison THEN "int" ELSE ty
    BY <1>2 DEF BinaryOf, ArithmeticOf, Expr
  <2>2. t = ty /\ t \in AllTypes
    BY CommonTypeIsUsual DEF Typed
  <2> QED
    BY <2>1, <2>2 DEF Typed, AllTypes
<1> QED
  BY <1>1, <1>2

\* A cast, and the assignment to a variable, has the type it converts to.
LEMMA StoredTyped ==
  ASSUME NEW e, NEW t \in AllTypes
  PROVE  Typed(CastOf(e, t)) /\ Typed(Stored(e, t)) /\ Stored(e, t).ty = t
BY DEF CastOf, Stored, Expr, Typed

\* Every step builds a node of the right type.
LEMMA StepKeepsTypes ==
  ASSUME Unpromoted \subseteq SkippedOps, Inv, Next
  PROVE  Inv'
<1> USE OperandsTyped
<1>1. ASSUME NEW t \in Types, NEW v \in Values(t), Number(t, v) \/ Variable(t, v)
      PROVE  Inv'
  <2> t \in AllTypes
    BY TypesAssumption
  <2>1. CASE Number(t, v)
    <3>1. PICK e : Build(0, e) /\ e.type = t /\ e.ty = t
      BY <2>1 DEF Number, NumberOf, Expr
    <3> QED
      BY <3>1, BuildKeepsTypes DEF Typed
  <2>2. CASE Variable(t, v)
    <3>1. PICK e : Build(0, e) /\ e.type = t /\ e.ty = t
      BY <2>2 DEF Variable, VariableOf, Expr
    <3> QED
      BY <3>1, BuildKeepsTypes DEF Typed
  <2> QED
    BY <1>1, <2>1, <2>2
<1>2. ASSUME NEW t \in Types, Cast(t) \/ Assign(t) \/ Call(t)
      PROVE  Inv'
  <2>1. t \in AllTypes /\ operands # <<>>
    BY <1>2, TypesAssumption DEF Cast, Assign, Call
  <2>2. \A reg, c : /\ Typed([CastOf(Top, t) EXCEPT !.reg = reg, !.const = c])
                   /\ Typed([Stored(Top, t) EXCEPT !.reg = reg])
    BY <2>1 DEF CastOf, Stored, Expr, Typed
  <2>3. PICK e : Build(1, e) /\ Typed(e)
    BY <1>2, <2>1, <2>2, StoredTyped DEF Cast, Assign, Call
  <2> QED
    BY <2>1, <2>3, BuildKeepsTypes
<1>3. CASE Neg
  <2>1. PICK e : Build(1, e) /\ e.type = Promoted(Top.type) /\ e.ty = get_common_type("int", Top.ty)
    BY <1>3 DEF Neg, Expr
  <2>2. operands # <<>> /\ Typed(Top)
    BY <1>3 DEF Neg
  <2>3. Promoted(Top.type) = get_common_type("int", Top.ty) /\ Promoted(Top.type) \in AllTypes
    BY <2>2, BitsAssumption DEF Typed, Promoted, get_common_type, AllTypes, Unsigned
  <2> QED
    BY <2>1, <2>2, <2>3, BuildKeepsTypes DEF Typed
<1>4. CASE BitNot
  <2>1. PICK e : Build(1, e) /\ e.type = Promoted(Top.type) /\ e.ty = Top.ty
    BY <1>4 DEF BitNot, Expr
  <2>2. operands # <<>> /\ Typed(Top) /\ <<"not", Top.ty>> \notin SkippedOps
    BY <1>4 DEF BitNot
  <2>3. Promoted(Top.type) = Top.type
    BY <2>2, BitsAssumption DEF Typed, Promoted, AllTypes, Unpromoted
  <2> QED
    BY <2>1, <2>2, <2>3, BuildKeepsTypes DEF Typed
<1>5. CASE Not
  <2>1. PICK e : Build(1, e) /\ e.type = "int" /\ e.ty = "int"
    BY <1>5 DEF Not, Expr
  <2>2. operands # <<>>
    BY <1>5 DEF Not
  <2> QED
    BY <2>1, <2>2, BuildKeepsTypes DEF Typed, AllTypes
<1>6. ASSUME NEW op, Binary(op)
      PROVE  Inv'
  <2>1. Len(operands) = 2 /\ Typed(Below) /\ Typed(Top)
    BY <1>6 DEF Binary
  <2>2. Typed(BinaryOf(op, Below, Top)) /\ Build(2, BinaryOf(op, Below, Top))
    BY <1>6, <2>1, BinaryTyped DEF Binary
  <2> QED
    BY <2>1, <2>2, BuildKeepsTypes
<1>7. ASSUME NEW op \in DOMAIN Exchanged, Greater(op)
      PROVE  Inv'
  <2>1. Len(operands) = 2
    BY <1>7 DEF Greater
  <2>2. Exchanged[op] \in Comparison
    BY DEF Exchanged, Comparison
  <2>3. PICK e : Build(2, e) /\ e.type = "int" /\ e.ty = "int"
    BY <1>7, <2>2 DEF Greater, ArithmeticOf, Expr
  <2> QED
    BY <2>1, <2>3, BuildKeepsTypes DEF Typed, AllTypes
<1>8. CASE Comma
  <2>1. Len(operands) = 2 /\ Typed(Top) /\ Build(2, Top)
    BY <1>8 DEF Comma
  <2> QED
    BY <2>1, BuildKeepsTypes
<1>9. ASSUME NEW op, OpAssign(op)
       PROVE  Inv'
  <2>1. Len(operands) = 2 /\ Typed(Below)
    BY <1>9 DEF OpAssign
  <2>2. Typed(AssignOf(op, Below, Top)) /\ Build(2, AssignOf(op, Below, Top))
    BY <1>9, <2>1, StoredTyped DEF OpAssign, AssignOf, Typed
  <2> QED
    BY <2>1, <2>2, BuildKeepsTypes
<1>10. ASSUME NEW op, Prefix(op)
       PROVE  Inv'
  <2>1. operands # <<>> /\ Typed(Top)
    BY <1>10 DEF Prefix
  <2>2. Typed(AssignOf(op, Top, NumberOf("int", 1))) /\ Build(1, AssignOf(op, Top, NumberOf("int", 1)))
    BY <1>10, <2>1, StoredTyped DEF Prefix, AssignOf, Typed
  <2> QED
    BY <2>1, <2>2, BuildKeepsTypes
<1>11. ASSUME NEW addend, Postfix(addend)
       PROVE  Inv'
  <2>1. operands # <<>> /\ Typed(Top)
    BY <1>11 DEF Postfix
  <2>2. PICK e, v : Build(1, [CastOf(e, Top.ty) EXCEPT !.cval = v])
    BY <1>11 DEF Postfix
  <2>3. Typed([CastOf(e, Top.ty) EXCEPT !.cval = v])
    BY <2>1 DEF CastOf, Expr, Typed
  <2> QED
    BY <2>1, <2>2, <2>3, BuildKeepsTypes
<1>12. CASE Elvis
  <2> DEFINE t == UsualType(Below.type, Top.type)
             ty == get_common_type(Below.ty, Top.ty)
  <2>1. Len(operands) = 2
    BY <1>12 DEF Elvis
  <2>2. Typed(Below) /\ Typed(Top)
    BY <2>1
  <2>3. \A reg : LET tmp == [Stored(Below, Below.ty) EXCEPT !.reg = reg]
                IN  tmp.type = Below.type /\ tmp.ty = Below.ty
    BY <2>2 DEF Stored, CastOf, Expr, Typed
  <2>4. PICK e : Build(2, e) /\ e.type = t /\ e.ty = ty
    BY <1>12, <2>3 DEF Elvis, Expr
  <2>5. t = ty /\ t \in AllTypes
    BY <2>2, CommonTypeIsUsual DEF Typed
  <2> QED
    BY <2>1, <2>4, <2>5, BuildKeepsTypes DEF Typed
<1>13. CASE Test
  <2>1. operands' = <<>>
    BY <1>13 DEF Test
  <2>2. <<>> \in Seq({}) /\ DOMAIN <<>> = {}
    OBVIOUS
  <2>3. (\E S : operands \in Seq(S))'
    BY <2>1, <2>2
  <2> QED
    BY <2>1, <2>2, <2>3 DEF Inv, Typed
<1>14. CASE Cond
  <2> DEFINE t == UsualType(Below.type, Top.type)
             ty == get_common_type(Below.ty, Top.ty)
  <2>1. PICK e : Build(2, e) /\ e.type = t /\ e.ty = ty
    BY <1>14 DEF Cond, Expr
  <2>2. Len(operands) = 2
    BY <1>14 DEF Cond
  <2>3. Typed(Below) /\ Typed(Top)
    BY <2>2
  <2>4. t = ty /\ t \in AllTypes
    BY <2>3, CommonTypeIsUsual DEF Typed
  <2> QED
    BY <2>1, <2>2, <2>4, BuildKeepsTypes DEF Typed
<1>15. CASE LogAnd \/ LogOr
  <2>1. PICK e : Build(1, e) /\ e.type = "int" /\ e.ty = "int"
    BY <1>15 DEF LogAnd, LogOr, Expr
  <2>2. operands # <<>>
    BY <1>15 DEF LogAnd, LogOr
  <2> QED
    BY <2>1, <2>2, BuildKeepsTypes DEF Typed, AllTypes
<1> QED
  BY <1>1, <1>2, <1>3, <1>4, <1>5, <1>6, <1>7, <1>8, <1>9, <1>10, <1>11, <1>12, <1>13, <1>14, <1>15
  DEF Next

\* add_type() (type.c:344-499) gives every node its type in C, for all widths
\* with char < int < long; ~ and the shifts of _Bool and char, whose operand it
\* does not promote, are left out of the expressions.
THEOREM IntExprTypes ==
  ASSUME Unpromoted \subseteq SkippedOps
  PROVE  Spec => []TypeIsRight
<1>1. Init => Inv
  <2>1. <<>> \in Seq({}) /\ DOMAIN <<>> = {}
    OBVIOUS
  <2> QED
    BY <2>1 DEF Init, Inv
<1>2. Inv /\ [Next]_vars => Inv'
  <2>1. Inv /\ Next => Inv'
    BY StepKeepsTypes
  <2>2. Inv /\ UNCHANGED vars => Inv'
    BY DEF Inv, Typed, vars
  <2> QED
    BY <2>1, <2>2
<1>3. Inv => TypeIsRight
  BY DEF Inv, Typed, TypeIsRight
<1> QED
  BY <1>1, <1>2, <1>3, PTL DEF Spec

-----------------------------------------------------------------------------
(* Powers of two *)

\* A set of numbers has a smallest one: what inductions here rest on.
LEMMA Smallest ==
  ASSUME NEW T, T \subseteq Nat, T # {}
  PROVE  \E x \in T : \A y \in T : x <= y
<1> DEFINE R == {ss \in Nat \X Nat : ss[1] < ss[2]}
<1>1. IsWellFoundedOn(R, Nat)
  BY NatLessThanWellFounded DEF OpToRel
<1>2. PICK x \in T : \A y \in T : ~ (<<y, x>> \in R)
  <2> HIDE DEF R
  <2> QED BY <1>1, WFMin
<1>3. ASSUME NEW y \in T, y < x PROVE FALSE
  <2>1. <<y, x>> \in R
    BY <1>3
  <2> QED BY <2>1, <1>2
<1> QED BY <1>2, <1>3

LEMMA Climb ==
  ASSUME NEW n \in Nat, NEW T, 0 \in T, \A i \in 1 .. n : i - 1 \in T => i \in T
  PROVE  \A i \in 0 .. n : i \in T
<1> DEFINE U == {k \in 0 .. n : k \notin T}
<1> SUFFICES ASSUME U # {} PROVE FALSE
  OBVIOUS
<1>1. PICK k \in U : \A y \in U : k <= y
  <2>1. U \subseteq Nat
    OBVIOUS
  <2> HIDE DEF U
  <2> QED BY <2>1, Smallest
<1>2. k \in 1 .. n /\ k - 1 \in 0 .. n /\ k - 1 \notin U
  BY <1>1
<1> QED BY <1>2

\* A function that is defined by what it is one step before.
Steps(f, base, F, n) == f = [i \in 0 .. n |-> IF i = 0 THEN base ELSE F[i][f[i - 1]]]

LEMMA StepsExist ==
  ASSUME NEW n \in Nat, NEW base, NEW F
  PROVE  \E f : Steps(f, base, F, n)
<1> DEFINE T == {k \in 0 .. n : \E f : Steps(f, base, F, k)}
<1>1. 0 \in T
  <2> DEFINE f == [i \in 0 .. 0 |-> base]
  <2>1. Steps(f, base, F, 0)
    BY DEF Steps
  <2> QED BY <2>1
<1>2. ASSUME NEW k \in 1 .. n, k - 1 \in T PROVE k \in T
  <2>1. PICK f : Steps(f, base, F, k - 1)
    BY <1>2
  <2> DEFINE g == [i \in 0 .. k |-> IF i = k THEN F[k][f[k - 1]] ELSE f[i]]
  <2>2. ASSUME NEW i \in 0 .. k
        PROVE  g[i] = IF i = 0 THEN base ELSE F[i][g[i - 1]]
    <3>1. CASE i = k
      <4>1. g[k - 1] = f[k - 1] /\ g[k] = F[k][f[k - 1]]
        OBVIOUS
      <4> HIDE DEF g
      <4> QED BY <3>1, <4>1
    <3>2. CASE i # k
      <4>1. i \in 0 .. k - 1 /\ g[i] = f[i]
        BY <3>2
      <4>2. f[i] = IF i = 0 THEN base ELSE F[i][f[i - 1]]
        BY <4>1, <2>1 DEF Steps
      <4>3. i # 0 => g[i - 1] = f[i - 1]
        BY <4>1
      <4> HIDE DEF g
      <4> QED BY <4>1, <4>2, <4>3
    <3> QED BY <3>1, <3>2
  <2>3. Steps(g, base, F, k)
    <3> DEFINE h == [i \in 0 .. k |-> IF i = 0 THEN base ELSE F[i][g[i - 1]]]
    <3>1. g = h
      BY <2>2
    <3> QED BY <3>1 DEF Steps
  <2> QED BY <2>3
<1> HIDE DEF T
<1>3. n \in T
  BY <1>1, <1>2, Climb
<1> QED BY <1>3 DEF T

\* ... whose values are all in S.
LEMMA StepsIn ==
  ASSUME NEW n \in Nat, NEW S, NEW base \in S, NEW F,
         \A i \in 1 .. n : \A x \in S : F[i][x] \in S
  PROVE  \E f : Steps(f, base, F, n) /\ \A i \in 0 .. n : f[i] \in S
<1>1. PICK f : Steps(f, base, F, n)
  BY StepsExist
<1> DEFINE T == {k \in 0 .. n : f[k] \in S}
<1>2. f[0] = base /\ \A i \in 1 .. n : f[i] = F[i][f[i - 1]]
  BY <1>1 DEF Steps
<1>3. 0 \in T /\ \A i \in 1 .. n : i - 1 \in T => i \in T
  BY <1>2
<1> HIDE DEF T
<1>4. \A i \in 0 .. n : i \in T
  BY <1>3, Climb
<1> QED BY <1>1, <1>4 DEF T

LEMMA Widths ==
  /\ XLEN \in Nat
  /\ \A t \in AllTypes : Bits[t] \in 2 .. XLEN
  BY BitsAssumption DEF XLEN, AllTypes

LEMMA Pow2Is ==
  /\ \A n \in 0 .. XLEN : Pow2[n] \in Nat \ {0}
  /\ Pow2[0] = 1
  /\ \A n \in 1 .. XLEN : Pow2[n] = 2 * Pow2[n - 1]
<1> DEFINE F == [i \in 1 .. XLEN |-> [x \in Nat \ {0} |-> 2 * x]]
           Eq(g) == g = [n \in 0 .. XLEN |-> IF n = 0 THEN 1 ELSE 2 * g[n - 1]]
<1>0. XLEN \in Nat
  BY Widths
<1>1. \A i \in 1 .. XLEN : \A x \in Nat \ {0} : F[i][x] \in Nat \ {0}
  OBVIOUS
<1>2. PICK f : Steps(f, 1, F, XLEN) /\ \A i \in 0 .. XLEN : f[i] \in Nat \ {0}
  <2> HIDE DEF F
  <2>1. 1 \in Nat \ {0}
    OBVIOUS
  <2> QED BY <1>0, <1>1, <2>1, StepsIn
<1>3. f = [n \in 0 .. XLEN |-> IF n = 0 THEN 1 ELSE 2 * f[n - 1]]
  <2>1. f = [i \in 0 .. XLEN |-> IF i = 0 THEN 1 ELSE F[i][f[i - 1]]]
    BY <1>2 DEF Steps
  <2>2. ASSUME NEW i \in 0 .. XLEN, i # 0 PROVE F[i][f[i - 1]] = 2 * f[i - 1]
    <3>1. i \in 1 .. XLEN /\ i - 1 \in 0 .. XLEN
      BY <1>0, <2>2
    <3>2. f[i - 1] \in Nat \ {0}
      BY <1>2, <3>1
    <3> QED BY <3>1, <3>2
  <2> HIDE DEF F
  <2> QED BY <2>1, <2>2
<1>4. Eq(f)
  BY <1>3
<1>5. Eq(Pow2)
  <2>1. Pow2 = CHOOSE g : Eq(g)
    BY DEF Pow2
  <2> HIDE DEF Eq
  <2> QED BY <1>4, <2>1
<1>6. Pow2[0] = 1 /\ \A n \in 1 .. XLEN : Pow2[n] = 2 * Pow2[n - 1]
  BY <1>0, <1>5
<1> DEFINE T == {k \in 0 .. XLEN : Pow2[k] \in Nat \ {0}}
<1>7. 0 \in T /\ \A i \in 1 .. XLEN : i - 1 \in T => i \in T
  BY <1>0, <1>6
<1> HIDE DEF T
<1>8. \A i \in 0 .. XLEN : i \in T
  BY <1>0, <1>7, Climb
<1> QED BY <1>6, <1>8 DEF T

LEMMA Pow2Grows == \A n \in 0 .. XLEN : n < Pow2[n]
<1> DEFINE T == {k \in 0 .. XLEN : k < Pow2[k]}
<1>0. XLEN \in Nat
  BY Widths
<1>1. 0 \in T
  BY <1>0, Pow2Is
<1>2. ASSUME NEW i \in 1 .. XLEN, i - 1 \in T PROVE i \in T
  <2>1. Pow2[i] = 2 * Pow2[i - 1] /\ Pow2[i - 1] \in Nat /\ Pow2[i] \in Nat /\ i - 1 < Pow2[i - 1]
    BY <1>0, <1>2, Pow2Is
  <2> QED BY <1>0, <2>1
<1> HIDE DEF T
<1>3. \A i \in 0 .. XLEN : i \in T
  BY <1>0, <1>1, <1>2, Climb
<1> QED BY <1>3 DEF T

\* Of two powers of two, the smaller divides the larger.
LEMMA Pow2Divides ==
  ASSUME NEW m \in 0 .. XLEN, NEW n \in m .. XLEN
  PROVE  \E j \in Nat \ {0} : Pow2[n] = j * Pow2[m]
<1> DEFINE D(k) == \E j \in Nat \ {0} : Pow2[m + k] = j * Pow2[m]
           T == {k \in 0 .. n - m : D(k)}
<1>0. XLEN \in Nat /\ m \in Nat /\ n \in Nat /\ n - m \in Nat /\ Pow2[m] \in Nat
  BY Widths, Pow2Is
<1>1. 0 \in T
  <2>1. Pow2[m + 0] = 1 * Pow2[m]
    BY <1>0
  <2>2. D(0)
    BY <2>1
  <2> QED BY <1>0, <2>2
<1>2. ASSUME NEW i \in 1 .. n - m, i - 1 \in T PROVE i \in T
  <2>1. PICK j \in Nat \ {0} : Pow2[m + (i - 1)] = j * Pow2[m]
    BY <1>2
  <2>2. m + i \in 1 .. XLEN /\ m + i - 1 = m + (i - 1)
    BY <1>0
  <2>3. Pow2[m + i] = 2 * (j * Pow2[m])
    BY <2>1, <2>2, Pow2Is
  <2>4. Pow2[m + i] = (2 * j) * Pow2[m] /\ 2 * j \in Nat \ {0}
    BY <1>0, <2>3
  <2>5. D(i)
    BY <2>4
  <2> QED BY <2>5
<1> HIDE DEF T
<1>3. n - m \in T
  BY <1>0, <1>1, <1>2, Climb
<1>4. m + (n - m) = n
  BY <1>0
<1> QED BY <1>3, <1>4 DEF T

LEMMA Pow2Monotone ==
  ASSUME NEW m \in 0 .. XLEN, NEW n \in m .. XLEN
  PROVE  Pow2[m] <= Pow2[n]
<1>0. XLEN \in Nat /\ n \in 0 .. XLEN
  BY Widths
<1>1. PICK j \in Nat \ {0} : Pow2[n] = j * Pow2[m]
  BY Pow2Divides
<1>2. PICK p \in Nat \ {0} : p = Pow2[m]
  BY Pow2Is
<1>3. PICK i \in Nat : j = i + 1
  <2>1. j - 1 \in Nat /\ j = (j - 1) + 1
    OBVIOUS
  <2> QED BY <2>1
<1>4. j * p = i * p + p /\ i * p \in Nat
  BY <1>3
<1> QED BY <1>1, <1>2, <1>4

-----------------------------------------------------------------------------
(* Numbers that agree in their lowest w bits *)

LEMMA DivMod ==
  ASSUME NEW a \in Int, NEW b \in Nat \ {0}
  PROVE  /\ a \div b \in Int /\ a % b \in 0 .. b - 1
         /\ a = b * (a \div b) + (a % b)
  BY SMT

LEMMA DivUnique ==
  ASSUME NEW a \in Int, NEW b \in Nat \ {0}, NEW q \in Int, NEW r \in 0 .. b - 1,
         a = b * q + r
  PROVE  a \div b = q /\ a % b = r
<1> DEFINE p == a \div b
           s == a % b
<1>1. p \in Int /\ s \in 0 .. b - 1 /\ b * p + s = b * q + r
  BY DivMod
<1> HIDE DEF p, s
<1>2. ~(p >= q + 1)
  <2> SUFFICES ASSUME p >= q + 1 PROVE FALSE
    OBVIOUS
  <2>1. PICK d \in Nat : p = q + 1 + d
    <3> p - q - 1 \in Nat /\ p = q + 1 + (p - q - 1) BY <1>1
    <3> QED OBVIOUS
  <2>2. b * p = b * q + b + b * d
    BY <2>1, <1>1
  <2>3. b * d \in Nat
    OBVIOUS
  <2> QED BY <1>1, <2>2, <2>3
<1>3. ~(q >= p + 1)
  <2> SUFFICES ASSUME q >= p + 1 PROVE FALSE
    OBVIOUS
  <2>1. PICK d \in Nat : q = p + 1 + d
    <3> q - p - 1 \in Nat /\ q = p + 1 + (q - p - 1) BY <1>1
    <3> QED OBVIOUS
  <2>2. b * q = b * p + b + b * d
    BY <2>1, <1>1
  <2>3. b * d \in Nat
    OBVIOUS
  <2> QED BY <1>1, <2>2, <2>3
<1>4. p = q
  BY <1>1, <1>2, <1>3
<1> QED BY <1>1, <1>4 DEF p, s

Same(w, x, y) == \E k \in Int : x = y + k * Pow2[w]
SignedRange(w) == -Pow2[w - 1] .. Pow2[w - 1] - 1

LEMMA SameRefl ==
  ASSUME NEW w, NEW x, w \in 0 .. XLEN, x \in Int
  PROVE  Same(w, x, x)
<1>1. PICK p \in Nat \ {0} : p = Pow2[w]
  BY Pow2Is
<1>2. x = x + 0 * p
  OBVIOUS
<1> QED BY <1>1, <1>2 DEF Same

LEMMA SameSym ==
  ASSUME NEW w, NEW x, NEW y, w \in 0 .. XLEN, x \in Int, y \in Int, Same(w, x, y)
  PROVE  Same(w, y, x)
<1>1. PICK p \in Nat \ {0} : p = Pow2[w]
  BY Pow2Is
<1>2. PICK k \in Int : x = y + k * p
  BY <1>1 DEF Same
<1>3. y = x + (-k) * p /\ -k \in Int
  BY <1>2
<1> QED BY <1>1, <1>3 DEF Same

LEMMA SameTrans ==
  ASSUME NEW w, NEW x, NEW y, NEW z, w \in 0 .. XLEN, x \in Int, y \in Int, z \in Int,
         Same(w, x, y), Same(w, y, z)
  PROVE  Same(w, x, z)
<1>1. PICK p \in Nat \ {0} : p = Pow2[w]
  BY Pow2Is
<1>2. PICK k \in Int : x = y + k * p
  BY <1>1 DEF Same
<1>3. PICK j \in Int : y = z + j * p
  BY <1>1 DEF Same
<1>4. x = z + (k + j) * p /\ k + j \in Int
  BY <1>2, <1>3
<1> QED BY <1>1, <1>4 DEF Same

LEMMA SameWeaken ==
  ASSUME NEW w, NEW u, NEW x, NEW y, w \in 0 .. XLEN, u \in w .. XLEN, x \in Int, y \in Int,
         Same(u, x, y)
  PROVE  Same(w, x, y)
<1>1. PICK p \in Nat \ {0} : p = Pow2[w]
  BY Pow2Is
<1>2. PICK j \in Nat \ {0} : Pow2[u] = j * p
  BY <1>1, Pow2Divides
<1>3. PICK k \in Int : x = y + k * (j * p)
  BY <1>2 DEF Same
<1>4. x = y + (k * j) * p /\ k * j \in Int
  BY <1>3
<1> QED BY <1>1, <1>4 DEF Same

LEMMA SameAdd ==
  ASSUME NEW w, NEW x, NEW y, NEW a, NEW b, w \in 0 .. XLEN,
         x \in Int, y \in Int, a \in Int, b \in Int, Same(w, x, y), Same(w, a, b)
  PROVE  Same(w, x + a, y + b) /\ Same(w, x - a, y - b)
<1>1. PICK p \in Nat \ {0} : p = Pow2[w]
  BY Pow2Is
<1>2. PICK k \in Int : x = y + k * p
  BY <1>1 DEF Same
<1>3. PICK j \in Int : a = b + j * p
  BY <1>1 DEF Same
<1>4. x + a = (y + b) + (k + j) * p /\ k + j \in Int
  BY <1>2, <1>3
<1>5. x - a = (y - b) + (k - j) * p /\ k - j \in Int
  BY <1>2, <1>3
<1> QED BY <1>1, <1>4, <1>5 DEF Same

LEMMA SameMul ==
  ASSUME NEW w, NEW x, NEW y, NEW a, NEW b, w \in 0 .. XLEN,
         x \in Int, y \in Int, a \in Int, b \in Int, Same(w, x, y), Same(w, a, b)
  PROVE  Same(w, x * a, y * b)
<1>1. PICK p \in Nat \ {0} : p = Pow2[w]
  BY Pow2Is
<1>2. PICK k \in Int : x = y + k * p
  BY <1>1 DEF Same
<1>3. PICK j \in Int : a = b + j * p
  BY <1>1 DEF Same
<1>4. x * a = y * b + (y * j + k * b + (k * j) * p) * p /\ y * j + k * b + (k * j) * p \in Int
  BY <1>2, <1>3
<1> QED BY <1>1, <1>4 DEF Same

LEMMA SameLow ==
  ASSUME NEW w, NEW x, NEW y, w \in 0 .. XLEN, x \in Int, y \in Int, Same(w, x, y)
  PROVE  Low(w, x) = Low(w, y) /\ Extended(w, x) = Extended(w, y)
<1>1. PICK p \in Nat \ {0} : p = Pow2[w]
  BY Pow2Is
<1>2. PICK k \in Int : x = y + k * p
  BY <1>1 DEF Same
<1>3. PICK q, r : q = y \div p /\ r = y % p /\ q \in Int /\ r \in 0 .. p - 1 /\ y = p * q + r
  <2>1. y \div p \in Int /\ y % p \in 0 .. p - 1 /\ y = p * (y \div p) + (y % p)
    BY DivMod
  <2> QED BY <2>1, Zenon
<1>4. x = p * (q + k) + r /\ q + k \in Int
  BY <1>2, <1>3
<1>5. x % p = r
  BY <1>3, <1>4, DivUnique
<1>6. Low(w, x) = Low(w, y)
  BY <1>1, <1>3, <1>5 DEF Low
<1> QED BY <1>6 DEF Extended

LEMMA LowIs ==
  ASSUME NEW w, NEW x, w \in 0 .. XLEN, x \in Int
  PROVE  Low(w, x) \in 0 .. Pow2[w] - 1 /\ Low(w, x) \in Int /\ Same(w, Low(w, x), x)
<1>1. PICK p \in Nat \ {0} : p = Pow2[w]
  BY Pow2Is
<1>3. PICK q, r : q = x \div p /\ r = x % p /\ q \in Int /\ r \in 0 .. p - 1 /\ x = p * q + r
  <2>1. x \div p \in Int /\ x % p \in 0 .. p - 1 /\ x = p * (x \div p) + (x % p)
    BY DivMod
  <2> QED BY <2>1, Zenon
<1>4. r = x + (-q) * p /\ -q \in Int
  BY <1>3
<1>5. Low(w, x) = r
  BY <1>1, <1>3 DEF Low
<1> QED BY <1>1, <1>3, <1>4, <1>5 DEF Same

LEMMA ExtendedIs ==
  ASSUME NEW w, NEW x, w \in 1 .. XLEN, x \in Int
  PROVE  Extended(w, x) \in SignedRange(w) /\ Extended(w, x) \in Int /\ Same(w, Extended(w, x), x)
<1>0. XLEN \in Nat /\ w \in 0 .. XLEN /\ w - 1 \in 0 .. XLEN
  BY Widths
<1>1. PICK p \in Nat \ {0} : p = Pow2[w - 1]
  BY <1>0, Pow2Is
<1>2. Pow2[w] = 2 * p /\ 2 * p \in Nat
  BY <1>1, Pow2Is
<1>3. PICK u \in Int : u = Low(w, x) /\ u \in 0 .. Pow2[w] - 1 /\ Same(w, u, x)
  BY <1>0, LowIs
<1>4. Extended(w, x) = IF u < p THEN u ELSE u - 2 * p
  BY <1>1, <1>2, <1>3 DEF Extended
<1>5. Same(w, u - 2 * p, x)
  <2>1. PICK k \in Int : u = x + k * (2 * p)
    BY <1>2, <1>3 DEF Same
  <2>2. u - 2 * p = x + (k - 1) * (2 * p) /\ k - 1 \in Int
    BY <2>1
  <2> QED BY <1>2, <2>2 DEF Same
<1>6. CASE u < p
  <2>1. Extended(w, x) = u
    BY <1>4, <1>6
  <2> QED BY <1>1, <1>2, <1>3, <1>6, <2>1 DEF SignedRange
<1>7. CASE ~(u < p)
  <2>1. Extended(w, x) = u - 2 * p
    BY <1>4, <1>7
  <2>2. u - 2 * p \in -p .. p - 1
    BY <1>2, <1>3, <1>7
  <2> QED BY <1>1, <1>5, <2>1, <2>2 DEF SignedRange
<1> QED BY <1>6, <1>7

LEMMA LowFixed ==
  ASSUME NEW w, NEW x, w \in 0 .. XLEN, x \in 0 .. Pow2[w] - 1
  PROVE  Low(w, x) = x
<1>1. PICK p \in Nat \ {0} : p = Pow2[w]
  BY Pow2Is
<1>2. x \in 0 .. p - 1 /\ x = p * 0 + x
  BY <1>1
<1>3. x % p = x
  BY <1>2, DivUnique
<1> QED BY <1>1, <1>3 DEF Low

LEMMA ExtendedFixed ==
  ASSUME NEW w, NEW x, w \in 1 .. XLEN, x \in SignedRange(w)
  PROVE  Extended(w, x) = x
<1>0. XLEN \in Nat /\ w \in 0 .. XLEN /\ w - 1 \in 0 .. XLEN
  BY Widths
<1>1. PICK p \in Nat \ {0} : p = Pow2[w - 1]
  BY <1>0, Pow2Is
<1>2. Pow2[w] = 2 * p /\ x \in -p .. p - 1 /\ x \in Int
  BY <1>1, Pow2Is DEF SignedRange
<1>3. CASE x >= 0
  <2>1. Low(w, x) = x
    BY <1>0, <1>2, <1>3, LowFixed
  <2> QED BY <1>1, <1>2, <2>1 DEF Extended
<1>4. CASE x < 0
  <2>1. x + 2 * p \in 0 .. Pow2[w] - 1 /\ x + 2 * p \in Int /\ x + 2 * p = x + 1 * (2 * p) /\ 1 \in Int
    BY <1>2, <1>4
  <2>2. Same(w, x + 2 * p, x)
    BY <1>2, <2>1 DEF Same
  <2>3. Low(w, x) = x + 2 * p
    BY <1>0, <1>2, <2>1, <2>2, SameLow, LowFixed
  <2>4. ~(x + 2 * p < p) /\ (x + 2 * p) - 2 * p = x
    BY <1>2, <1>4
  <2> QED BY <1>1, <1>2, <2>3, <2>4 DEF Extended
<1> QED BY <1>2, <1>3, <1>4

\* Extending, or cutting off, what is already cut changes nothing of the bits.
LEMMA SameUnique ==
  ASSUME NEW w, NEW x, NEW y, Same(w, x, y), w \in 1 .. XLEN
  PROVE  /\ x \in SignedRange(w) /\ y \in Int => x = Extended(w, y)
         /\ x \in 0 .. Pow2[w] - 1 /\ y \in Int => x = Low(w, y)
         /\ x \in SignedRange(w) /\ y \in SignedRange(w) => x = y
         /\ x \in 0 .. Pow2[w] - 1 /\ y \in 0 .. Pow2[w] - 1 => x = y
<1>0. XLEN \in Nat /\ w \in 0 .. XLEN /\ w - 1 \in 0 .. XLEN
  BY Widths
<1>1. \A v \in SignedRange(w) : v \in Int
  BY DEF SignedRange
<1>2. \A v \in 0 .. Pow2[w] - 1 : v \in Int
  OBVIOUS
<1>3. x \in SignedRange(w) /\ y \in Int => x = Extended(w, y)
  BY <1>0, <1>1, SameLow, ExtendedFixed
<1>4. x \in 0 .. Pow2[w] - 1 /\ y \in Int => x = Low(w, y)
  BY <1>0, <1>2, SameLow, LowFixed
<1> QED BY <1>0, <1>1, <1>2, <1>3, <1>4, ExtendedFixed, LowFixed

-----------------------------------------------------------------------------
(* The values of a type *)

Wide == {"int", "uint", "long", "ulong"}

LEMMA TypeWidths ==
  /\ XLEN \in Nat /\ Bits["int"] \in 3 .. XLEN - 1 /\ Bits["char"] \in 2 .. Bits["int"] - 1
  /\ \A t \in AllTypes :
       /\ Bits[t] \in 2 .. XLEN /\ Bits[t] \in 1 .. XLEN /\ Bits[t] \in 0 .. XLEN
       /\ Bits[t] = IF t \in {"int", "uint"} THEN Bits["int"]
                    ELSE IF t \in {"long", "ulong"} THEN XLEN ELSE Bits["char"]
  BY BitsAssumption DEF XLEN, AllTypes

\* A power of two as two of the next smaller one.
LEMMA Half ==
  ASSUME NEW w, w \in 1 .. XLEN
  PROVE  /\ Pow2[w - 1] \in Nat \ {0} /\ Pow2[w] = 2 * Pow2[w - 1] /\ Pow2[w] \in Nat \ {0}
         /\ w > 1 => Pow2[w - 1] >= 2
<1>1. XLEN \in Nat /\ w \in 0 .. XLEN /\ w - 1 \in 0 .. XLEN
  BY Widths
<1>2. w - 1 < Pow2[w - 1]
  BY <1>1, Pow2Grows
<1>3. Pow2[w - 1] \in Nat \ {0} /\ Pow2[w] = 2 * Pow2[w - 1]
  BY <1>1, Pow2Is
<1> QED BY <1>1, <1>2, <1>3

LEMMA ValuesInt ==
  ASSUME NEW t, NEW v, t \in AllTypes, v \in Values(t)
  PROVE  v \in Int
<1>1. Pow2[Bits[t]] \in Int /\ Pow2[Bits[t] - 1] \in Int
  BY TypeWidths, Half
<1> QED BY <1>1 DEF Values

\* Which registers a type fits in, and which unsigned numbers of w bits.
LEMMA ValuesSigned ==
  ASSUME NEW t, NEW w, NEW v, t \in AllTypes, w \in 1 .. XLEN, v \in Values(t),
         Bits[t] < w \/ (Bits[t] = w /\ t \notin Unsigned)
  PROVE  v \in SignedRange(w)
<1>0. XLEN \in Nat /\ Bits[t] \in 2 .. XLEN /\ Bits[t] <= w
  BY TypeWidths
<1>1. PICK h : h = Pow2[Bits[t] - 1] /\ h \in Nat \ {0} /\ Pow2[Bits[t]] = 2 * h /\ h >= 2
  BY <1>0, Half
<1>2. PICK p : p = Pow2[w - 1] /\ p \in Nat \ {0}
  BY <1>0, Half
<1>3. h <= p
  <2>1. Bits[t] - 1 \in 0 .. XLEN /\ w - 1 \in (Bits[t] - 1) .. XLEN
    BY <1>0
  <2> QED BY <1>1, <1>2, <2>1, Pow2Monotone
<1>4. Bits[t] < w => 2 * h <= p
  <2> SUFFICES ASSUME Bits[t] < w PROVE 2 * h <= p
    OBVIOUS
  <2>1. Bits[t] \in 0 .. XLEN /\ w - 1 \in Bits[t] .. XLEN
    BY <1>0
  <2> QED BY <1>1, <1>2, <2>1, Pow2Monotone
<1>5. v \in -h .. h - 1 \/ (v \in 0 .. 2 * h - 1 /\ t \in Unsigned)
  <2>1. 0 .. 1 \subseteq -h .. h - 1
    BY <1>1
  <2> QED BY <1>1, <2>1 DEF Values
<1>6. v \in -p .. p - 1
  BY <1>1, <1>2, <1>3, <1>4, <1>5
<1> QED BY <1>2, <1>6 DEF SignedRange

LEMMA SignedValues ==
  ASSUME NEW t, t \in AllTypes, t \notin Unsigned, t # "bool"
  PROVE  Values(t) = SignedRange(Bits[t])
  BY DEF Values, SignedRange

LEMMA InTypeIs ==
  ASSUME NEW t, NEW v, t \in AllTypes, v \in Int
  PROVE  /\ InType(t, v) \in Values(t) /\ InType(t, v) \in Int
         /\ t # "bool" => Same(Bits[t], InType(t, v), v) /\ InWidth(t, v) = InType(t, v)
<1>0. Bits[t] \in 1 .. XLEN /\ Bits[t] \in 0 .. XLEN
  BY TypeWidths
<1>1. CASE t = "bool"
  <2>1. InType(t, v) = 0 \/ InType(t, v) = 1
    BY <1>1 DEF InType, Truth
  <2>2. Values(t) = 0 .. 1
    BY <1>1 DEF Values
  <2> QED BY <1>1, <2>1, <2>2
<1>2. CASE t # "bool" /\ t \in Unsigned
  <2>1. InType(t, v) = Low(Bits[t], v) /\ InWidth(t, v) = Low(Bits[t], v) /\ Values(t) = 0 .. Pow2[Bits[t]] - 1
    BY <1>2 DEF InType, InWidth, Values
  <2> QED BY <1>0, <1>2, <2>1, LowIs
<1>3. CASE t # "bool" /\ t \notin Unsigned
  <2>1. InType(t, v) = Extended(Bits[t], v) /\ InWidth(t, v) = Extended(Bits[t], v)
    BY <1>3 DEF InType, InWidth
  <2>2. Values(t) = SignedRange(Bits[t])
    BY <1>3, SignedValues
  <2> QED BY <1>0, <1>3, <2>1, <2>2, ExtendedIs
<1> QED BY <1>1, <1>2, <1>3

\* Two values of a type do not agree in all bits of the type.
LEMMA InTypeSame ==
  ASSUME NEW t, NEW x, NEW y, t \in AllTypes, t # "bool", x \in Int, y \in Int, Same(Bits[t], x, y)
  PROVE  InType(t, x) = InType(t, y) /\ (x \in Values(t) => x = InType(t, y))
<1>0. Bits[t] \in 1 .. XLEN /\ Bits[t] \in 0 .. XLEN
  BY TypeWidths
<1>1. InType(t, x) = InType(t, y)
  <2>1. Low(Bits[t], x) = Low(Bits[t], y) /\ Extended(Bits[t], x) = Extended(Bits[t], y)
    BY <1>0, SameLow
  <2> QED BY <2>1 DEF InType, InWidth
<1>2. x \in Values(t) => x = InType(t, y)
  <2> SUFFICES ASSUME x \in Values(t) PROVE x = InType(t, y)
    OBVIOUS
  <2>1. CASE t \in Unsigned
    <3>1. Values(t) = 0 .. Pow2[Bits[t]] - 1 /\ InType(t, y) = Low(Bits[t], y)
      BY <2>1 DEF Values, InType, InWidth, Unsigned
    <3> QED BY <1>0, <3>1, SameUnique
  <2>2. CASE t \notin Unsigned
    <3>1. InType(t, y) = Extended(Bits[t], y)
      BY <2>2 DEF InType, InWidth
    <3>2. x \in SignedRange(Bits[t])
      BY <2>2, SignedValues
    <3> QED BY <1>0, <3>1, <3>2, SameUnique
  <2> QED BY <2>1, <2>2
<1> QED BY <1>1, <1>2

LEMMA InTypeFixed ==
  ASSUME NEW t, NEW v, t \in AllTypes, v \in Values(t)
  PROVE  InType(t, v) = v
<1>0. v \in Int /\ Bits[t] \in 0 .. XLEN
  BY ValuesInt, TypeWidths
<1>1. CASE t = "bool"
  <2>1. v \in 0 .. 1
    BY <1>1 DEF Values
  <2>2. v = 0 \/ v = 1
    BY <2>1
  <2> QED BY <1>1, <2>2 DEF InType, Truth
<1>2. CASE t # "bool"
  <2>1. Same(Bits[t], v, v)
    BY <1>0, SameRefl
  <2> QED BY <1>0, <1>2, <2>1, InTypeSame
<1> QED BY <1>1, <1>2

\* Every type but unsigned long fits in a register as a signed number.
LEMMA InRegister ==
  ASSUME NEW t, NEW v, t \in AllTypes, v \in Values(t), t # "ulong"
  PROVE  v \in SignedRange(XLEN) /\ Extended(XLEN, v) = v
<1>0. XLEN \in Nat /\ XLEN \in 1 .. XLEN
  BY TypeWidths
<1>1. Bits[t] < XLEN \/ (Bits[t] = XLEN /\ t \notin Unsigned)
  BY TypeWidths DEF AllTypes, Unsigned
<1>2. v \in SignedRange(XLEN)
  BY <1>0, <1>1, ValuesSigned
<1> QED BY <1>0, <1>2, ExtendedFixed

\* A register that holds a value determines it.
LEMMA RegisterSame ==
  ASSUME NEW v, v \in Int
  PROVE  /\ Extended(XLEN, v) \in SignedRange(XLEN) /\ Extended(XLEN, v) \in Int
         /\ \A w \in 0 .. XLEN : Same(w, Extended(XLEN, v), v) /\ Same(w, v, Extended(XLEN, v))
<1>0. XLEN \in Nat /\ XLEN \in 1 .. XLEN /\ XLEN \in 0 .. XLEN
  BY TypeWidths
<1>1. Extended(XLEN, v) \in SignedRange(XLEN) /\ Extended(XLEN, v) \in Int /\ Same(XLEN, Extended(XLEN, v), v)
  BY <1>0, ExtendedIs
<1>2. ASSUME NEW w \in 0 .. XLEN
      PROVE  Same(w, Extended(XLEN, v), v) /\ Same(w, v, Extended(XLEN, v))
  <2>1. w \in 0 .. XLEN /\ XLEN \in w .. XLEN
    BY <1>0
  <2>2. Same(w, Extended(XLEN, v), v)
    BY <1>1, <2>1, SameWeaken
  <2> QED BY <1>1, <2>1, <2>2, SameSym
<1> QED BY <1>1, <1>2

LEMMA PromotedIs ==
  ASSUME NEW t, t \in AllTypes
  PROVE  /\ Promoted(t) \in Wide /\ Promoted(t) \in AllTypes /\ Promoted(t) # "bool"
         /\ \A v \in Values(t) : v \in Values(Promoted(t))
<1>1. Promoted(t) \in Wide /\ (t = Promoted(t) \/ (Promoted(t) = "int" /\ Bits[t] < Bits["int"]))
  BY TypeWidths DEF Promoted, Wide, AllTypes
<1>2. Promoted(t) \in AllTypes /\ Promoted(t) # "bool"
  BY <1>1 DEF Wide, AllTypes
<1>3. ASSUME NEW v \in Values(t), Promoted(t) = "int", Bits[t] < Bits["int"]
      PROVE  v \in Values(Promoted(t))
  <2>1. Bits["int"] \in 1 .. XLEN
    BY TypeWidths
  <2>2. v \in SignedRange(Bits["int"])
    BY <1>3, <2>1, ValuesSigned
  <2> QED BY <1>2, <1>3, <2>2, SignedValues DEF Unsigned
<1> QED BY <1>1, <1>2, <1>3

-----------------------------------------------------------------------------
(* Registers *)

\* The bits a register may hold for v: v with its sign extended, or, for an
\* unsigned int, its sign as an int extended.
Reg(reg, t, v) == reg = Extended(XLEN, v) \/ (t = "uint" /\ reg = Extended(Bits["int"], v))

LEMMA RegIs ==
  ASSUME NEW reg, NEW t, NEW v, t \in AllTypes, v \in Values(t), Reg(reg, t, v)
  PROVE  /\ v \in Int /\ reg \in Int /\ Same(Bits[t], reg, v) /\ Same(Bits[t], v, reg)
         /\ Same(Bits["int"], reg, v)
         /\ t # "uint" => reg = Extended(XLEN, v)
         /\ t \notin {"uint", "ulong"} => reg = v
<1>0. /\ v \in Int /\ Bits[t] \in 0 .. XLEN /\ Bits["int"] \in 1 .. XLEN /\ Bits["int"] \in 0 .. XLEN
      /\ (t = "uint" => Bits[t] = Bits["int"])
  BY ValuesInt, TypeWidths DEF AllTypes
<1>1. CASE reg = Extended(XLEN, v)
  BY <1>0, <1>1, RegisterSame, InRegister
<1>2. CASE t = "uint" /\ reg = Extended(Bits["int"], v)
  <2>1. reg \in Int /\ Same(Bits["int"], reg, v)
    BY <1>0, <1>2, ExtendedIs
  <2> QED BY <1>0, <1>2, <2>1, SameSym
<1> QED BY <1>1, <1>2 DEF Reg

\* A register is zero when the value is.
LEMMA RegZero ==
  ASSUME NEW reg, NEW t, NEW v, t \in AllTypes, v \in Values(t), Reg(reg, t, v)
  PROVE  reg = 0 <=> v = 0
<1>1. CASE t = "bool"
  BY <1>1, RegIs
<1>2. CASE t # "bool"
  <2>0. v \in Int /\ reg \in Int /\ 0 \in Int /\ Same(Bits[t], reg, v) /\ Same(Bits[t], v, reg)
        /\ Bits["int"] \in 1 .. XLEN /\ XLEN \in 1 .. XLEN
    BY RegIs, TypeWidths
  <2>1. ASSUME NEW u, u \in AllTypes PROVE 0 \in Values(u)
    <3>1. Pow2[Bits[u]] \in Nat \ {0} /\ Pow2[Bits[u] - 1] \in Nat \ {0}
      BY <2>1, TypeWidths, Half
    <3> QED BY <3>1 DEF Values
  <2>2. ASSUME reg = 0 PROVE v = 0
    BY <1>2, <2>0, <2>1, <2>2, InTypeSame
  <2>3. ASSUME v = 0 PROVE reg = 0
    <3>1. "int" \in AllTypes /\ "long" \in AllTypes /\ "int" \notin Unsigned /\ "long" \notin Unsigned
      BY DEF AllTypes, Unsigned
    <3>2. 0 \in SignedRange(Bits["int"]) /\ 0 \in SignedRange(Bits["long"])
      BY <2>1, <3>1, SignedValues
    <3>3. Extended(XLEN, 0) = 0 /\ Extended(Bits["int"], 0) = 0
      BY <2>0, <3>2, ExtendedFixed DEF XLEN
    <3> QED BY <2>3, <3>3 DEF Reg
  <2> QED BY <2>2, <2>3
<1> QED BY <1>1, <1>2

\* What was cut to the width of a promoted type, with its sign extended.
LEMMA RegOfExtended ==
  ASSUME NEW t, NEW v, NEW z, t \in Wide, v \in Values(t), z \in Int, Same(Bits[t], z, v)
  PROVE  Reg(Extended(Bits[t], z), t, v)
<1>0. /\ t \in AllTypes /\ Bits[t] \in 1 .. XLEN /\ Bits[t] \in 0 .. XLEN
      /\ t \in {"int", "uint"} => Bits[t] = Bits["int"]
      /\ t \in {"long", "ulong"} => Bits[t] = XLEN
  BY TypeWidths DEF Wide, AllTypes
<1>1. v \in Int
  BY <1>0, ValuesInt
<1>2. Extended(Bits[t], z) = Extended(Bits[t], v)
  BY <1>0, <1>1, SameLow
<1>3. CASE t = "int"
  <2>1. v \in SignedRange(Bits[t])
    BY <1>0, <1>3, SignedValues DEF Unsigned
  <2>2. Extended(Bits[t], v) = v /\ Extended(XLEN, v) = v
    BY <1>0, <1>3, <2>1, ExtendedFixed, InRegister
  <2> QED BY <1>2, <2>2 DEF Reg
<1>4. CASE t # "int"
  BY <1>0, <1>2, <1>4 DEF Reg, Wide
<1> QED BY <1>3, <1>4

\* A value that agrees in all bits with the register, where an int must not
\* overflow.
LEMMA RegOfWide ==
  ASSUME NEW t, NEW v, NEW z, t \in {"int", "long", "ulong"}, v \in Int, z \in Int,
         t = "int" => v \in Values("int"), Same(XLEN, z, v)
  PROVE  Extended(XLEN, z) = Extended(XLEN, InType(t, v))
<1>0. XLEN \in Nat /\ XLEN \in 0 .. XLEN /\ t \in AllTypes /\ (t # "int" => Bits[t] = XLEN)
  BY TypeWidths DEF AllTypes
<1>1. Extended(XLEN, z) = Extended(XLEN, v)
  BY <1>0, SameLow
<1>2. Extended(XLEN, v) = Extended(XLEN, InType(t, v))
  <2>1. CASE t = "int"
    <3>1. InType(t, v) = v
      BY <1>0, <2>1, InTypeFixed
    <3> QED BY <3>1
  <2>2. CASE t # "int"
    <3>1. Same(XLEN, InType(t, v), v) /\ InType(t, v) \in Int
      BY <1>0, <2>2, InTypeIs
    <3> QED BY <1>0, <3>1, SameLow
  <2> QED BY <2>1, <2>2
<1> QED BY <1>1, <1>2

LEMMA TruthValue ==
  ASSUME NEW b, b \in BOOLEAN
  PROVE  /\ Truth(b) \in Values("int") /\ Truth(b) = Extended(XLEN, Truth(b)) /\ Truth(b) \in Values("bool")
         /\ (Truth(b) # 0 <=> b) /\ Truth(b) \in {0, 1}
<1>1. Truth(b) \in 0 .. 1 /\ (Truth(b) # 0 <=> b) /\ Truth(b) \in {0, 1}
  BY DEF Truth
<1>2. Truth(b) \in Values("bool") /\ "bool" \in AllTypes /\ "int" \in AllTypes
  BY <1>1 DEF Values, AllTypes
<1>3. Bits["bool"] < Bits["int"] /\ Bits["int"] \in 1 .. XLEN
  BY TypeWidths DEF AllTypes
<1>4. Truth(b) \in SignedRange(Bits["int"])
  BY <1>2, <1>3, ValuesSigned
<1>5. Truth(b) \in Values("int")
  BY <1>2, <1>4, SignedValues DEF Unsigned
<1>6. Truth(b) = Extended(XLEN, Truth(b))
  BY <1>2, InRegister
<1> QED BY <1>1, <1>2, <1>5, <1>6

\* A cast of codegen.c makes of the register of a value the register of the
\* value converted, whether it is an instruction or nothing; but for a cast of an
\* unsigned int to its own type, its sign is extended to all bits.
LEMMA CastIs ==
  ASSUME NEW from, NEW to, NEW reg, NEW v, from \in AllTypes, to \in AllTypes, v \in Values(from),
         Reg(reg, from, v), <<from, to>> \notin WeakCasts
  PROVE  /\ Reg(cast(from, to, reg), to, InType(to, v))
         /\ from # "uint" \/ to # "uint" => cast(from, to, reg) = Extended(XLEN, InType(to, v))
<1>0. v \in Int /\ reg \in Int /\ Same(Bits["int"], reg, v) /\ (from # "uint" => reg = Extended(XLEN, v))
      /\ (from \notin {"uint", "ulong"} => reg = v)
  BY RegIs
<1>1. ASSUME to = "bool"
      PROVE  cast(from, to, reg) = Extended(XLEN, InType(to, v))
  <2>1. reg = 0 <=> v = 0
    BY RegZero
  <2>2. cast(from, to, reg) = Truth(v # 0) /\ InType(to, v) = Truth(v # 0)
    BY <1>1, <2>1 DEF cast, InType
  <2> QED BY <2>2, TruthValue
<1>2. ASSUME to \in {"long", "ulong"}, from # "uint" \/ to # "uint"
      PROVE  cast(from, to, reg) = Extended(XLEN, InType(to, v))
  <2>1. from # "uint" /\ <<from, to>> \in Moves /\ to # "bool"
    BY <1>2 DEF WeakCasts, Moves, AllTypes
  <2>2. cast(from, to, reg) = Extended(XLEN, v)
    BY <1>0, <2>1 DEF cast
  <2>3. Same(XLEN, v, v)
    BY <1>0, TypeWidths, SameRefl
  <2> QED BY <1>0, <1>2, <2>2, <2>3, RegOfWide
<1>3. ASSUME to \notin {"bool", "long", "ulong"} /\ <<from, to>> \in Moves, from # "uint" \/ to # "uint"
      PROVE  cast(from, to, reg) = Extended(XLEN, InType(to, v))
  <2>1. /\ from \notin {"uint", "ulong"}
        /\ \/ from \in {"char", "uchar", "int"} /\ to = "int"
           \/ from = "uchar" /\ to \in {"uchar", "uint"}
           \/ from = "char" /\ to = "char"
    BY <1>3 DEF WeakCasts, Moves
  <2>2. cast(from, to, reg) = v
    BY <1>0, <1>3, <2>1 DEF cast
  <2>3. v \in Values(to)
    <3>1. CASE to = "int" /\ from # "int"
      <4>1. Promoted(from) = "int"
        BY <2>1, <3>1, TypeWidths DEF Promoted, AllTypes
      <4> QED BY <3>1, <4>1, PromotedIs
    <3>2. CASE to = "uint" /\ from = "uchar"
      <4>1. Promoted(from) = "int"
        BY <3>2, TypeWidths DEF Promoted, AllTypes
      <4>2. v \in Values("int") /\ v >= 0
        BY <1>0, <3>2, <4>1, PromotedIs, TypeWidths, Half DEF Values, Unsigned
      <4>3. PICK p : p = Pow2[Bits["int"] - 1] /\ p \in Nat /\ Pow2[Bits["int"]] = 2 * p
        BY TypeWidths, Half
      <4>4. Bits["uint"] = Bits["int"]
        BY TypeWidths DEF AllTypes
      <4> QED BY <1>0, <3>2, <4>2, <4>3, <4>4 DEF Values, Unsigned
    <3> QED BY <2>1, <3>1, <3>2
  <2>4. InType(to, v) = v
    BY <2>3, InTypeFixed
  <2>5. Extended(XLEN, v) = v
    BY <2>1, InRegister
  <2> QED BY <2>2, <2>4, <2>5
<1>4. ASSUME to \notin {"bool", "long", "ulong"} /\ <<from, to>> \notin Moves
      PROVE  cast(from, to, reg) = Extended(XLEN, InType(to, v))
  <2>1. cast(from, to, reg) = InType(to, reg)
    BY <1>4 DEF cast, InType
  <2>2. Bits[to] \in 0 .. XLEN /\ Bits["int"] \in Bits[to] .. XLEN /\ to # "bool" /\ to # "ulong"
    BY <1>4, TypeWidths DEF AllTypes
  <2>3. Same(Bits[to], reg, v)
    BY <1>0, <2>2, SameWeaken
  <2>4. InType(to, reg) = InType(to, v)
    BY <1>0, <2>2, <2>3, InTypeSame
  <2>5. InType(to, v) \in Values(to)
    BY <1>0, InTypeIs
  <2>6. Extended(XLEN, InType(to, v)) = InType(to, v)
    BY <2>2, <2>5, InRegister
  <2> QED BY <2>1, <2>4, <2>6
<1>5. from # "uint" \/ to # "uint" => cast(from, to, reg) = Extended(XLEN, InType(to, v))
  BY <1>1, <1>2, <1>3, <1>4
<1>6. CASE from = "uint" /\ to = "uint"
  <2>1. cast(from, to, reg) = reg
    BY <1>6 DEF cast, Moves
  <2> QED BY <1>6, <2>1, InTypeFixed
<1> QED BY <1>5, <1>6 DEF Reg

\* A load, and the extension of what a call returns, leave the value of a
\* variable as it is.
LEMMA WidthIs ==
  ASSUME NEW t, NEW v, t \in AllTypes, v \in Values(t)
  PROVE  InWidth(t, v) = v /\ InWidth(t, Extended(XLEN, v)) = v
<1>0. v \in Int /\ Extended(XLEN, v) \in Int /\ Bits[t] \in 0 .. XLEN /\ Bits[t] \in 1 .. XLEN
      /\ Same(Bits[t], Extended(XLEN, v), v)
  BY ValuesInt, TypeWidths, RegisterSame
<1>1. CASE t = "bool"
  <2>1. v = Extended(XLEN, v)
    BY <1>1, InRegister
  <2>2. v \in SignedRange(Bits[t])
    <3>1. Bits[t] > 1
      BY TypeWidths
    <3>2. Pow2[Bits[t] - 1] \in Nat /\ Pow2[Bits[t] - 1] >= 2
      BY <1>0, <3>1, Half
    <3>3. v \in 0 .. 1
      BY <1>1 DEF Values
    <3> QED BY <3>2, <3>3 DEF SignedRange
  <2>3. InWidth(t, v) = v
    BY <1>0, <1>1, <2>2, ExtendedFixed DEF InWidth, Unsigned
  <2> QED BY <2>1, <2>3
<1>2. CASE t # "bool"
  <2>1. InType(t, Extended(XLEN, v)) = InType(t, v) /\ InType(t, v) = v
    BY <1>0, <1>2, InTypeSame, InTypeFixed
  <2> QED BY <1>0, <1>2, <2>1, InTypeIs
<1> QED BY <1>1, <1>2

-----------------------------------------------------------------------------
(* Constants *)

\* eval2() of an expression of type t with value v.
Const(c, t, v) == c # <<>> => t \notin {"bool", "uint"} /\ c = <<Extended(XLEN, v)>>

LEMMA EvalCastIs ==
  ASSUME FoldedTypes \cap {"bool", "uint"} = {},
         NEW from, NEW to, NEW c, NEW v, from \in AllTypes, to \in AllTypes, v \in Values(from),
         Const(c, from, v)
  PROVE  Const(EvalCast(to, c), to, InType(to, v))
<1> SUFFICES ASSUME c # <<>>, to \in FoldedTypes
             PROVE  /\ to \notin {"bool", "uint"}
                    /\ EvalCast(to, c) = <<Extended(XLEN, InType(to, v))>>
  BY DEF EvalCast, Const
<1>0. to \notin {"bool", "uint"} /\ v \in Int /\ Bits[to] \in 0 .. XLEN
  BY ValuesInt, TypeWidths
<1>1. c = <<Extended(XLEN, v)>> /\ c[1] = Extended(XLEN, v)
  BY DEF Const
<1>2. CASE Bits[to] = XLEN
  <2>1. to \in {"long", "ulong"}
    BY <1>2, TypeWidths DEF AllTypes
  <2>2. Same(XLEN, v, v)
    BY <1>0, TypeWidths, SameRefl
  <2>3. Extended(XLEN, v) = Extended(XLEN, InType(to, v))
    BY <1>0, <2>1, <2>2, RegOfWide
  <2> QED BY <1>0, <1>1, <1>2, <2>3 DEF EvalCast
<1>3. CASE Bits[to] # XLEN
  <2>1. to # "ulong"
    BY <1>3, TypeWidths DEF AllTypes
  <2>2. Extended(XLEN, v) \in Int /\ Same(Bits[to], Extended(XLEN, v), v)
    BY <1>0, RegisterSame
  <2>3. InWidth(to, Extended(XLEN, v)) = InType(to, v) /\ InType(to, v) \in Values(to)
    BY <1>0, <2>2, InTypeSame, InTypeIs
  <2>4. Extended(XLEN, InType(to, v)) = InType(to, v)
    BY <2>1, <2>3, InRegister
  <2> QED BY <1>0, <1>1, <1>3, <2>3, <2>4 DEF EvalCast
<1> QED BY <1>2, <1>3

-----------------------------------------------------------------------------
(* Division towards zero *)

LEMMA QuotientIs ==
  ASSUME NEW x, NEW y, x \in Int, y \in Int, y # 0
  PROVE  /\ Quotient(x, y) \in Int /\ Remainder(x, y) \in Int
         /\ Remainder(x, y) \in -(Magnitude(y) - 1) .. Magnitude(y) - 1
<1>1. PICK a : a = Magnitude(x) /\ a \in Nat /\ (x = a \/ (x < 0 /\ x = -a))
  BY DEF Magnitude
<1>2. PICK b : b = Magnitude(y) /\ b \in Nat \ {0} /\ (y = b \/ (y < 0 /\ y = -b))
  BY DEF Magnitude
<1>3. PICK q, r : q = a \div b /\ q \in Int /\ r \in 0 .. b - 1 /\ a = b * q + r
  <2>0. a \in Int
    BY <1>1
  <2>1. a \div b \in Int /\ a % b \in 0 .. b - 1 /\ a = b * (a \div b) + (a % b)
    BY <1>2, <2>0, DivMod
  <2> QED BY <2>1, Zenon
<1>4. PICK s \in {1, -1} : Quotient(x, y) = s * q /\ ((x = a /\ y = s * b) \/ (x = -a /\ y = -(s * b)))
  <2>1. Quotient(x, y) = IF (x < 0) = (y < 0) THEN q ELSE -q
    BY <1>1, <1>2, <1>3 DEF Quotient
  <2>2. CASE x < 0 /\ y < 0
    <3>1. Quotient(x, y) = 1 * q /\ x = -a /\ y = -(1 * b)
      BY <2>1, <2>2, <1>1, <1>2, <1>3
    <3> QED BY <3>1
  <2>3. CASE ~(x < 0) /\ ~(y < 0)
    <3>1. Quotient(x, y) = 1 * q /\ x = a /\ y = 1 * b
      BY <2>1, <2>3, <1>1, <1>2, <1>3
    <3> QED BY <3>1
  <2>4. CASE x < 0 /\ ~(y < 0)
    <3>1. Quotient(x, y) = (-1) * q /\ x = -a /\ y = -((-1) * b)
      BY <2>1, <2>4, <1>1, <1>2, <1>3
    <3> QED BY <3>1
  <2>5. CASE ~(x < 0) /\ y < 0
    <3>1. Quotient(x, y) = (-1) * q /\ x = a /\ y = (-1) * b
      BY <2>1, <2>5, <1>1, <1>2, <1>3
    <3> QED BY <3>1
  <2> QED BY <2>2, <2>3, <2>4, <2>5
<1>5. y * Quotient(x, y) = IF x = a THEN b * q ELSE -(b * q)
  <2>1. CASE x = a /\ y = s * b
    <3>1. y * Quotient(x, y) = b * q
      BY <1>2, <1>3, <1>4, <2>1
    <3> QED BY <2>1, <3>1
  <2>2. CASE x = -a /\ y = -(s * b)
    <3>1. y * Quotient(x, y) = -(b * q)
      BY <1>2, <1>3, <1>4, <2>2
    <3>2. x = a => a = 0
      BY <1>1, <2>2
    <3>3. a = 0 => b * q = 0
      <4> SUFFICES ASSUME a = 0 PROVE b * q = 0
        OBVIOUS
      <4>1. a = b * 0 + 0 /\ 0 \in 0 .. b - 1
        BY <1>2
      <4>2. q = 0
        BY <1>1, <1>2, <1>3, <4>1, DivUnique
      <4> QED BY <1>2, <4>2
    <3> QED BY <2>2, <3>1, <3>2, <3>3
  <2> QED BY <1>4, <2>1, <2>2
<1>6. Remainder(x, y) = r \/ Remainder(x, y) = -r
  <2>1. b * q \in Int
    BY <1>2, <1>3
  <2> QED BY <1>1, <1>3, <1>5, <2>1 DEF Remainder
<1>7. Quotient(x, y) \in Int
  <2>1. s \in Int
    OBVIOUS
  <2>2. s * q \in Int
    BY <1>3, <2>1
  <2> QED BY <1>4, <2>2
<1>8. r \in Int /\ -r \in Int /\ r \in -(b - 1) .. b - 1 /\ -r \in -(b - 1) .. b - 1
  BY <1>2, <1>3
<1> QED BY <1>2, <1>6, <1>7, <1>8

-----------------------------------------------------------------------------
(* Bits *)

LEMMA BitIs ==
  ASSUME NEW x, NEW i, x \in Int, i \in 0 .. XLEN
  PROVE  Bit(x, i) \in {0, 1}
<1>1. PICK p \in Nat \ {0} : p = Pow2[i]
  BY Pow2Is
<1>2. x \div p \in Int
  BY DivMod
<1>3. (x \div p) % 2 \in 0 .. 2 - 1
  BY <1>2
<1> QED BY <1>1, <1>3 DEF Bit

LEMMA BitSame ==
  ASSUME NEW w, NEW x, NEW y, NEW i, w \in 0 .. XLEN, x \in Int, y \in Int, i \in 0 .. w - 1, Same(w, x, y)
  PROVE  Bit(x, i) = Bit(y, i)
<1>0. XLEN \in Nat /\ i \in 0 .. XLEN /\ i + 1 \in 1 .. XLEN /\ i + 1 \in 0 .. XLEN /\ w \in i + 1 .. XLEN
      /\ (i + 1) - 1 = i
  BY TypeWidths
<1>1. PICK p : p = Pow2[i] /\ p \in Nat \ {0} /\ Pow2[i + 1] = 2 * p
  BY <1>0, Pow2Is
<1>2. PICK j \in Nat \ {0} : Pow2[w] = j * (2 * p)
  BY <1>0, <1>1, Pow2Divides
<1>3. PICK k \in Int : x = y + k * (j * (2 * p))
  BY <1>2 DEF Same
<1>4. PICK q, r : q = y \div p /\ q \in Int /\ r \in 0 .. p - 1 /\ y = p * q + r
  <2>1. y \div p \in Int /\ y % p \in 0 .. p - 1 /\ y = p * (y \div p) + (y % p)
    BY <1>1, DivMod
  <2> QED BY <2>1, Zenon
<1>5. PICK m \in Int : m = k * j
  BY <1>3
<1>6. x = p * (q + 2 * m) + r /\ q + 2 * m \in Int
  <2>1. k * (j * (2 * p)) = (k * j) * (2 * p)
    BY <1>1
  <2>2. x = p * q + r + m * (2 * p)
    BY <1>3, <1>4, <1>5, <2>1
  <2> QED BY <1>1, <1>4, <2>2
<1>7. x \div p = q + 2 * m
  BY <1>1, <1>4, <1>6, DivUnique
<1>8. PICK h, b : h \in Int /\ b \in 0 .. 2 - 1 /\ b = q % 2 /\ q = 2 * h + b
  <2>1. q \div 2 \in Int /\ q % 2 \in 0 .. 2 - 1 /\ q = 2 * (q \div 2) + (q % 2)
    BY <1>4
  <2> QED BY <2>1, Zenon
<1>9. q + 2 * m = 2 * (h + m) + b /\ h + m \in Int
  BY <1>4, <1>8
<1>10. (q + 2 * m) % 2 = b
  BY <1>6, <1>8, <1>9, DivUnique
<1> QED BY <1>1, <1>4, <1>7, <1>8, <1>10 DEF Bit

LEMMA BitZero ==
  ASSUME NEW x, NEW w, NEW i, w \in 0 .. XLEN, x \in 0 .. Pow2[w] - 1, i \in w .. XLEN
  PROVE  Bit(x, i) = 0
<1>0. XLEN \in Nat /\ i \in 0 .. XLEN
  BY TypeWidths
<1>1. PICK p : p = Pow2[i] /\ p \in Nat \ {0} /\ Pow2[w] <= p
  BY <1>0, Pow2Is, Pow2Monotone
<1>2. Pow2[w] \in Nat
  BY Pow2Is
<1>3. x \in 0 .. p - 1 /\ x \in Int /\ x = p * 0 + x
  BY <1>1, <1>2
<1>4. x \div p = 0
  BY <1>1, <1>3, DivUnique
<1>5. 0 % 2 = 0
  OBVIOUS
<1> QED BY <1>1, <1>4, <1>5 DEF Bit

Added(op, x, y, n) == IF Joined(op, Bit(x, n - 1), Bit(y, n - 1)) THEN Pow2[n - 1] ELSE 0

LEMMA LowBitsIs ==
  ASSUME NEW op, NEW x, NEW y
  PROVE  /\ LowBits(op, x, y)[0] = 0
         /\ \A n \in 1 .. XLEN : /\ LowBits(op, x, y)[n] = LowBits(op, x, y)[n - 1] + Added(op, x, y, n)
                                 /\ Added(op, x, y, n) \in {0, Pow2[n - 1]}
         /\ \A n \in 0 .. XLEN : LowBits(op, x, y)[n] \in Nat
<1>0. XLEN \in Nat
  BY Widths
<1> DEFINE F == [i \in 1 .. XLEN |-> [s \in Nat |-> s + Added(op, x, y, i)]]
           Eq(g) == g = [n \in 0 .. XLEN |-> IF n = 0 THEN 0 ELSE g[n - 1] + Added(op, x, y, n)]
<1>1. \A i \in 1 .. XLEN : Added(op, x, y, i) \in {0, Pow2[i - 1]} /\ Added(op, x, y, i) \in Nat
  <2>1. \A i \in 1 .. XLEN : Pow2[i - 1] \in Nat
    BY <1>0, Pow2Is
  <2> QED BY <2>1 DEF Added
<1>2. \A i \in 1 .. XLEN : \A s \in Nat : F[i][s] \in Nat
  BY <1>1
<1>3. PICK f : Steps(f, 0, F, XLEN) /\ \A i \in 0 .. XLEN : f[i] \in Nat
  <2> HIDE DEF F
  <2>1. 0 \in Nat
    OBVIOUS
  <2> QED BY <1>0, <1>2, <2>1, StepsIn
<1>4. Eq(f)
  <2>1. f = [i \in 0 .. XLEN |-> IF i = 0 THEN 0 ELSE F[i][f[i - 1]]]
    BY <1>3 DEF Steps
  <2>2. ASSUME NEW i \in 0 .. XLEN, i # 0 PROVE F[i][f[i - 1]] = f[i - 1] + Added(op, x, y, i)
    <3>1. i \in 1 .. XLEN /\ i - 1 \in 0 .. XLEN
      BY <1>0, <2>2
    <3>2. f[i - 1] \in Nat
      BY <1>3, <3>1
    <3> QED BY <3>1, <3>2
  <2> HIDE DEF F
  <2> QED BY <2>1, <2>2
<1>5. Eq(LowBits(op, x, y))
  <2>1. LowBits(op, x, y) = CHOOSE g : Eq(g)
    BY DEF LowBits, Added
  <2> HIDE DEF Eq
  <2> QED BY <1>4, <2>1
<1>6. LowBits(op, x, y)[0] = 0
      /\ \A n \in 1 .. XLEN : LowBits(op, x, y)[n] = LowBits(op, x, y)[n - 1] + Added(op, x, y, n)
  BY <1>0, <1>5
<1> DEFINE T == {k \in 0 .. XLEN : LowBits(op, x, y)[k] \in Nat}
<1>7. 0 \in T /\ \A i \in 1 .. XLEN : i - 1 \in T => i \in T
  BY <1>0, <1>1, <1>6
<1> HIDE DEF T
<1>8. \A i \in 0 .. XLEN : i \in T
  BY <1>0, <1>7, Climb
<1> QED BY <1>1, <1>6, <1>8 DEF T

LEMMA LowBitsSame ==
  ASSUME NEW op, NEW w, NEW x, NEW y, NEW a, NEW b, w \in 0 .. XLEN,
         x \in Int, y \in Int, a \in Int, b \in Int, Same(w, a, x), Same(w, b, y)
  PROVE  LowBits(op, a, b)[w] = LowBits(op, x, y)[w]
<1>0. XLEN \in Nat /\ w \in Nat
  BY Widths
<1>1. \A i \in 0 .. w - 1 : Bit(a, i) = Bit(x, i) /\ Bit(b, i) = Bit(y, i)
  BY BitSame
<1>2. \A n \in 1 .. w : n - 1 \in 0 .. w - 1 /\ n \in 1 .. XLEN
  BY <1>0
<1>3. \A n \in 1 .. w : Added(op, a, b, n) = Added(op, x, y, n)
  BY <1>1, <1>2 DEF Added
<1> DEFINE T == {k \in 0 .. w : LowBits(op, a, b)[k] = LowBits(op, x, y)[k]}
<1>4. 0 \in T /\ \A i \in 1 .. w : i - 1 \in T => i \in T
  BY <1>0, <1>2, <1>3, LowBitsIs
<1> HIDE DEF T
<1>5. \A i \in 0 .. w : i \in T
  BY <1>0, <1>4, Climb
<1> QED BY <1>0, <1>5 DEF T

\* The bits of numbers of w bits are joined to a number of w bits.
LEMMA LowBitsRange ==
  ASSUME NEW op, NEW x, NEW y, NEW w, op \in Logical, w \in 0 .. XLEN,
         x \in 0 .. Pow2[w] - 1, y \in 0 .. Pow2[w] - 1
  PROVE  LowBits(op, x, y)[XLEN] \in 0 .. Pow2[w] - 1
<1>0. XLEN \in Nat /\ Pow2[w] \in Nat \ {0} /\ w \in Int
  BY Widths, Pow2Is
<1>1. \A i \in w .. XLEN : Bit(x, i) = 0 /\ Bit(y, i) = 0
  BY BitZero
<1>2. ~Joined(op, 0, 0)
  <2>1. CASE op = "and"
    BY <2>1 DEF Joined
  <2>2. CASE op = "or"
    BY <2>2 DEF Joined
  <2>3. CASE op = "xor"
    BY <2>3 DEF Joined
  <2> QED BY <2>1, <2>2, <2>3 DEF Logical
<1> DEFINE L == LowBits(op, x, y)
           T == {k \in 0 .. XLEN : L[k] < Pow2[k] /\ (w <= k => L[k] < Pow2[w])}
<1>3. 0 \in T
  <2>1. L[0] = 0 /\ Pow2[0] = 1
    BY LowBitsIs, Pow2Is
  <2> QED BY <1>0, <2>1
<1>4. ASSUME NEW i \in 1 .. XLEN, i - 1 \in T PROVE i \in T
  <2>1. PICK l, m, d, p : /\ l = L[i] /\ m = L[i - 1] /\ d = Added(op, x, y, i) /\ p = Pow2[i - 1]
                          /\ l = m + d /\ d \in {0, p} /\ m \in Nat
    BY <1>0, LowBitsIs
  <2>2. Pow2[i] = 2 * p /\ p \in Nat
    BY <1>0, <2>1, Pow2Is
  <2>3. m < p /\ (w <= i - 1 => m < Pow2[w])
    BY <1>4, <2>1
  <2>4. l < Pow2[i]
    BY <2>1, <2>2, <2>3
  <2>5. w <= i => l < Pow2[w]
    <3>1. CASE w = i
      BY <2>4, <3>1
    <3>2. CASE w < i
      <4>1. i - 1 \in w .. XLEN /\ w <= i - 1
        BY <1>0, <3>2
      <4>2. d = 0
        BY <1>1, <1>2, <2>1, <4>1 DEF Added
      <4> QED BY <2>1, <2>3, <4>1, <4>2
    <3> QED BY <1>0, <3>1, <3>2
  <2> HIDE DEF L
  <2>6. i \in 0 .. XLEN /\ L[i] < Pow2[i] /\ (w <= i => L[i] < Pow2[w])
    BY <1>0, <2>1, <2>4, <2>5
  <2> QED BY <2>6
<1>5. \A k \in 0 .. XLEN : L[k] \in Nat
  BY LowBitsIs
<1> HIDE DEF T, L
<1>6. \A i \in 0 .. XLEN : i \in T
  BY <1>0, <1>3, <1>4, Climb
<1>7. L[XLEN] \in Nat /\ L[XLEN] < Pow2[w]
  BY <1>0, <1>5, <1>6 DEF T
<1>8. L[XLEN] \in 0 .. Pow2[w] - 1
  BY <1>0, <1>7
<1> QED BY <1>8 DEF L

LEMMA BitwiseIs ==
  ASSUME NEW op, NEW t, NEW x, NEW y, NEW a, NEW b, op \in Logical, t \in Wide,
         x \in Values(t), y \in Values(t), a \in Int, b \in Int, Same(XLEN, a, x), Same(XLEN, b, y),
         t = "int" => Bitwise(op, x, y) \in Values("int")
  PROVE  /\ Bitwise(op, x, y) \in Int /\ Bitwise(op, a, b) = Bitwise(op, x, y)
         /\ Bitwise(op, a, b) = Extended(XLEN, InType(t, Bitwise(op, x, y)))
<1>0. x \in Int /\ y \in Int /\ XLEN \in Nat /\ XLEN \in 0 .. XLEN /\ XLEN \in 1 .. XLEN
      /\ Bits["uint"] \in 0 .. XLEN /\ Bits["int"] = Bits["uint"]
      /\ t \in AllTypes /\ "uint" \in AllTypes
  BY ValuesInt, TypeWidths DEF Wide, AllTypes
<1>1. Bitwise(op, a, b) = Bitwise(op, x, y)
  <2>1. LowBits(op, a, b)[XLEN] = LowBits(op, x, y)[XLEN]
    BY <1>0, LowBitsSame
  <2> QED BY <2>1 DEF Bitwise
<1>2. PICK l : l = LowBits(op, x, y)[XLEN] /\ l \in Nat
  BY <1>0, LowBitsIs
<1>3. PICK v : v = Bitwise(op, x, y) /\ v = Extended(XLEN, l) /\ v \in SignedRange(XLEN) /\ v \in Int
  <2>1. l \in Int
    BY <1>2
  <2> QED BY <1>0, <1>2, <2>1, ExtendedIs DEF Bitwise
<1>4. v = Extended(XLEN, v)
  BY <1>0, <1>3, ExtendedFixed
<1>5. CASE t # "uint"
  <2>1. t \in {"int", "long", "ulong"} /\ (t = "int" => v \in Values("int")) /\ Same(XLEN, v, v)
    BY <1>0, <1>3, <1>5, SameRefl DEF Wide
  <2> QED BY <1>1, <1>3, <1>4, <2>1, RegOfWide
<1>6. CASE t = "uint"
  <2>1. Values(t) = 0 .. Pow2[Bits["uint"]] - 1
    BY <1>6 DEF Values, Unsigned
  <2>2. l \in Values(t)
    BY <1>0, <1>2, <2>1, LowBitsRange
  <2>3. v = l
    BY <1>0, <1>3, <1>6, <2>2, InRegister
  <2>4. InType(t, v) = v
    BY <1>0, <2>2, <2>3, InTypeFixed
  <2> QED BY <1>1, <1>3, <1>4, <2>4
<1> QED BY <1>1, <1>3, <1>5, <1>6

-----------------------------------------------------------------------------
(* Unsigned ints of either form *)

\* The bits of a register above an unsigned int are all alike: copies of the sign
\* it has as an int when the register is negative, and 0 otherwise.
LEMMA UpperBits ==
  ASSUME NEW a, NEW x, x \in Values("uint"), Reg(a, "uint", x)
  PROVE  /\ a \in Int
         /\ a < 0 => /\ a \notin Values("uint")
                     /\ \A i \in Bits["int"] - 1 .. XLEN : Bit(a, i) = 1
         /\ ~(a < 0) => /\ \A i \in Bits["int"] .. XLEN : Bit(a, i) = 0
                        /\ a \in Values("int") => Bit(a, Bits["int"] - 1) = 0
<1>0. /\ "uint" \in AllTypes /\ "int" \in AllTypes /\ Bits["uint"] = Bits["int"] /\ XLEN \in Nat
      /\ Bits["int"] \in 3 .. XLEN - 1 /\ Bits["int"] \in 1 .. XLEN /\ Bits["int"] \in 0 .. XLEN
  BY TypeWidths DEF AllTypes
<1>1. PICK h : h = Pow2[Bits["int"] - 1] /\ h \in Nat \ {0} /\ Pow2[Bits["int"]] = 2 * h
  BY <1>0, Half
<1>2. Values("uint") = 0 .. 2 * h - 1 /\ Values("int") = -h .. h - 1
  BY <1>0, <1>1 DEF Values, Unsigned
<1>3. a = x \/ (a \in -h .. h - 1)
  <2>1. Extended(XLEN, x) = x
    BY <1>0, InRegister
  <2>2. Extended(Bits["int"], x) \in SignedRange(Bits["int"])
    <3>1. x \in Int
      BY <1>0, ValuesInt
    <3> QED BY <1>0, <3>1, ExtendedIs
  <2>3. Extended(Bits["int"], x) \in -h .. h - 1
    BY <1>1, <2>2 DEF SignedRange
  <2>4. a = Extended(XLEN, x) \/ a = Extended(Bits["int"], x)
    BY DEF Reg
  <2> QED BY <2>1, <2>3, <2>4
<1>4. a \in Int /\ (a < 0 => a \in -h .. -1) /\ (~(a < 0) => a \in 0 .. 2 * h - 1)
  BY <1>1, <1>2, <1>3
<1>5. ASSUME a < 0, NEW i \in Bits["int"] - 1 .. XLEN
      PROVE  Bit(a, i) = 1
  <2>1. PICK p : p = Pow2[i] /\ p \in Nat \ {0} /\ h <= p
    <3>1. i \in 0 .. XLEN /\ Bits["int"] - 1 \in 0 .. XLEN /\ i \in (Bits["int"] - 1) .. XLEN
      BY <1>0
    <3> QED BY <1>1, <3>1, Pow2Is, Pow2Monotone
  <2>2. a + p \in 0 .. p - 1 /\ a = p * (-1) + (a + p) /\ -1 \in Int /\ a \in Int
    <3>1. a \in -h .. -1
      BY <1>4, <1>5
    <3> QED BY <1>1, <2>1, <3>1
  <2>3. a \div p = -1
    BY <1>4, <2>1, <2>2, DivUnique
  <2>4. 1 \in 0 .. 2 - 1 /\ -1 = 2 * (-1) + 1 /\ 2 \in Nat \ {0} /\ -1 \in Int
    OBVIOUS
  <2>5. (-1) % 2 = 1
    BY <2>4, DivUnique
  <2> QED BY <2>1, <2>3, <2>5 DEF Bit
<1>6. ASSUME ~(a < 0)
      PROVE  /\ \A i \in Bits["int"] .. XLEN : Bit(a, i) = 0
             /\ a \in Values("int") => Bit(a, Bits["int"] - 1) = 0
  <2>1. a \in 0 .. Pow2[Bits["int"]] - 1
    BY <1>1, <1>4, <1>6
  <2>2. a \in Values("int") => a \in 0 .. Pow2[Bits["int"] - 1] - 1
    BY <1>1, <1>2, <1>4, <1>6
  <2>3. Bits["int"] - 1 \in 0 .. XLEN /\ Bits["int"] - 1 \in Bits["int"] - 1 .. XLEN
    BY <1>0
  <2> QED BY <1>0, <2>1, <2>2, <2>3, BitZero
<1>7. a < 0 => a \notin Values("uint")
  <2> SUFFICES ASSUME a < 0, a \in 0 .. 2 * h - 1 PROVE FALSE
    BY <1>2
  <2> QED BY <1>4
<1> QED BY <1>4, <1>5, <1>6, <1>7

\* The sum of bits that are all alike from w on.
LEMMA UpperSum ==
  ASSUME NEW op, NEW a, NEW b, NEW w, NEW j, w \in 1 .. XLEN, j \in {0, 1},
         \A i \in w .. XLEN - 1 : Joined(op, Bit(a, i), Bit(b, i)) <=> j = 1
  PROVE  LowBits(op, a, b)[XLEN] = LowBits(op, a, b)[w] + (IF j = 1 THEN Pow2[XLEN] - Pow2[w] ELSE 0)
<1>0. XLEN \in Nat /\ w \in 0 .. XLEN /\ w \in Int
  BY Widths
<1>1. PICK q, m : q = Pow2[w] /\ q \in Nat /\ m = LowBits(op, a, b)[w] /\ m \in Nat
  BY <1>0, Pow2Is, LowBitsIs
<1> DEFINE L == LowBits(op, a, b)
           T == {k \in 0 .. XLEN : w <= k => L[k] = m + (IF j = 1 THEN Pow2[k] - q ELSE 0)}
<1>2. 0 \in T
  BY <1>0
<1>3. ASSUME NEW i \in 1 .. XLEN, i - 1 \in T PROVE i \in T
  <2>1. PICK l, k, d, p : /\ l = L[i] /\ k = L[i - 1] /\ d = Added(op, a, b, i) /\ p = Pow2[i - 1]
                          /\ l = k + d /\ k \in Nat /\ p \in Nat /\ Pow2[i] = 2 * p
    BY <1>0, LowBitsIs, Pow2Is
  <2>2. CASE i < w
    BY <1>0, <2>2
  <2>3. CASE i = w
    <3>1. L[i] = m /\ Pow2[i] - q = 0
      BY <1>1, <2>3
    <3> HIDE DEF L
    <3> QED BY <1>0, <1>1, <2>3, <3>1
  <2>4. CASE i > w
    <3>1. i - 1 \in w .. XLEN - 1 /\ w <= i - 1
      BY <1>0, <2>4
    <3>2. k = m + (IF j = 1 THEN p - q ELSE 0)
      BY <1>3, <2>1, <3>1
    <3>3. d = IF j = 1 THEN p ELSE 0
      BY <2>1, <3>1 DEF Added
    <3>4. l = m + (IF j = 1 THEN 2 * p - q ELSE 0)
      BY <1>1, <2>1, <3>2, <3>3
    <3> HIDE DEF L
    <3>5. i \in 0 .. XLEN /\ L[i] = m + (IF j = 1 THEN Pow2[i] - q ELSE 0)
      BY <1>0, <2>1, <3>4
    <3> QED BY <3>5, Zenon
  <2> HIDE DEF T
  <2> QED BY <1>0, <2>2, <2>3, <2>4
<1> HIDE DEF T
<1>4. \A i \in 0 .. XLEN : i \in T
  BY <1>0, <1>2, <1>3, Climb
<1>5. XLEN \in T /\ w <= XLEN
  BY <1>0, <1>4
<1> QED BY <1>1, <1>5 DEF T

-----------------------------------------------------------------------------
(* Instructions *)

LEMMA WideIs ==
  ASSUME NEW t, t \in Wide
  PROVE  /\ t \in AllTypes /\ t # "bool" /\ Promoted(t) = t
         /\ Bits[t] = (IF Suffixed(t) THEN Bits["int"] ELSE XLEN)
         /\ Bits[t] \in 1 .. XLEN /\ Bits[t] \in 0 .. XLEN /\ XLEN \in Nat /\ XLEN \in 1 .. XLEN /\ XLEN \in 0 .. XLEN
  BY TypeWidths DEF Wide, AllTypes, Promoted, Suffixed

\* What an instruction reads of a register is the value.
LEMMA WidthReads ==
  ASSUME NEW reg, NEW t, NEW v, t \in Wide, v \in Values(t), Reg(reg, t, v)
  PROVE  InWidth(t, reg) = v
<1>1. reg \in Int /\ v \in Int /\ Same(Bits[t], reg, v) /\ t \in AllTypes /\ t # "bool"
  BY RegIs, WideIs
<1> QED BY <1>1, InTypeSame, InTypeIs, InTypeFixed

LEMMA InstructionOps ==
  ASSUME NEW op, NEW t, NEW a, NEW b, t \in Wide
  PROVE  LET w == Bits[t]
             count == Low(w, b) % w
         IN  /\ op \in {"add", "sub", "mul"} => Instruction(op, t, a, b) = Extended(w, Exact(op, a, b))
             /\ op = "div" /\ InWidth(t, b) # 0 =>
                  Instruction(op, t, a, b) = Extended(w, Quotient(InWidth(t, a), InWidth(t, b)))
             /\ op = "mod" /\ InWidth(t, b) # 0 =>
                  Instruction(op, t, a, b) = Extended(w, Remainder(InWidth(t, a), InWidth(t, b)))
             /\ op \in Logical => Instruction(op, t, a, b) = Bitwise(op, a, b)
             /\ op = "shl" => Instruction(op, t, a, b) = Extended(w, a * Pow2[count])
             /\ op = "shr" => Instruction(op, t, a, b) = Extended(w, InWidth(t, a) \div Pow2[count])
             /\ op \in {"eq", "ne", "le"} \/ (op = "lt" /\ t \notin Unsigned) =>
                  Instruction(op, t, a, b) = Compare(op, a, b)
             /\ op = "lt" /\ t \in Unsigned =>
                  Instruction(op, t, a, b) = Compare(op, Low(XLEN, a), Low(XLEN, b))
<1>1. PICK w : w = Bits[t] /\ w = (IF Suffixed(t) THEN Bits["int"] ELSE XLEN)
  BY WideIs
<1>2. PICK x, y, count : /\ x = InWidth(t, a) /\ x = (IF t \in Unsigned THEN Low(w, a) ELSE Extended(w, a))
                         /\ y = InWidth(t, b) /\ y = (IF t \in Unsigned THEN Low(w, b) ELSE Extended(w, b))
                         /\ count = Low(w, b) % w
  BY <1>1 DEF InWidth
<1>3. Instruction(op, t, a, b) =
        CASE op \in {"add", "sub", "mul"} -> Extended(w, Exact(op, a, b))
          [] op = "div" -> IF y = 0 THEN -1 ELSE Extended(w, Quotient(x, y))
          [] op = "mod" -> IF y = 0 THEN a ELSE Extended(w, Remainder(x, y))
          [] op \in {"and", "or", "xor"} -> Bitwise(op, a, b)
          [] op = "shl" -> Extended(w, a * Pow2[count])
          [] op = "shr" -> Extended(w, x \div Pow2[count])
          [] op \in {"eq", "ne"} -> Compare(op, a, b)
          [] op = "lt" -> IF t \in Unsigned
                          THEN Compare(op, Low(XLEN, a), Low(XLEN, b))
                          ELSE Compare(op, a, b)
          [] op = "le" -> Compare(op, a, b)
  BY <1>1, <1>2, Zenon DEF Instruction
<1>4. op \in {"add", "sub", "mul"} => Instruction(op, t, a, b) = Extended(w, Exact(op, a, b))
  BY <1>3
<1>5. op = "div" /\ y # 0 => Instruction(op, t, a, b) = Extended(w, Quotient(x, y))
  BY <1>3
<1>6. op = "mod" /\ y # 0 => Instruction(op, t, a, b) = Extended(w, Remainder(x, y))
  BY <1>3
<1>7. op \in Logical => Instruction(op, t, a, b) = Bitwise(op, a, b)
  BY <1>3 DEF Logical
<1>8. op = "shl" => Instruction(op, t, a, b) = Extended(w, a * Pow2[count])
  BY <1>3
<1>9. op = "shr" => Instruction(op, t, a, b) = Extended(w, x \div Pow2[count])
  BY <1>3
<1>10. op \in {"eq", "ne", "le"} \/ (op = "lt" /\ t \notin Unsigned) =>
         Instruction(op, t, a, b) = Compare(op, a, b)
  BY <1>3
<1>11. op = "lt" /\ t \in Unsigned =>
         Instruction(op, t, a, b) = Compare(op, Low(XLEN, a), Low(XLEN, b))
  BY <1>3
<1> QED BY <1>1, <1>2, <1>4, <1>5, <1>6, <1>7, <1>8, <1>9, <1>10, <1>11, Zenon

LEMMA ExactIs ==
  ASSUME NEW op, NEW x, NEW y
  PROVE  /\ op = "add" => Exact(op, x, y) = x + y
         /\ op = "sub" => Exact(op, x, y) = x - y
         /\ op = "mul" => Exact(op, x, y) = x * y
         /\ op = "div" => Exact(op, x, y) = Quotient(x, y)
         /\ op = "mod" => Exact(op, x, y) = Remainder(x, y)
         /\ op = "shl" => Exact(op, x, y) = x * Pow2[y]
         /\ op = "shr" => Exact(op, x, y) = x \div Pow2[y]
         /\ op \in Logical => Exact(op, x, y) = Bitwise(op, x, y)
  BY DEF Exact, Logical

\* +, - and * of numbers that agree in w bits.
LEMMA ExactSame ==
  ASSUME NEW op, NEW w, NEW x, NEW y, NEW a, NEW b, op \in {"add", "sub", "mul"}, w \in 0 .. XLEN,
         x \in Int, y \in Int, a \in Int, b \in Int, Same(w, a, x), Same(w, b, y)
  PROVE  /\ Exact(op, x, y) \in Int /\ Exact(op, a, b) \in Int
         /\ Same(w, Exact(op, a, b), Exact(op, x, y))
<1>1. Same(w, a + b, x + y) /\ Same(w, a - b, x - y) /\ Same(w, a * b, x * y)
  BY SameAdd, SameMul
<1>2. x + y \in Int /\ a + b \in Int /\ x - y \in Int /\ a - b \in Int /\ x * y \in Int /\ a * b \in Int
  OBVIOUS
<1>3. CASE op = "add"
  <2>1. Exact(op, x, y) = x + y /\ Exact(op, a, b) = a + b
    BY <1>3, ExactIs
  <2> QED BY <1>1, <1>2, <2>1
<1>4. CASE op = "sub"
  <2>1. Exact(op, x, y) = x - y /\ Exact(op, a, b) = a - b
    BY <1>4, ExactIs
  <2> QED BY <1>1, <1>2, <2>1
<1>5. CASE op = "mul"
  <2>1. Exact(op, x, y) = x * y /\ Exact(op, a, b) = a * b
    BY <1>5, ExactIs
  <2> QED BY <1>1, <1>2, <2>1
<1> QED BY <1>3, <1>4, <1>5

\* "&" and "|" of two unsigned ints leave one of the two forms, whatever form they
\* have; "^" does when they are alike.
LEMMA LogicalForms ==
  ASSUME NEW op, NEW x, NEW y, NEW a, NEW b, op \in Logical,
         x \in Values("uint"), y \in Values("uint"), Reg(a, "uint", x), Reg(b, "uint", y),
         op = "xor" => Alike(op, a, b)
  PROVE  /\ Bitwise(op, x, y) \in Int
         /\ Reg(Bitwise(op, a, b), "uint", InType("uint", Bitwise(op, x, y)))
<1>0. /\ "uint" \in AllTypes /\ "uint" \in Wide /\ Bits["uint"] = Bits["int"] /\ XLEN \in Nat
      /\ Bits["int"] \in 3 .. XLEN - 1 /\ Bits["int"] \in 1 .. XLEN /\ Bits["int"] \in 0 .. XLEN
      /\ XLEN \in 0 .. XLEN /\ XLEN \in 1 .. XLEN
  BY TypeWidths DEF AllTypes, Wide
<1>1. PICK w : w = Bits["int"]
  OBVIOUS
<1>2. PICK h : h = Pow2[w - 1] /\ h \in Nat \ {0} /\ Pow2[w] = 2 * h
  BY <1>0, <1>1, Half
<1>3. /\ x \in Int /\ y \in Int /\ a \in Int /\ b \in Int /\ x \in 0 .. Pow2[w] - 1 /\ y \in 0 .. Pow2[w] - 1
      /\ Same(w, a, x) /\ Same(w, b, y)
  BY <1>0, <1>1, RegIs DEF Values, Unsigned
\* The bits of the two forms, up to w and above.
<1>4. PICK j \in {0, 1} : /\ \A i \in w .. XLEN - 1 : Joined(op, Bit(a, i), Bit(b, i)) <=> j = 1
                          /\ j = 1 => Joined(op, Bit(a, w - 1), Bit(b, w - 1))
  <2>1. PICK p, q : p = (IF a < 0 THEN 1 ELSE 0) /\ q = (IF b < 0 THEN 1 ELSE 0)
    OBVIOUS
  <2>2. \A i \in w .. XLEN - 1 : Bit(a, i) = p /\ Bit(b, i) = q
    <3>1. \A i \in w .. XLEN - 1 : i \in Bits["int"] .. XLEN /\ i \in Bits["int"] - 1 .. XLEN
      BY <1>0, <1>1
    <3> QED BY <2>1, <3>1, UpperBits
  <2>3. w - 1 \in Bits["int"] - 1 .. XLEN /\ w - 1 \in 0 .. XLEN
    BY <1>0, <1>1
  <2>4. /\ p \in {0, 1} /\ q \in {0, 1} /\ Bit(a, w - 1) \in {0, 1} /\ Bit(b, w - 1) \in {0, 1}
        /\ (p = 1 => Bit(a, w - 1) = 1) /\ (q = 1 => Bit(b, w - 1) = 1)
    BY <1>3, <2>1, <2>3, UpperBits, BitIs
  <2>5. op = "xor" /\ p # q => Bit(a, w - 1) = p /\ Bit(b, w - 1) = q
    <3> SUFFICES ASSUME op = "xor", p # q PROVE Bit(a, w - 1) = p /\ Bit(b, w - 1) = q
      OBVIOUS
    <3>1. a < 0 \/ b < 0
      BY <2>1
    <3>2. a \in Values("int") /\ b \in Values("int")
      BY <3>1, UpperBits DEF Alike
    <3> QED BY <1>1, <2>1, <2>4, <3>2, UpperBits
  <2>6. Joined(op, p, q) => Joined(op, Bit(a, w - 1), Bit(b, w - 1))
    <3>1. CASE op = "and"
      BY <2>4, <3>1 DEF Joined
    <3>2. CASE op = "or"
      BY <2>4, <3>2 DEF Joined
    <3>3. CASE op = "xor"
      BY <2>5, <3>3 DEF Joined
    <3> QED BY <3>1, <3>2, <3>3 DEF Logical
  <2>7. PICK j : j \in {0, 1} /\ (j = 1 <=> Joined(op, p, q))
    <3>1. CASE Joined(op, p, q)
      <4>1. 1 \in {0, 1} /\ (1 = 1 <=> Joined(op, p, q))
        BY <3>1
      <4> QED BY <4>1, Zenon
    <3>2. CASE ~Joined(op, p, q)
      <4>1. 0 \in {0, 1} /\ (0 = 1 <=> Joined(op, p, q))
        BY <3>2
      <4> QED BY <4>1, Zenon
    <3> QED BY <3>1, <3>2
  <2>8. \A i \in w .. XLEN - 1 : Joined(op, Bit(a, i), Bit(b, i)) <=> j = 1
    BY <2>2, <2>7
  <2> QED BY <2>6, <2>7, <2>8
<1>5. PICK r : /\ r = LowBits(op, x, y)[XLEN] /\ r \in 0 .. Pow2[w] - 1 /\ r \in Int
               /\ r = LowBits(op, a, b)[w] /\ (j = 1 => r >= h)
  <2>1. LowBits(op, x, y)[XLEN] \in 0 .. Pow2[w] - 1
    BY <1>0, <1>1, <1>3, LowBitsRange
  <2>2. LowBits(op, x, y)[XLEN] = LowBits(op, x, y)[w]
    <3>1. \A i \in w .. XLEN - 1 : Bit(x, i) = 0 /\ Bit(y, i) = 0
      <4>1. \A i \in w .. XLEN - 1 : i \in w .. XLEN
        BY <1>0, <1>1
      <4> QED BY <1>0, <1>1, <1>3, <4>1, BitZero
    <3>2. ~Joined(op, 0, 0)
      <4>1. CASE op = "and"
        BY <4>1 DEF Joined
      <4>2. CASE op = "or"
        BY <4>2 DEF Joined
      <4>3. CASE op = "xor"
        BY <4>3 DEF Joined
      <4> QED BY <4>1, <4>2, <4>3 DEF Logical
    <3>3. PICK k : k = 0 /\ k \in {0, 1}
      OBVIOUS
    <3>4. LowBits(op, x, y)[XLEN] = LowBits(op, x, y)[w] + (IF k = 1 THEN Pow2[XLEN] - Pow2[w] ELSE 0)
      <4>1. \A i \in w .. XLEN - 1 : Joined(op, Bit(x, i), Bit(y, i)) <=> k = 1
        BY <3>1, <3>2, <3>3
      <4>2. w \in 1 .. XLEN /\ k \in {0, 1}
        BY <1>0, <1>1, <3>3
      <4> QED BY <4>1, <4>2, UpperSum
    <3>5. LowBits(op, x, y)[w] \in Nat
      BY <1>0, <1>1, LowBitsIs
    <3> QED BY <3>3, <3>4, <3>5
  <2>3. LowBits(op, a, b)[w] = LowBits(op, x, y)[w]
    <3>1. w \in 0 .. XLEN
      BY <1>0, <1>1
    <3> QED BY <1>3, <3>1, LowBitsSame
  <2>4. j = 1 => LowBits(op, a, b)[w] >= h
    <3> SUFFICES ASSUME j = 1 PROVE LowBits(op, a, b)[w] >= h
      OBVIOUS
    <3>1. w \in 1 .. XLEN /\ w - 1 \in 0 .. XLEN
      BY <1>0, <1>1
    <3>2. Added(op, a, b, w) = h
      BY <1>2, <1>4 DEF Added
    <3>3. LowBits(op, a, b)[w] = LowBits(op, a, b)[w - 1] + h /\ LowBits(op, a, b)[w - 1] \in Nat
      BY <3>1, <3>2, LowBitsIs
    <3> QED BY <1>2, <3>3
  <2> QED BY <1>2, <2>1, <2>2, <2>3, <2>4
<1>6. LowBits(op, a, b)[XLEN] = r + (IF j = 1 THEN Pow2[XLEN] - Pow2[w] ELSE 0)
  <2>1. w \in 1 .. XLEN
    BY <1>0, <1>1
  <2>2. LowBits(op, a, b)[XLEN] = LowBits(op, a, b)[w] + (IF j = 1 THEN Pow2[XLEN] - Pow2[w] ELSE 0)
    <3>1. \A i \in w .. XLEN - 1 : Joined(op, Bit(a, i), Bit(b, i)) <=> j = 1
      BY <1>4
    <3>2. j \in {0, 1}
      BY <1>4
    <3> QED BY <2>1, <3>1, <3>2, UpperSum
  <2> QED BY <1>5, <2>2
<1>7. r \in Values("uint") /\ Extended(XLEN, r) = r
  <2>1. r \in Values("uint")
    BY <1>0, <1>1, <1>5 DEF Values, Unsigned
  <2> QED BY <1>0, <2>1, InRegister
<1>8. Bitwise(op, x, y) = r /\ InType("uint", r) = r
  BY <1>0, <1>5, <1>7, InTypeFixed DEF Bitwise
<1>9. CASE j = 0
  <2>1. Bitwise(op, a, b) = Extended(XLEN, r)
    BY <1>5, <1>6, <1>9 DEF Bitwise
  <2> QED BY <1>5, <1>8, <2>1 DEF Reg
<1>10. CASE j = 1
  <2>1. PICK m : m = r - 2 * h /\ m \in -h .. h - 1 /\ m \in Int
    BY <1>2, <1>5, <1>10
  <2>2. PICK n : n = LowBits(op, a, b)[XLEN] /\ n = m + 1 * Pow2[XLEN] /\ Pow2[XLEN] \in Nat /\ n \in Int
    <3>1. Pow2[XLEN] \in Nat
      BY <1>0, Pow2Is
    <3> QED BY <1>2, <1>5, <1>6, <1>10, <2>1, <3>1
  <2>3. Extended(XLEN, n) = Extended(XLEN, m)
    <3>1. Same(XLEN, n, m)
      BY <2>2 DEF Same
    <3> QED BY <1>0, <2>1, <2>2, <3>1, SameLow
  <2>4. m \in SignedRange(w) /\ Extended(w, m) = m
    <3>1. m \in SignedRange(w)
      BY <1>2, <2>1 DEF SignedRange
    <3> QED BY <1>0, <1>1, <3>1, ExtendedFixed
  <2>5. Extended(XLEN, m) = m
    <3>1. "int" \in AllTypes /\ m \in Values("int")
      BY <1>1, <2>4, SignedValues DEF AllTypes, Unsigned
    <3> QED BY <3>1, InRegister
  <2>6. Extended(w, r) = Extended(w, m)
    <3>1. r = m + 1 * Pow2[w]
      BY <1>2, <1>5, <2>1
    <3>2. Same(w, r, m)
      BY <3>1 DEF Same
    <3> QED BY <1>0, <1>1, <1>5, <2>1, <3>2, SameLow
  <2>7. Bitwise(op, a, b) = Extended(w, r)
    BY <2>2, <2>3, <2>4, <2>5, <2>6 DEF Bitwise
  <2> QED BY <1>1, <1>5, <1>8, <2>7 DEF Reg
<1> QED BY <1>4, <1>9, <1>10

\* An arithmetic instruction on two registers leaves the register of the result.
LEMMA ArithmeticReg ==
  ASSUME NEW op, NEW t, NEW x, NEW y, NEW a, NEW b, op \in Arithmetic, t \in Wide,
         x \in Values(t), y \in Values(t), Reg(a, t, x), Reg(b, t, y),
         op = "xor" /\ t = "uint" => Alike(op, a, b),
         op \in {"div", "mod"} => y # 0,
         t = "int" /\ op \in Logical => Exact(op, x, y) \in Values("int")
  PROVE  Exact(op, x, y) \in Int /\ Reg(Instruction(op, t, a, b), t, InType(t, Exact(op, x, y)))
<1>0. /\ t \in AllTypes /\ t # "bool" /\ x \in Int /\ y \in Int
      /\ Bits[t] \in 1 .. XLEN /\ Bits[t] \in 0 .. XLEN /\ XLEN \in 0 .. XLEN
      /\ a \in Int /\ b \in Int
  BY WideIs, RegIs
<1>1. Same(Bits[t], a, x) /\ Same(Bits[t], b, y) /\ (t # "uint" => Same(XLEN, a, x) /\ Same(XLEN, b, y))
  BY <1>0, RegIs, RegisterSame
<1>2. InWidth(t, a) = x /\ InWidth(t, b) = y
  BY <1>0, WidthReads
<1>3. ASSUME NEW e, NEW z, e \in Int, z \in Int, Same(Bits[t], z, e),
             Instruction(op, t, a, b) = Extended(Bits[t], z)
      PROVE  Reg(Instruction(op, t, a, b), t, InType(t, e))
  <2>1. InType(t, e) \in Values(t) /\ InType(t, e) \in Int /\ Same(Bits[t], InType(t, e), e)
    BY <1>0, <1>3, InTypeIs
  <2>2. Same(Bits[t], e, InType(t, e))
    BY <1>0, <1>3, <2>1, SameSym
  <2>3. Same(Bits[t], z, InType(t, e))
    BY <1>0, <1>3, <2>1, <2>2, SameTrans
  <2> QED BY <1>3, <2>1, <2>3, RegOfExtended
<1>4. CASE op \in {"add", "sub", "mul"}
  <2>1. Instruction(op, t, a, b) = Extended(Bits[t], Exact(op, a, b))
    BY <1>4, InstructionOps
  <2>2. Exact(op, x, y) \in Int /\ Exact(op, a, b) \in Int /\ Same(Bits[t], Exact(op, a, b), Exact(op, x, y))
    BY <1>0, <1>1, <1>4, ExactSame
  <2> QED BY <1>3, <2>1, <2>2
<1>5. CASE op = "div" \/ op = "mod"
  <2>1. Exact(op, x, y) \in Int
    BY <1>0, <1>5, ExactIs, QuotientIs
  <2>2. Instruction(op, t, a, b) = Extended(Bits[t], Exact(op, x, y))
    <3>1. CASE op = "div"
      BY <1>2, <3>1, InstructionOps, ExactIs
    <3>2. CASE op = "mod"
      BY <1>2, <3>2, InstructionOps, ExactIs
    <3> QED BY <1>5, <3>1, <3>2
  <2>3. Same(Bits[t], Exact(op, x, y), Exact(op, x, y))
    BY <1>0, <2>1, SameRefl
  <2> QED BY <1>3, <2>1, <2>2, <2>3
<1>6. CASE op \in Logical
  <2>1. Exact(op, x, y) = Bitwise(op, x, y) /\ Instruction(op, t, a, b) = Bitwise(op, a, b)
    BY <1>6, ExactIs, InstructionOps
  <2>2. t = "int" => Bitwise(op, x, y) \in Values("int")
    BY <1>6, <2>1
  <2>3. CASE t # "uint"
    <3>1. /\ Bitwise(op, x, y) \in Int
          /\ Bitwise(op, a, b) = Extended(XLEN, InType(t, Bitwise(op, x, y)))
      BY <1>0, <1>1, <1>6, <2>2, <2>3, BitwiseIs
    <3> QED BY <2>1, <3>1 DEF Reg
  <2>4. CASE t = "uint"
    BY <1>6, <2>1, <2>4, LogicalForms
  <2> QED BY <2>3, <2>4
<1> QED BY <1>4, <1>5, <1>6 DEF Arithmetic, Multiplicative, Additive, Logical

\* A comparison of two registers is the comparison of the values: of values
\* extended to all bits as their type says,
LEMMA ComparisonOfValues ==
  ASSUME NEW op, NEW t, NEW x, NEW y, NEW a, NEW b, op \in Comparison, t \in Wide,
         x \in Values(t), y \in Values(t), a = Extended(XLEN, x), b = Extended(XLEN, y),
         <<op, t>> \notin WeakOps
  PROVE  Instruction(op, t, a, b) = Compare(op, x, y)
<1>0. /\ t \in AllTypes /\ x \in Int /\ y \in Int /\ a \in Int /\ b \in Int
      /\ XLEN \in 1 .. XLEN /\ XLEN \in 0 .. XLEN /\ Bits["ulong"] = XLEN
  BY WideIs, ValuesInt, RegisterSame, TypeWidths DEF AllTypes
<1>1. t # "ulong" => a = x /\ b = y
  BY <1>0, InRegister
<1>2. a = b <=> x = y
  <2> SUFFICES ASSUME t = "ulong", a = b PROVE x = y
    BY <1>1
  <2>1. Same(XLEN, x, a) /\ Same(XLEN, b, y)
    BY <1>0, RegisterSame
  <2>2. Same(XLEN, x, y)
    BY <1>0, <2>1, SameTrans
  <2>3. Values(t) = 0 .. Pow2[XLEN] - 1
    BY <1>0 DEF Values, Unsigned
  <2> QED BY <1>0, <2>2, <2>3, SameUnique
<1>3. t \in Unsigned => Low(XLEN, a) = x /\ Low(XLEN, b) = y
  <2> SUFFICES ASSUME t \in Unsigned PROVE Low(XLEN, a) = x /\ Low(XLEN, b) = y
    OBVIOUS
  <2>1. Same(XLEN, a, x) /\ Same(XLEN, b, y)
    BY <1>0, RegisterSame
  <2>2. Low(XLEN, a) = Low(XLEN, x) /\ Low(XLEN, b) = Low(XLEN, y)
    BY <1>0, <2>1, SameLow
  <2>3. x \in 0 .. Pow2[XLEN] - 1 /\ y \in 0 .. Pow2[XLEN] - 1
    <3>1. Bits[t] \in 0 .. XLEN /\ XLEN \in Bits[t] .. XLEN
      BY <1>0, TypeWidths
    <3>2. Pow2[Bits[t]] \in Nat /\ Pow2[XLEN] \in Nat /\ Pow2[Bits[t]] <= Pow2[XLEN]
      BY <1>0, <3>1, Pow2Is, Pow2Monotone
    <3>3. Values(t) = 0 .. Pow2[Bits[t]] - 1
      BY DEF Values, Unsigned
    <3> QED BY <3>2, <3>3
  <2> QED BY <1>0, <2>2, <2>3, LowFixed
<1>4. CASE op \in {"eq", "ne"}
  <2>1. Instruction(op, t, a, b) = Compare(op, a, b)
    BY <1>4, InstructionOps
  <2>2. CASE op = "eq"
    BY <1>2, <2>1, <2>2 DEF Compare
  <2>3. CASE op = "ne"
    BY <1>2, <2>1, <2>3 DEF Compare
  <2> QED BY <1>4, <2>2, <2>3
<1>5. CASE op = "lt"
  <2>1. CASE t \in Unsigned
    BY <1>3, <1>5, <2>1, InstructionOps
  <2>2. CASE t \notin Unsigned
    <3>1. t # "ulong"
      BY <2>2 DEF Unsigned
    <3>2. Instruction(op, t, a, b) = Compare(op, a, b)
      BY <1>5, <2>2, InstructionOps
    <3> QED BY <1>1, <3>1, <3>2
  <2> QED BY <2>1, <2>2
<1>6. CASE op = "le"
  <2>1. t # "ulong"
    BY <1>6 DEF WeakOps
  <2>2. Instruction(op, t, a, b) = Compare(op, a, b)
    BY <1>6, InstructionOps
  <2> QED BY <1>1, <2>1, <2>2
<1> QED BY <1>4, <1>5, <1>6 DEF Comparison

\* of two unsigned ints that both have their sign as an int extended,
LEMMA ComparisonOfInts ==
  ASSUME NEW op, NEW x, NEW y, NEW a, NEW b, op \in Comparison, op # "le",
         x \in Values("uint"), y \in Values("uint"), Reg(a, "uint", x), Reg(b, "uint", y),
         a \in Values("int"), b \in Values("int")
  PROVE  Instruction(op, "uint", a, b) = Compare(op, x, y)
<1>0. /\ "uint" \in AllTypes /\ "int" \in AllTypes /\ Bits["uint"] = Bits["int"] /\ XLEN \in Nat
      /\ Bits["int"] \in 3 .. XLEN - 1 /\ Bits["int"] \in 1 .. XLEN /\ Bits["int"] \in 0 .. XLEN
      /\ XLEN \in 0 .. XLEN /\ XLEN \in 1 .. XLEN /\ "uint" \in Wide /\ "uint" \in Unsigned
      /\ XLEN - 1 \in 0 .. XLEN /\ XLEN - 1 \in Bits["int"] .. XLEN
  BY TypeWidths DEF AllTypes, Wide, Unsigned
<1>1. PICK h : h = Pow2[Bits["int"] - 1] /\ h \in Nat \ {0} /\ Pow2[Bits["int"]] = 2 * h
  BY <1>0, Half
<1>2. PICK p : p = Pow2[XLEN] /\ p \in Nat /\ 4 * h <= p
  <2>1. Pow2[XLEN] = 2 * Pow2[XLEN - 1] /\ Pow2[XLEN - 1] \in Nat /\ 2 * h <= Pow2[XLEN - 1]
    BY <1>0, <1>1, Half, Pow2Monotone
  <2> QED BY <1>1, <2>1
<1>3. Values("uint") = 0 .. 2 * h - 1 /\ Values("int") = -h .. h - 1
  BY <1>0, <1>1 DEF Values, Unsigned
\* The value and the low bits, read as an unsigned number, of such a register.
<1>4. ASSUME NEW c, NEW v, v \in Values("uint"), Reg(c, "uint", v), c \in Values("int")
      PROVE  /\ c \in -h .. h - 1 /\ v = (IF c < 0 THEN c + 2 * h ELSE c)
             /\ Low(XLEN, c) = IF c < 0 THEN c + p ELSE c
  <2>1. c \in -h .. h - 1 /\ c \in Int /\ v \in 0 .. 2 * h - 1 /\ v \in Int /\ Same(Bits["int"], c, v)
    BY <1>0, <1>1, <1>3, <1>4, RegIs
  <2>2. PICK u : u = IF c < 0 THEN c + 2 * h ELSE c
    OBVIOUS
  <2>3. u \in 0 .. Pow2[Bits["int"]] - 1 /\ u \in Int /\ Same(Bits["int"], u, c)
    <3>1. CASE c < 0
      <4>1. u = c + 1 * Pow2[Bits["int"]]
        BY <1>1, <2>2, <3>1
      <4> QED BY <1>1, <2>1, <2>2, <3>1, <4>1 DEF Same
    <3>2. CASE ~(c < 0)
      <4>1. u = c
        BY <2>2, <3>2
      <4> QED BY <1>0, <1>1, <2>1, <3>2, <4>1, SameRefl
    <3> QED BY <3>1, <3>2
  <2>4. u = v
    <3>1. Same(Bits["int"], u, v)
      BY <1>0, <2>1, <2>3, SameTrans
    <3> QED BY <1>0, <1>1, <2>1, <2>3, <3>1, SameUnique
  <2>5. Low(XLEN, c) = IF c < 0 THEN c + p ELSE c
    <3>1. CASE c < 0
      <4>1. c + p \in 0 .. Pow2[XLEN] - 1 /\ c + p \in Int /\ c + p = c + 1 * Pow2[XLEN]
        BY <1>1, <1>2, <2>1, <3>1
      <4>2. Same(XLEN, c + p, c)
        BY <4>1 DEF Same
      <4>3. c + p = Low(XLEN, c)
        BY <1>0, <2>1, <4>1, <4>2, SameUnique
      <4> QED BY <3>1, <4>3
    <3>2. CASE ~(c < 0)
      <4>1. c \in 0 .. Pow2[XLEN] - 1
        BY <1>1, <1>2, <2>1, <3>2
      <4> QED BY <1>0, <3>2, <4>1, LowFixed
    <3> QED BY <3>1, <3>2
  <2> QED BY <2>1, <2>2, <2>4, <2>5
<1>5. /\ a \in -h .. h - 1 /\ x = (IF a < 0 THEN a + 2 * h ELSE a) /\ Low(XLEN, a) = (IF a < 0 THEN a + p ELSE a)
      /\ b \in -h .. h - 1 /\ y = (IF b < 0 THEN b + 2 * h ELSE b) /\ Low(XLEN, b) = (IF b < 0 THEN b + p ELSE b)
  BY <1>4
<1>6. a = b <=> x = y
  BY <1>1, <1>5
<1>7. Low(XLEN, a) < Low(XLEN, b) <=> x < y
  BY <1>1, <1>2, <1>5
<1>8. CASE op = "eq"
  <2>1. Instruction(op, "uint", a, b) = Compare(op, a, b)
    BY <1>0, <1>8, InstructionOps
  <2> QED BY <1>6, <1>8, <2>1 DEF Compare
<1>9. CASE op = "ne"
  <2>1. Instruction(op, "uint", a, b) = Compare(op, a, b)
    BY <1>0, <1>9, InstructionOps
  <2> QED BY <1>6, <1>9, <2>1 DEF Compare
<1>10. CASE op = "lt"
  <2>1. Instruction(op, "uint", a, b) = Compare(op, Low(XLEN, a), Low(XLEN, b))
    BY <1>0, <1>10, InstructionOps
  <2> QED BY <1>7, <1>10, <2>1 DEF Compare
<1> QED BY <1>8, <1>9, <1>10 DEF Comparison

\* and so of any two registers, where unsigned ints are alike.
LEMMA ComparisonReg ==
  ASSUME NEW op, NEW t, NEW x, NEW y, NEW a, NEW b, op \in Comparison, t \in Wide,
         x \in Values(t), y \in Values(t), Reg(a, t, x), Reg(b, t, y),
         t = "uint" => Alike(op, a, b), <<op, t>> \notin WeakOps
  PROVE  Instruction(op, t, a, b) = Compare(op, x, y)
<1>0. t \in AllTypes /\ "uint" \in AllTypes /\ Bits["uint"] = Bits["int"] /\ Bits["int"] \in 1 .. XLEN
  BY WideIs, TypeWidths DEF AllTypes
<1>1. CASE t # "uint" \/ (a \in Values("uint") /\ b \in Values("uint"))
  <2>1. ASSUME NEW c, NEW v, v \in Values(t), Reg(c, t, v), t # "uint" \/ c \in Values("uint")
        PROVE  c = Extended(XLEN, v)
    <3>1. CASE t # "uint"
      BY <1>0, <2>1, <3>1, RegIs
    <3>2. CASE t = "uint"
      <4>1. c \in 0 .. Pow2[Bits["int"]] - 1 /\ v \in 0 .. Pow2[Bits["int"]] - 1 /\ Same(Bits["int"], c, v)
        BY <1>0, <2>1, <3>2, RegIs DEF Values, Unsigned
      <4>2. c = v
        BY <1>0, <4>1, SameUnique
      <4> QED BY <1>0, <2>1, <3>2, <4>2, InRegister
    <3> QED BY <3>1, <3>2
  <2>2. a = Extended(XLEN, x) /\ b = Extended(XLEN, y)
    BY <1>1, <2>1
  <2> QED BY <2>2, ComparisonOfValues
<1>2. CASE t = "uint" /\ ~(a \in Values("uint") /\ b \in Values("uint"))
  <2>1. op # "le" /\ a \in Values("int") /\ b \in Values("int")
    BY <1>2 DEF Alike
  <2> QED BY <1>2, <2>1, ComparisonOfInts
<1> QED BY <1>1, <1>2

\* The number of places to shift by is in the register whatever its type.
LEMMA CountIs ==
  ASSUME XLEN <= Pow2[Bits["int"] - 1],
         NEW t, NEW v, NEW reg, t \in AllTypes, v \in Values(t), v \in 0 .. XLEN - 1, Reg(reg, t, v)
  PROVE  reg = v /\ Extended(XLEN, v) = v
<1>0. XLEN \in Nat /\ Bits["int"] \in 1 .. XLEN /\ Bits["int"] - 1 \in 0 .. XLEN /\ XLEN \in 1 .. XLEN
      /\ XLEN - 1 \in (Bits["int"] - 1) .. XLEN /\ XLEN - 1 \in 0 .. XLEN
  BY TypeWidths
<1>1. Pow2[Bits["int"] - 1] \in Nat /\ Pow2[XLEN - 1] \in Nat /\ Pow2[Bits["int"] - 1] <= Pow2[XLEN - 1]
  BY <1>0, Pow2Is, Pow2Monotone
<1>2. v \in SignedRange(Bits["int"]) /\ v \in SignedRange(XLEN)
  BY <1>0, <1>1 DEF SignedRange
<1>3. Extended(XLEN, v) = v /\ Extended(Bits["int"], v) = v
  BY <1>0, <1>2, ExtendedFixed
<1> QED BY <1>3 DEF Reg

LEMMA ShiftReg ==
  ASSUME XLEN <= Pow2[Bits["int"] - 1],
         NEW op, NEW t, NEW u, NEW x, NEW y, NEW a, NEW b, op \in Shift, t \in Wide, u \in AllTypes,
         x \in Values(t), y \in Values(u), Reg(a, t, x), Reg(b, u, y), y \in 0 .. Bits[t] - 1
  PROVE  Exact(op, x, y) \in Int /\ Reg(Instruction(op, t, a, b), t, InType(t, Exact(op, x, y)))
<1>0. /\ t \in AllTypes /\ t # "bool" /\ x \in Int /\ a \in Int /\ Same(Bits[t], a, x)
      /\ Bits[t] \in 1 .. XLEN /\ Bits[t] \in 0 .. XLEN /\ XLEN \in Nat
  BY WideIs, RegIs
<1>1. y \in 0 .. XLEN - 1 /\ y \in 0 .. XLEN /\ y \in Nat
  BY <1>0
<1>2. b = y
  BY <1>1, CountIs
<1>3. Low(Bits[t], b) % Bits[t] = y
  <2>1. Bits[t] < Pow2[Bits[t]] /\ Pow2[Bits[t]] \in Nat
    BY <1>0, Pow2Grows, Pow2Is
  <2>2. y \in 0 .. Pow2[Bits[t]] - 1
    BY <1>0, <2>1
  <2>3. Low(Bits[t], b) = y
    BY <1>0, <1>2, <2>2, LowFixed
  <2>4. y = Bits[t] * 0 + y /\ Bits[t] \in Nat \ {0} /\ y \in Int
    BY <1>0, <1>1
  <2>5. y % Bits[t] = y
    BY <2>4, DivUnique
  <2> QED BY <2>3, <2>5
<1>4. PICK p \in Nat \ {0} : p = Pow2[y]
  BY <1>1, Pow2Is
<1>5. \E z \in Int : /\ Instruction(op, t, a, b) = Extended(Bits[t], z) /\ Exact(op, x, y) \in Int
                     /\ Same(Bits[t], z, Exact(op, x, y))
  <2>1. CASE op = "shl"
    <3>1. Instruction(op, t, a, b) = Extended(Bits[t], a * Pow2[Low(Bits[t], b) % Bits[t]])
      BY <2>1, InstructionOps
    <3>2. Instruction(op, t, a, b) = Extended(Bits[t], a * p) /\ Exact(op, x, y) = x * p
      BY <1>3, <1>4, <2>1, <3>1, ExactIs
    <3>3. p \in Int /\ Same(Bits[t], p, p) /\ a * p \in Int /\ x * p \in Int
      BY <1>0, SameRefl
    <3>4. Same(Bits[t], a * p, x * p)
      BY <1>0, <3>3, SameMul
    <3> QED BY <3>2, <3>3, <3>4
  <2>2. CASE op = "shr"
    <3>1. Instruction(op, t, a, b) = Extended(Bits[t], InWidth(t, a) \div Pow2[Low(Bits[t], b) % Bits[t]])
      BY <2>2, InstructionOps
    <3>2. InWidth(t, a) = x
      BY WidthReads
    <3>3. Instruction(op, t, a, b) = Extended(Bits[t], x \div p) /\ Exact(op, x, y) = x \div p
      BY <1>3, <1>4, <2>2, <3>1, <3>2, ExactIs
    <3>4. x \div p \in Int
      BY <1>0, DivMod
    <3>5. Same(Bits[t], x \div p, x \div p)
      BY <1>0, <3>4, SameRefl
    <3> QED BY <3>3, <3>4, <3>5
  <2> QED BY <2>1, <2>2 DEF Shift
<1>6. PICK z \in Int : /\ Instruction(op, t, a, b) = Extended(Bits[t], z) /\ Exact(op, x, y) \in Int
                       /\ Same(Bits[t], z, Exact(op, x, y))
  BY <1>5
<1> DEFINE e == Exact(op, x, y)
<1>7. e \in Int
  BY <1>6
<1>8. InType(t, e) \in Values(t) /\ InType(t, e) \in Int /\ Same(Bits[t], InType(t, e), e)
  BY <1>0, <1>7, InTypeIs
<1>9. Same(Bits[t], e, InType(t, e)) /\ Same(Bits[t], z, e)
  BY <1>0, <1>6, <1>7, <1>8, SameSym
<1> HIDE DEF e
<1>10. Same(Bits[t], z, InType(t, e))
  BY <1>0, <1>7, <1>8, <1>9, SameTrans
<1>11. Reg(Extended(Bits[t], z), t, InType(t, e))
  BY <1>8, <1>10, RegOfExtended
<1> QED BY <1>6, <1>11 DEF e

-----------------------------------------------------------------------------
(* eval2() of the operators *)

\* What a result of EvalBinary says of the operands, p and q the values it takes
\* from them.
EvalOutcome(op, ty, t, c, d, p, q) ==
  LET x == Low(XLEN, p)
      y == Low(XLEN, q)
      result == EvalBinary(op, ty, t, c, d)
  IN  /\ c # <<>> /\ d # <<>>
      /\ op \in {"div", "mod"} => q # 0
      /\ op \in {"div", "mod"} /\ ty \in Unsigned => result = Folded(Exact(op, x, y))
      /\ op = "shr" /\ ty = "ulong" => result = Folded(Exact(op, x, q))
      /\ op \in {"lt", "le"} /\ t \in Unsigned => result = <<Compare(op, x, y)>>
      /\ op \in {"eq", "ne"} \/ (op \in {"lt", "le"} /\ t \notin Unsigned) => result = <<Compare(op, p, q)>>
      /\ (\/ op \in {"add", "sub", "mul", "and", "or", "xor", "shl"}
          \/ op \in {"div", "mod"} /\ ty \notin Unsigned
          \/ op = "shr" /\ ty # "ulong") => result = Folded(Exact(op, p, q))

LEMMA EvalBinaryOps ==
  ASSUME NEW op, NEW ty, NEW t, NEW c, NEW d, NEW p, NEW q, EvalBinary(op, ty, t, c, d) # <<>>,
         c # <<>> => c = <<p>>, d # <<>> => d = <<q>>
  PROVE  EvalOutcome(op, ty, t, c, d, p, q)
<1> DEFINE v == c[1]
           w == d[1]
           x == Low(XLEN, v)
           y == Low(XLEN, w)
           skip == \/ <<>> \in {c, d}
                   \/ op \in {"div", "mod"} /\ w = 0
                   \/ op \in Shift /\ w \notin 0 .. XLEN - 1
           value == CASE op \in {"div", "mod"} /\ ty \in Unsigned -> Folded(Exact(op, x, y))
                      [] op = "shr" /\ ty = "ulong" -> Folded(Exact(op, x, w))
                      [] op \in {"lt", "le"} -> <<IF t \in Unsigned THEN Compare(op, x, y) ELSE Compare(op, v, w)>>
                      [] op \in {"eq", "ne"} -> <<Compare(op, v, w)>>
                      [] OTHER -> Folded(Exact(op, v, w))
<1>1. PICK r : r = EvalBinary(op, ty, t, c, d)
  OBVIOUS
<1>2. r = IF skip THEN <<>> ELSE value
  BY <1>1, Zenon DEF EvalBinary
<1>3. ~skip /\ r = value
  <2> HIDE DEF skip, value
  <2> QED BY <1>1, <1>2
<1>4. c # <<>> /\ d # <<>>
  BY <1>3
<1>5. v = p /\ w = q
  BY <1>4
<1>6. op \in {"div", "mod"} => q # 0
  BY <1>3, <1>5
<1>7. r = value
  BY <1>3
<1> HIDE DEF v, w, skip
<1>8. op \in {"div", "mod"} /\ ty \in Unsigned => r = Folded(Exact(op, x, y))
  <2> HIDE DEF x, y
  <2> QED BY <1>7
<1>9. op = "shr" /\ ty = "ulong" => r = Folded(Exact(op, x, w))
  <2> HIDE DEF x, y
  <2> QED BY <1>7
<1>10. op \in {"lt", "le"} /\ t \in Unsigned => r = <<Compare(op, x, y)>>
  <2> HIDE DEF x, y
  <2> QED BY <1>7
<1>11. op \in {"eq", "ne"} \/ (op \in {"lt", "le"} /\ t \notin Unsigned) => r = <<Compare(op, v, w)>>
  <2> HIDE DEF x, y
  <2> QED BY <1>7
<1>12. (\/ op \in {"add", "sub", "mul", "and", "or", "xor", "shl"}
        \/ op \in {"div", "mod"} /\ ty \notin Unsigned
        \/ op = "shr" /\ ty # "ulong") => r = Folded(Exact(op, v, w))
  <2> HIDE DEF x, y
  <2> QED BY <1>7
<1>13. x = Low(XLEN, p) /\ y = Low(XLEN, q)
  BY <1>5
<1> HIDE DEF x, y
<1> QED BY <1>1, <1>4, <1>5, <1>6, <1>8, <1>9, <1>10, <1>11, <1>12, <1>13, Zenon DEF EvalOutcome

\* A constant of a promoted type, and what it is read as by unsigned operators.
LEMMA ConstIs ==
  ASSUME NEW t, NEW v, t \in {"int", "long", "ulong"}, v \in Values(t)
  PROVE  /\ t # "ulong" => Extended(XLEN, v) = v
         /\ t = "ulong" => Low(XLEN, Extended(XLEN, v)) = v
         /\ v \in Int /\ Extended(XLEN, v) \in Int /\ Same(XLEN, Extended(XLEN, v), v) /\ t \in Wide /\ t \in AllTypes
<1>1. t \in AllTypes /\ t \in Wide /\ XLEN \in 0 .. XLEN /\ Bits["ulong"] = XLEN
  BY TypeWidths DEF AllTypes, Wide
<1>2. v \in Int /\ Extended(XLEN, v) \in Int /\ Same(XLEN, Extended(XLEN, v), v)
  BY <1>1, ValuesInt, RegisterSame
<1>3. t # "ulong" => Extended(XLEN, v) = v
  BY <1>1, InRegister
<1>4. ASSUME t = "ulong" PROVE Low(XLEN, Extended(XLEN, v)) = v
  <2>1. v \in 0 .. Pow2[XLEN] - 1
    BY <1>1, <1>4 DEF Values, Unsigned
  <2> QED BY <1>1, <1>2, <2>1, SameLow, LowFixed
<1> QED BY <1>1, <1>2, <1>3, <1>4

LEMMA Overflow ==
  ASSUME NEW op, NEW x, NEW y, Defined(op, "int", x, y), op # "mod"
  PROVE  Exact(op, x, y) \in Values("int")
  BY DEF Defined, Unsigned

\* The remainder of two ints is one, whether or not the quotient is.
LEMMA RemainderInt ==
  ASSUME NEW x, NEW y, x \in Values("int"), y \in Values("int"), y # 0
  PROVE  Remainder(x, y) \in Values("int")
<1>1. PICK h : h = Pow2[Bits["int"] - 1] /\ h \in Nat \ {0}
  BY TypeWidths, Half
<1>2. Values("int") = -h .. h - 1
  BY <1>1 DEF Values, Unsigned
<1>3. x \in Int /\ y \in Int
  BY <1>1, <1>2
<1>4. PICK m : m = Magnitude(y) /\ m \in 1 .. h
  BY <1>1, <1>2, <1>3 DEF Magnitude
<1>5. Remainder(x, y) \in -(m - 1) .. m - 1
  BY <1>3, <1>4, QuotientIs
<1> QED BY <1>1, <1>2, <1>4, <1>5

LEMMA EvalArithmetic ==
  ASSUME NEW op, NEW t, NEW c, NEW d, NEW x, NEW y, op \in Arithmetic, t \in Wide,
         x \in Values(t), y \in Values(t), Const(c, t, x), Const(d, t, y), Defined(op, t, x, y)
  PROVE  Const(EvalBinary(op, t, t, c, d), t, InType(t, Exact(op, x, y)))
<1> SUFFICES ASSUME EvalBinary(op, t, t, c, d) # <<>>
             PROVE  /\ t \notin {"bool", "uint"}
                    /\ EvalBinary(op, t, t, c, d) = <<Extended(XLEN, InType(t, Exact(op, x, y)))>>
  BY DEF Const
<1>1. PICK p, q, r : p = Extended(XLEN, x) /\ q = Extended(XLEN, y) /\ r = EvalBinary(op, t, t, c, d)
  OBVIOUS
<1>2. (c # <<>> => c = <<p>>) /\ (d # <<>> => d = <<q>>)
  BY <1>1 DEF Const
<1>3. /\ c # <<>>
      /\ op \in {"div", "mod"} => q # 0
      /\ op \in {"div", "mod"} /\ t \in Unsigned => r = Folded(Exact(op, Low(XLEN, p), Low(XLEN, q)))
      /\ (\/ op \in {"add", "sub", "mul", "and", "or", "xor"}
          \/ op \in {"div", "mod"} /\ t \notin Unsigned) => r = Folded(Exact(op, p, q))
  <2>1. EvalOutcome(op, t, t, c, d, p, q)
    BY <1>2, EvalBinaryOps
  <2> QED BY <1>1, <2>1 DEF EvalOutcome
<1>4. t \in {"int", "long", "ulong"}
  BY <1>3 DEF Const, Wide
<1>5. /\ t # "ulong" => p = x /\ q = y
      /\ t = "ulong" => Low(XLEN, p) = x /\ Low(XLEN, q) = y
      /\ x \in Int /\ y \in Int /\ p \in Int /\ q \in Int /\ Same(XLEN, p, x) /\ Same(XLEN, q, y)
      /\ XLEN \in 0 .. XLEN
  BY <1>1, <1>4, ConstIs, TypeWidths
<1>6. PICK e : e = Exact(op, x, y)
  OBVIOUS
<1>7. \E z \in Int : r = Folded(z) /\ e \in Int /\ Same(XLEN, z, e)
  <2>1. CASE op \in {"add", "sub", "mul"}
    <3>1. Exact(op, x, y) \in Int /\ Exact(op, p, q) \in Int /\ Same(XLEN, Exact(op, p, q), Exact(op, x, y))
      BY <1>5, <2>1, ExactSame
    <3> QED BY <1>3, <1>6, <2>1, <3>1
  <2>2. CASE op = "div" \/ op = "mod"
    <3>0. y # 0
      BY <2>2 DEF Defined
    <3>1. e \in Int
      <4>1. Quotient(x, y) \in Int /\ Remainder(x, y) \in Int
        BY <1>5, <3>0, QuotientIs
      <4>2. e = Quotient(x, y) \/ e = Remainder(x, y)
        BY <1>6, <2>2, ExactIs
      <4> QED BY <4>1, <4>2
    <3>2. r = Folded(e)
      <4>1. CASE t = "ulong"
        BY <1>3, <1>5, <1>6, <2>2, <4>1 DEF Unsigned
      <4>2. CASE t # "ulong"
        <5>1. t \notin Unsigned
          BY <1>4, <4>2 DEF Unsigned
        <5> QED BY <1>3, <1>5, <1>6, <2>2, <4>2, <5>1
      <4> QED BY <4>1, <4>2
    <3>3. Same(XLEN, e, e)
      BY <1>5, <3>1, SameRefl
    <3> QED BY <3>1, <3>2, <3>3
  <2>3. CASE op \in Logical
    <3>1. e = Bitwise(op, x, y) /\ Exact(op, p, q) = Bitwise(op, p, q)
      BY <1>6, <2>3, ExactIs
    <3>2. t = "int" => Bitwise(op, x, y) \in Values("int")
      BY <1>6, <2>3, <3>1, Overflow DEF Logical
    <3>3. /\ Bitwise(op, x, y) \in Int /\ Bitwise(op, p, q) = Bitwise(op, x, y)
          /\ Bitwise(op, p, q) = Extended(XLEN, InType(t, Bitwise(op, x, y)))
      <4>1. x \in Int /\ y \in Int /\ p \in Int /\ q \in Int /\ Same(XLEN, p, x) /\ Same(XLEN, q, y)
        BY <1>5
      <4>2. op \in Logical /\ t \in Wide /\ x \in Values(t) /\ y \in Values(t)
        BY <2>3
      <4> QED BY ONLY <3>2, <4>1, <4>2, BitwiseIs
    <3>4. r = Folded(e) /\ e \in Int
      BY <1>3, <2>3, <3>1, <3>3 DEF Logical
    <3>5. Same(XLEN, e, e)
      BY <1>5, <3>4, SameRefl
    <3> QED BY <3>4, <3>5
  <2> QED BY <2>1, <2>2, <2>3 DEF Arithmetic, Multiplicative, Additive, Logical
<1>8. PICK z \in Int : r = Folded(z) /\ e \in Int /\ Same(XLEN, z, e)
  BY <1>7
<1>9. t = "int" => e \in Values("int")
  <2> SUFFICES ASSUME t = "int" PROVE e \in Values("int")
    OBVIOUS
  <2>1. CASE op = "mod"
    <3>1. y # 0 /\ e = Remainder(x, y)
      BY <1>6, <2>1, ExactIs DEF Defined
    <3> QED BY <3>1, RemainderInt
  <2>2. CASE op # "mod"
    BY <1>6, <2>2, Overflow
  <2> QED BY <2>1, <2>2
<1>10. Extended(XLEN, z) = Extended(XLEN, InType(t, e))
  BY <1>4, <1>8, <1>9, RegOfWide
<1> QED BY <1>1, <1>4, <1>6, <1>8, <1>10 DEF Folded

LEMMA EvalComparison ==
  ASSUME NEW op, NEW t, NEW c, NEW d, NEW x, NEW y, op \in Comparison, t \in Wide,
         x \in Values(t), y \in Values(t), Const(c, t, x), Const(d, t, y)
  PROVE  Const(EvalBinary(op, "int", t, c, d), "int", Compare(op, x, y))
<1>0. Compare(op, x, y) = Extended(XLEN, Compare(op, x, y))
  <2>0. x \in Int /\ y \in Int
    BY WideIs, ValuesInt
  <2>1. PICK b \in BOOLEAN : Compare(op, x, y) = Truth(b)
    <3>1. CASE op = "eq"
      <4>1. Compare(op, x, y) = Truth(x = y)
        BY <3>1 DEF Compare
      <4> QED BY <4>1
    <3>2. CASE op = "ne"
      <4>1. Compare(op, x, y) = Truth(x # y)
        BY <3>2 DEF Compare
      <4> QED BY <4>1
    <3>3. CASE op = "lt"
      <4>1. Compare(op, x, y) = Truth(x < y) /\ (x < y) \in BOOLEAN
        BY <2>0, <3>3 DEF Compare
      <4> QED BY <4>1
    <3>4. CASE op = "le"
      <4>1. Compare(op, x, y) = Truth(x <= y) /\ (x <= y) \in BOOLEAN
        BY <2>0, <3>4 DEF Compare
      <4> QED BY <4>1
    <3> QED BY <3>1, <3>2, <3>3, <3>4 DEF Comparison
  <2> QED BY <2>1, TruthValue
<1> SUFFICES ASSUME EvalBinary(op, "int", t, c, d) # <<>>
             PROVE  EvalBinary(op, "int", t, c, d) = <<Compare(op, x, y)>>
  BY <1>0 DEF Const
<1>1. PICK p, q, r : p = Extended(XLEN, x) /\ q = Extended(XLEN, y) /\ r = EvalBinary(op, "int", t, c, d)
  OBVIOUS
<1>2. (c # <<>> => c = <<p>>) /\ (d # <<>> => d = <<q>>)
  BY <1>1 DEF Const
<1>3. /\ c # <<>>
      /\ op \in {"lt", "le"} /\ t \in Unsigned => r = <<Compare(op, Low(XLEN, p), Low(XLEN, q))>>
      /\ op \in {"eq", "ne"} \/ (op \in {"lt", "le"} /\ t \notin Unsigned) => r = <<Compare(op, p, q)>>
  <2>1. EvalOutcome(op, "int", t, c, d, p, q)
    BY <1>2, EvalBinaryOps
  <2> QED BY <1>1, <2>1 DEF EvalOutcome
<1>4. t \in {"int", "long", "ulong"}
  BY <1>3 DEF Const, Wide
<1>5. /\ t # "ulong" => p = x /\ q = y
      /\ t = "ulong" => Low(XLEN, p) = x /\ Low(XLEN, q) = y
  BY <1>1, <1>4, ConstIs
<1>6. CASE op \in {"eq", "ne"}
  <2>1. <<op, t>> \notin WeakOps
    BY <1>6 DEF WeakOps
  <2>2. Instruction(op, t, p, q) = Compare(op, x, y)
    <3>1. Reg(p, t, x) /\ Reg(q, t, y) /\ t # "uint"
      BY <1>1, <1>4 DEF Reg
    <3>2. Instruction(op, t, p, q) = Compare(op, x, y)
      BY <2>1, <3>1, ComparisonReg
    <3> QED BY <3>2
  <2>3. Instruction(op, t, p, q) = Compare(op, p, q)
    BY <1>6, InstructionOps
  <2> QED BY <1>1, <1>3, <1>6, <2>2, <2>3
<1>7. CASE op \in {"lt", "le"} /\ t = "ulong"
  BY <1>1, <1>3, <1>5, <1>7 DEF Unsigned
<1>8. CASE op \in {"lt", "le"} /\ t # "ulong"
  <2>1. t \notin Unsigned
    BY <1>4, <1>8 DEF Unsigned
  <2> QED BY <1>1, <1>3, <1>5, <1>8, <2>1
<1> QED BY <1>6, <1>7, <1>8 DEF Comparison

LEMMA EvalShift ==
  ASSUME XLEN <= Pow2[Bits["int"] - 1],
         NEW op, NEW t, NEW u, NEW c, NEW d, NEW x, NEW y, op \in Shift, t \in Wide, u \in AllTypes,
         x \in Values(t), y \in Values(u), Const(c, t, x), Const(d, u, y), Defined(op, t, x, y)
  PROVE  Const(EvalBinary(op, t, t, c, d), t, InType(t, Exact(op, x, y)))
<1> SUFFICES ASSUME EvalBinary(op, t, t, c, d) # <<>>
             PROVE  /\ t \notin {"bool", "uint"}
                    /\ EvalBinary(op, t, t, c, d) = <<Extended(XLEN, InType(t, Exact(op, x, y)))>>
  BY DEF Const
<1>1. PICK p, q, r : p = Extended(XLEN, x) /\ q = Extended(XLEN, y) /\ r = EvalBinary(op, t, t, c, d)
  OBVIOUS
<1>2. (c # <<>> => c = <<p>>) /\ (d # <<>> => d = <<q>>)
  BY <1>1 DEF Const
<1>3. /\ c # <<>>
      /\ op = "shr" /\ t = "ulong" => r = Folded(Exact(op, Low(XLEN, p), q))
      /\ op = "shl" \/ (op = "shr" /\ t # "ulong") => r = Folded(Exact(op, p, q))
  <2>1. EvalOutcome(op, t, t, c, d, p, q)
    BY <1>2, EvalBinaryOps
  <2> QED BY <1>1, <2>1 DEF EvalOutcome
<1>4. t \in {"int", "long", "ulong"}
  BY <1>3 DEF Const, Wide
<1>5. /\ t # "ulong" => p = x
      /\ t = "ulong" => Low(XLEN, p) = x
      /\ x \in Int /\ p \in Int /\ Same(XLEN, p, x) /\ XLEN \in 0 .. XLEN /\ XLEN \in Nat /\ Bits[t] \in 0 .. XLEN
  BY <1>1, <1>4, ConstIs, TypeWidths
<1>6. y \in 0 .. Bits[t] - 1 /\ y \in 0 .. XLEN - 1 /\ y \in 0 .. XLEN
  BY <1>5 DEF Defined
<1>7. q = y
  <2>1. Reg(q, u, y)
    BY <1>1 DEF Reg
  <2> QED BY <1>6, <2>1, CountIs
<1>8. PICK k \in Nat \ {0} : k = Pow2[y]
  BY <1>6, Pow2Is
<1>9. PICK e : e = Exact(op, x, y)
  OBVIOUS
<1>10. \E z \in Int : r = Folded(z) /\ e \in Int /\ Same(XLEN, z, e)
  <2>1. CASE op = "shl"
    <3>1. Exact(op, p, q) = p * k /\ e = x * k
      BY <1>7, <1>8, <1>9, <2>1, ExactIs
    <3>2. k \in Int /\ Same(XLEN, k, k) /\ p * k \in Int /\ x * k \in Int
      BY <1>5, SameRefl
    <3>3. Same(XLEN, p * k, x * k)
      BY <1>5, <3>2, SameMul
    <3> QED BY <1>3, <2>1, <3>1, <3>2, <3>3
  <2>2. CASE op = "shr"
    <3>1. e = x \div k /\ e \in Int
      <4>1. x \div k \in Int
        BY <1>5, DivMod
      <4> QED BY <1>8, <1>9, <2>2, <4>1, ExactIs
    <3>2. r = Folded(e)
      BY <1>3, <1>5, <1>7, <1>9, <2>2
    <3>3. Same(XLEN, e, e)
      BY <1>5, <3>1, SameRefl
    <3> QED BY <3>1, <3>2, <3>3
  <2> QED BY <2>1, <2>2 DEF Shift
<1>11. PICK z \in Int : r = Folded(z) /\ e \in Int /\ Same(XLEN, z, e)
  BY <1>10
<1>12. t = "int" => e \in Values("int")
  BY <1>9, Overflow DEF Shift
<1>13. Extended(XLEN, z) = Extended(XLEN, InType(t, e))
  BY <1>4, <1>11, <1>12, RegOfWide
<1> QED BY <1>1, <1>4, <1>9, <1>11, <1>13 DEF Folded

-----------------------------------------------------------------------------
(* Expressions whose register, and constant, are right *)

NoFoldedUnsigned == FoldedTypes \cap {"bool", "uint"} = {}

\* The combinations for which the conventions of codegen.c do not hold are left
\* out, and an int can count the bits of a register.
Restricted == /\ WeakOps \subseteq SkippedOps /\ WeakCasts \subseteq SkippedCasts /\ WeakAlike \subseteq AlikeOps
              /\ XLEN <= Pow2[Bits["int"] - 1]

Holds(t, v, reg, c) == /\ t \in AllTypes /\ v \in Values(t) /\ Reg(reg, t, v)
                       /\ NoFoldedUnsigned => Const(c, t, v)
Sound(e) == Typed(e) /\ Holds(e.type, e.cval, e.reg, e.const)

LEMMA ExprSound ==
  ASSUME NEW t, NEW v, NEW reg, NEW c, Holds(t, v, reg, c)
  PROVE  Sound(Expr(t, v, t, reg, c))
<1>1. t \in AllTypes
  BY DEF Holds
<1> QED BY <1>1 DEF Sound, Typed, Expr

LEMMA NumberSound ==
  ASSUME NEW t, NEW v, t \in AllTypes, v \in Values(t)
  PROVE  Sound(NumberOf(t, v))
<1>1. Reg(Extended(XLEN, v), t, v)
  BY DEF Reg
<1>2. NoFoldedUnsigned => Const(EvalNumber(t, v), t, v)
  BY DEF NoFoldedUnsigned, Const, EvalNumber, Folded
<1>3. Holds(t, v, Extended(XLEN, v), EvalNumber(t, v))
  BY <1>1, <1>2 DEF Holds
<1> QED BY <1>3, ExprSound DEF NumberOf

LEMMA VariableSound ==
  ASSUME NEW t, NEW v, t \in AllTypes, v \in Values(t)
  PROVE  Sound(VariableOf(t, v))
<1>1. load(t, v) = Extended(XLEN, v)
  BY WidthIs DEF load
<1>2. Holds(t, v, load(t, v), <<>>)
  BY <1>1 DEF Reg, Const, Holds
<1> QED BY <1>2, ExprSound DEF VariableOf

\* A cast, whatever is then done with its constant, and a load.
LEMMA CastHolds ==
  ASSUME NEW from, NEW to, NEW v, NEW reg, NEW c, Holds(from, v, reg, c), to \in AllTypes,
         WeakCasts \subseteq SkippedCasts, Conv(from, to)
  PROVE  /\ to # "uint" => cast(from, to, reg) = Extended(XLEN, InType(to, v))
         /\ Holds(to, InType(to, v), cast(from, to, reg), EvalCast(to, c))
         /\ Holds(to, InType(to, v), cast(from, to, reg), <<>>)
         /\ load(to, cast(from, to, reg)) = Extended(XLEN, InType(to, v))
         /\ Holds(to, InType(to, v), load(to, cast(from, to, reg)), <<>>)
         /\ Bits[to] < Bits["int"] => InWidth(to, cast(from, to, reg)) = cast(from, to, reg)
<1>1. from \in AllTypes /\ v \in Values(from) /\ Reg(reg, from, v) /\ (NoFoldedUnsigned => Const(c, from, v))
  BY DEF Holds
<1>2. <<from, to>> \notin WeakCasts
  BY DEF Conv
<1>3. /\ to # "uint" => cast(from, to, reg) = Extended(XLEN, InType(to, v))
      /\ Reg(cast(from, to, reg), to, InType(to, v))
  BY <1>1, <1>2, CastIs
<1>4. v \in Int /\ InType(to, v) \in Values(to)
  BY <1>1, ValuesInt, InTypeIs
<1>5. NoFoldedUnsigned => Const(EvalCast(to, c), to, InType(to, v))
  BY <1>1, EvalCastIs DEF NoFoldedUnsigned
<1>7. Const(<<>>, to, InType(to, v))
  BY DEF Const
<1>8. /\ Holds(to, InType(to, v), cast(from, to, reg), EvalCast(to, c))
      /\ Holds(to, InType(to, v), cast(from, to, reg), <<>>)
  BY <1>3, <1>4, <1>5, <1>7 DEF Holds
<1>9. InWidth(to, Extended(XLEN, InType(to, v))) = InType(to, v)
  BY <1>4, WidthIs
<1>10. /\ load(to, cast(from, to, reg)) = Extended(XLEN, InType(to, v))
       /\ Holds(to, InType(to, v), load(to, cast(from, to, reg)), <<>>)
  <2>1. InWidth(to, cast(from, to, reg)) = InType(to, v)
    <3>1. CASE to # "uint"
      BY <1>3, <1>9, <3>1
    <3>2. CASE to = "uint"
      BY <1>3, <1>4, <3>2, WidthReads DEF Wide
    <3> QED BY <3>1, <3>2
  <2>2. load(to, cast(from, to, reg)) = Extended(XLEN, InType(to, v))
    BY <2>1 DEF load
  <2> QED BY <1>4, <1>7, <2>2 DEF Holds, Reg
<1>11. Bits[to] < Bits["int"] => InWidth(to, cast(from, to, reg)) = cast(from, to, reg)
  <2> SUFFICES ASSUME Bits[to] < Bits["int"]
               PROVE  InWidth(to, Extended(XLEN, InType(to, v))) = Extended(XLEN, InType(to, v))
    <3>1. Bits["uint"] = Bits["int"] /\ Bits["int"] \in 1 .. XLEN
      BY TypeWidths DEF AllTypes
    <3>2. Bits[to] < Bits["int"] => to # "uint"
      BY <3>1
    <3>3. to # "uint" => cast(from, to, reg) = Extended(XLEN, InType(to, v))
      BY <1>3
    <3> QED BY <3>2, <3>3
  <2>1. to # "ulong"
    BY TypeWidths DEF AllTypes
  <2>2. Extended(XLEN, InType(to, v)) = InType(to, v)
    BY <1>4, <2>1, InRegister
  <2> QED BY <1>9, <2>2
<1> QED BY <1>3, <1>8, <1>10, <1>11

LEMMA SameTypeConv ==
  ASSUME NEW t, NEW v, NEW reg, NEW c, Holds(t, v, reg, c)
  PROVE  load(t, cast(t, t, reg)) = Extended(XLEN, v) /\ InType(t, v) = v
<1>1. t \in AllTypes /\ v \in Values(t) /\ Reg(reg, t, v) /\ InType(t, v) = v
  BY InTypeFixed DEF Holds
<1>2. <<t, t>> \notin WeakCasts
  BY DEF WeakCasts
<1>3. Reg(cast(t, t, reg), t, v) /\ (t # "uint" => cast(t, t, reg) = Extended(XLEN, v))
  BY <1>1, <1>2, CastIs
<1>4. InWidth(t, cast(t, t, reg)) = v
  <2>1. CASE t # "uint"
    BY <1>1, <1>3, <2>1, WidthIs
  <2>2. CASE t = "uint"
    BY <1>1, <1>3, <2>2, WidthReads DEF Wide
  <2> QED BY <2>1, <2>2
<1> QED BY <1>1, <1>4 DEF load

LEMMA CastSound ==
  ASSUME Restricted, NEW e, NEW to, Sound(e), to \in AllTypes, Conv(e.ty, to)
  PROVE  /\ Sound(CastOf(e, to)) /\ Sound(Stored(e, to))
         /\ Sound([Stored(e, to) EXCEPT !.reg = load(to, @)])
         /\ Sound([CastOf(e, to) EXCEPT !.reg = IF Bits[to] < Bits["int"] THEN InWidth(to, @) ELSE @,
                                        !.const = <<>>])
         /\ CastOf(e, to).type = to /\ CastOf(e, to).ty = to /\ CastOf(e, to).cval = InType(to, e.cval)
         /\ Stored(e, to).type = to /\ Stored(e, to).ty = to /\ Stored(e, to).cval = InType(to, e.cval)
         /\ Stored(e, to).const = <<>>
<1>1. PICK from, v, reg, c : from = e.type /\ v = e.cval /\ reg = e.reg /\ c = e.const
  OBVIOUS
<1>2. e.ty = from /\ Holds(from, v, reg, c)
  BY <1>1 DEF Sound, Typed
<1>3. PICK w, r, k : w = InType(to, v) /\ r = cast(from, to, reg) /\ k = EvalCast(to, c)
  OBVIOUS
<1>4. /\ Holds(to, w, r, k) /\ Holds(to, w, r, <<>>) /\ Holds(to, w, load(to, r), <<>>)
      /\ (Bits[to] < Bits["int"] => InWidth(to, r) = r)
  BY <1>2, <1>3, CastHolds DEF Restricted
<1>5. CastOf(e, to) = Expr(to, w, to, r, k)
  BY <1>1, <1>2, <1>3, Zenon DEF CastOf
<1>6. Stored(e, to) = Expr(to, w, to, r, <<>>)
  BY <1>5 DEF Stored, Expr
<1>7. [Expr(to, w, to, r, <<>>) EXCEPT !.reg = load(to, @)] = Expr(to, w, to, load(to, r), <<>>)
  BY DEF Expr
<1>8. PICK f : f = IF Bits[to] < Bits["int"] THEN InWidth(to, r) ELSE r
  OBVIOUS
<1>9. f = r
  BY <1>4, <1>8
<1>10. [CastOf(e, to) EXCEPT !.reg = IF Bits[to] < Bits["int"] THEN InWidth(to, @) ELSE @,
                             !.const = <<>>]
       = Expr(to, w, to, r, <<>>)
  <2>1. Expr(to, w, to, r, k).reg = r
    BY DEF Expr
  <2>2. [CastOf(e, to) EXCEPT !.reg = IF Bits[to] < Bits["int"] THEN InWidth(to, @) ELSE @,
                              !.const = <<>>]
        = [Expr(to, w, to, r, k) EXCEPT !.reg = f, !.const = <<>>]
    BY <1>5, <1>8, <2>1
  <2>3. [Expr(to, w, to, r, k) EXCEPT !.reg = f, !.const = <<>>]
        = [Expr(to, w, to, r, k) EXCEPT !.reg = r, !.const = <<>>]
    BY <1>9
  <2>4. [Expr(to, w, to, r, k) EXCEPT !.reg = r, !.const = <<>>] = Expr(to, w, to, r, <<>>)
    <3>1. [Expr(to, w, to, r, k) EXCEPT !.reg = r] = Expr(to, w, to, r, k)
      BY DEF Expr
    <3>2. [Expr(to, w, to, r, k) EXCEPT !.const = <<>>] = Expr(to, w, to, r, <<>>)
      BY DEF Expr
    <3>3. [Expr(to, w, to, r, k) EXCEPT !.reg = r, !.const = <<>>]
          = [[Expr(to, w, to, r, k) EXCEPT !.reg = r] EXCEPT !.const = <<>>]
      OBVIOUS
    <3> QED BY <3>1, <3>2, <3>3, Zenon
  <2> QED BY <2>2, <2>3, <2>4, Zenon
<1>11. Sound(Expr(to, w, to, r, k)) /\ Sound(Expr(to, w, to, r, <<>>)) /\ Sound(Expr(to, w, to, load(to, r), <<>>))
  BY <1>4, ExprSound
<1>12. /\ Expr(to, w, to, r, k).type = to /\ Expr(to, w, to, r, k).ty = to /\ Expr(to, w, to, r, k).cval = w
       /\ Expr(to, w, to, r, <<>>).type = to /\ Expr(to, w, to, r, <<>>).ty = to
       /\ Expr(to, w, to, r, <<>>).cval = w /\ Expr(to, w, to, r, <<>>).const = <<>>
  BY DEF Expr
<1>13. w = InType(to, e.cval)
  BY <1>1, <1>3
<1>14. Sound([Stored(e, to) EXCEPT !.reg = load(to, @)])
  BY <1>6, <1>7, <1>11
<1>15. Sound([CastOf(e, to) EXCEPT !.reg = IF Bits[to] < Bits["int"] THEN InWidth(to, @) ELSE @,
                             !.const = <<>>])
  BY <1>10, <1>11
<1>16. Sound(CastOf(e, to)) /\ Sound(Stored(e, to))
  BY <1>5, <1>6, <1>11
<1>17. /\ CastOf(e, to).type = to /\ CastOf(e, to).ty = to /\ CastOf(e, to).cval = InType(to, e.cval)
       /\ Stored(e, to).type = to /\ Stored(e, to).ty = to /\ Stored(e, to).cval = InType(to, e.cval)
       /\ Stored(e, to).const = <<>>
  BY <1>5, <1>6, <1>12, <1>13
<1> QED BY <1>14, <1>15, <1>16, <1>17

-----------------------------------------------------------------------------
(* Binary operators *)

LEMMA UsualIs ==
  ASSUME NEW t, NEW u, t \in AllTypes, u \in AllTypes
  PROVE  /\ UsualType(t, u) \in Wide /\ UsualType(t, u) = UsualType(u, t)
         /\ get_common_type(t, u) = UsualType(t, u)
<1>1. PICK p, q : p = Promoted(t) /\ q = Promoted(u) /\ p \in Wide /\ q \in Wide
  BY PromotedIs
<1>2. Bits[p] \in Nat /\ Bits[q] \in Nat
  BY <1>1, WideIs
<1>3. /\ UsualType(t, u) = IF p = q THEN p
                           ELSE IF Bits[p] > Bits[q] THEN p
                           ELSE IF Bits[q] > Bits[p] THEN q
                           ELSE CHOOSE s \in {p, q} : s \in Unsigned
      /\ UsualType(u, t) = IF q = p THEN q
                           ELSE IF Bits[q] > Bits[p] THEN q
                           ELSE IF Bits[p] > Bits[q] THEN p
                           ELSE CHOOSE s \in {q, p} : s \in Unsigned
  BY <1>1 DEF UsualType
<1>4. PICK z : z = (CHOOSE s \in {p, q} : s \in Unsigned) /\ z = (CHOOSE s \in {q, p} : s \in Unsigned)
  <2>1. {p, q} = {q, p}
    OBVIOUS
  <2>2. (CHOOSE s \in {p, q} : s \in Unsigned) = (CHOOSE s \in {q, p} : s \in Unsigned)
    BY <2>1, Zenon
  <2> QED BY <2>2
<1>5. UsualType(t, u) = UsualType(u, t)
  <2>1. /\ UsualType(t, u) = IF p = q THEN p ELSE IF Bits[p] > Bits[q] THEN p ELSE IF Bits[q] > Bits[p] THEN q ELSE z
        /\ UsualType(u, t) = IF q = p THEN q ELSE IF Bits[q] > Bits[p] THEN q ELSE IF Bits[p] > Bits[q] THEN p ELSE z
    BY <1>3, <1>4, Zenon
  <2> QED BY <1>2, <2>1
<1>6. get_common_type(t, u) = IF Bits[p] # Bits[q] THEN IF Bits[p] < Bits[q] THEN q ELSE p
                              ELSE IF q \in Unsigned THEN q ELSE p
  BY <1>1 DEF get_common_type, Promoted
<1>7. get_common_type(t, u) = UsualType(t, u)
  BY CommonTypeIsUsual
<1> QED BY <1>1, <1>5, <1>6, <1>7

LEMMA ArithmeticParts ==
  ASSUME NEW op, NEW l, NEW r, NEW t, Typed(l), Typed(r), t = UsualType(l.type, r.type)
  PROVE  LET x == InType(t, l.cval)
             y == InType(t, r.cval)
             reg == Instruction(op, t, cast(l.type, t, l.reg), cast(r.type, t, r.reg))
         IN  /\ op \in Arithmetic =>
                  ArithmeticOf(op, l, r) =
                    Expr(t, InType(t, Exact(op, x, y)), t, reg,
                         EvalBinary(op, t, t, EvalCast(t, l.const), EvalCast(t, r.const)))
             /\ op \in Comparison =>
                  ArithmeticOf(op, l, r) =
                    Expr("int", Compare(op, x, y), "int", reg,
                         EvalBinary(op, "int", t, EvalCast(t, l.const), EvalCast(t, r.const)))
<1>1. t = get_common_type(l.ty, r.ty) /\ l.ty = l.type /\ r.ty = r.type
  BY UsualIs DEF Typed
<1> DEFINE x == InType(t, l.cval)
           y == InType(t, r.cval)
           lreg == cast(l.type, t, l.reg)
           rreg == cast(r.type, t, r.reg)
           lc == EvalCast(t, l.const)
           rc == EvalCast(t, r.const)
<1>2. ArithmeticOf(op, l, r) =
        Expr(IF op \in Comparison THEN "int" ELSE t,
             IF op \in Comparison THEN Compare(op, x, y) ELSE InType(t, Exact(op, x, y)),
             IF op \in Comparison THEN "int" ELSE t,
             Instruction(op, t, lreg, rreg),
             EvalBinary(op, IF op \in Comparison THEN "int" ELSE t, t, lc, rc))
  BY <1>1, Zenon DEF ArithmeticOf
<1> HIDE DEF x, y, lreg, rreg, lc, rc
<1>3. CASE op \in Comparison
  <2>1. op \notin Arithmetic
    BY <1>3 DEF Comparison, Arithmetic, Multiplicative, Additive, Logical
  <2>2. ArithmeticOf(op, l, r) = Expr("int", Compare(op, x, y), "int", Instruction(op, t, lreg, rreg),
                                      EvalBinary(op, "int", t, lc, rc))
    BY <1>2, <1>3, Zenon
  <2> QED BY <2>1, <2>2 DEF x, y, lreg, rreg, lc, rc
<1>4. CASE op \notin Comparison
  <2>1. ArithmeticOf(op, l, r) = Expr(t, InType(t, Exact(op, x, y)), t, Instruction(op, t, lreg, rreg),
                                      EvalBinary(op, t, t, lc, rc))
    BY <1>2, <1>4, Zenon
  <2> QED BY <1>4, <2>1 DEF x, y, lreg, rreg, lc, rc
<1> QED BY <1>3, <1>4

\* Between operands that convert to t: a variable of A += C, A++ ... is not a
\* constant, and may be the result of an addition that overflowed.
LEMMA ArithmeticHolds ==
  ASSUME Restricted,
         NEW op, NEW t, NEW u, NEW v, NEW x, NEW y, NEW a, NEW b, NEW c, NEW d,
         op \in Arithmetic, t \in Wide, Holds(u, x, a, c), Holds(v, y, b, d), Conv(u, t), Conv(v, t),
         op = "xor" /\ t = "uint" => Alike(op, cast(u, t, a), cast(v, t, b)),
         \/ Defined(op, t, InType(t, x), InType(t, y))
         \/ op \in Additive /\ c = <<>>
  PROVE  LET e == Exact(op, InType(t, x), InType(t, y))
         IN  /\ e \in Int
             /\ Holds(t, InType(t, e), Instruction(op, t, cast(u, t, a), cast(v, t, b)),
                      EvalBinary(op, t, t, EvalCast(t, c), EvalCast(t, d)))
<1>0. t \in AllTypes
  BY WideIs
<1>1. PICK xx, yy, aa, bb, cc, dd :
        /\ xx = InType(t, x) /\ yy = InType(t, y) /\ aa = cast(u, t, a) /\ bb = cast(v, t, b)
        /\ cc = EvalCast(t, c) /\ dd = EvalCast(t, d)
  OBVIOUS
<1>2. Holds(t, xx, aa, cc) /\ Holds(t, yy, bb, dd)
  BY <1>0, <1>1, CastHolds DEF Restricted
<1>3. xx \in Values(t) /\ yy \in Values(t) /\ Reg(aa, t, xx) /\ Reg(bb, t, yy) /\ (NoFoldedUnsigned => Const(cc, t, xx) /\ Const(dd, t, yy))
  BY <1>2 DEF Holds
<1>4. Defined(op, t, xx, yy) \/ (op \in Additive /\ cc = <<>>)
  BY <1>1 DEF EvalCast
<1>5. (op \in {"div", "mod"} => yy # 0) /\ (t = "int" /\ op \in Logical => Exact(op, xx, yy) \in Values("int"))
  <2>1. CASE op \in Additive
    BY <2>1 DEF Additive, Logical
  <2>2. CASE Defined(op, t, xx, yy)
    <3>1. op \in {"div", "mod"} => yy # 0
      BY <2>2 DEF Defined
    <3>2. t = "int" /\ op \in Logical => Exact(op, xx, yy) \in Values("int")
      BY <2>2, Overflow DEF Logical
    <3> QED BY <3>1, <3>2
  <2> QED BY <1>4, <2>1, <2>2
<1>6. PICK e, reg, k : e = Exact(op, xx, yy) /\ reg = Instruction(op, t, aa, bb) /\ k = EvalBinary(op, t, t, cc, dd)
  OBVIOUS
<1>7. e \in Int /\ Reg(reg, t, InType(t, e))
  <2>1. op = "xor" /\ t = "uint" => Alike(op, aa, bb)
    BY <1>1
  <2> QED BY <1>3, <1>5, <1>6, <2>1, ArithmeticReg
<1>8. NoFoldedUnsigned => Const(k, t, InType(t, e))
  <2> SUFFICES ASSUME NoFoldedUnsigned PROVE Const(k, t, InType(t, e))
    OBVIOUS
  <2>1. CASE Defined(op, t, xx, yy)
    BY <1>3, <1>6, <2>1, EvalArithmetic
  <2>2. CASE cc = <<>>
    <3>1. k = <<>>
      BY <1>6, <2>2 DEF EvalBinary
    <3> QED BY <3>1 DEF Const
  <2> QED BY <1>4, <2>1, <2>2
<1>9. InType(t, e) \in Values(t)
  BY <1>0, <1>7, InTypeIs
<1>10. e \in Int /\ Holds(t, InType(t, e), reg, k)
  BY <1>0, <1>7, <1>8, <1>9 DEF Holds
<1> QED BY <1>1, <1>6, <1>10, Zenon

LEMMA ComparisonHolds ==
  ASSUME Restricted,
         NEW op, NEW t, NEW u, NEW v, NEW x, NEW y, NEW a, NEW b, NEW c, NEW d,
         op \in Comparison, t \in Wide, Holds(u, x, a, c), Holds(v, y, b, d), Conv(u, t), Conv(v, t),
         t = "uint" => Alike(op, cast(u, t, a), cast(v, t, b)), <<op, t>> \notin SkippedOps
  PROVE  Holds("int", Compare(op, InType(t, x), InType(t, y)),
               Instruction(op, t, cast(u, t, a), cast(v, t, b)),
               EvalBinary(op, "int", t, EvalCast(t, c), EvalCast(t, d)))
<1>0. t \in AllTypes
  BY WideIs
<1>1. PICK xx, yy, aa, bb, cc, dd :
        /\ xx = InType(t, x) /\ yy = InType(t, y) /\ aa = cast(u, t, a) /\ bb = cast(v, t, b)
        /\ cc = EvalCast(t, c) /\ dd = EvalCast(t, d)
  OBVIOUS
<1>2. Holds(t, xx, aa, cc) /\ Holds(t, yy, bb, dd)
  BY <1>0, <1>1, CastHolds DEF Restricted
<1>3. xx \in Values(t) /\ yy \in Values(t) /\ Reg(aa, t, xx) /\ Reg(bb, t, yy) /\ (NoFoldedUnsigned => Const(cc, t, xx) /\ Const(dd, t, yy))
  BY <1>2 DEF Holds
<1>4. PICK e, reg, k : e = Compare(op, xx, yy) /\ reg = Instruction(op, t, aa, bb) /\ k = EvalBinary(op, "int", t, cc, dd)
  OBVIOUS
<1>5. <<op, t>> \notin WeakOps
  BY DEF Restricted
<1>6. reg = e
  <2>1. t = "uint" => Alike(op, aa, bb)
    BY <1>1
  <2> QED BY <1>3, <1>4, <1>5, <2>1, ComparisonReg
<1>7. NoFoldedUnsigned => Const(k, "int", e)
  BY <1>3, <1>4, EvalComparison
<1>8. e \in Values("int") /\ e = Extended(XLEN, e)
  <2>1. xx \in Int /\ yy \in Int
    BY <1>0, <1>3, ValuesInt
  <2>2. e = Truth(TRUE) \/ e = Truth(FALSE)
    <3>1. e = 0 \/ e = 1
      BY <1>4, <2>1 DEF Compare, Truth, Comparison
    <3> QED BY <3>1 DEF Truth
  <2> QED BY <2>2, TruthValue
<1>9. Holds("int", e, reg, k)
  BY <1>6, <1>7, <1>8 DEF Holds, Reg, AllTypes
<1> QED BY <1>1, <1>4, <1>9, Zenon

LEMMA ShiftHolds ==
  ASSUME Restricted,
         NEW op, NEW t, NEW u, NEW x, NEW y, NEW a, NEW b, NEW c, NEW d,
         op \in Shift, t \in Wide, Holds(t, x, a, c), Holds(u, y, b, d), Defined(op, t, x, y)
  PROVE  Holds(t, InType(t, Exact(op, x, y)), Instruction(op, t, a, b), EvalBinary(op, t, t, c, d))
<1>0. t \in AllTypes /\ u \in AllTypes /\ XLEN <= Pow2[Bits["int"] - 1] /\ y \in 0 .. Bits[t] - 1
  BY WideIs DEF Holds, Restricted, Defined
<1>1. /\ x \in Values(t) /\ y \in Values(u) /\ Reg(a, t, x) /\ Reg(b, u, y)
      /\ (NoFoldedUnsigned => Const(c, t, x) /\ Const(d, u, y))
  BY DEF Holds
<1>2. PICK e, reg, k : e = Exact(op, x, y) /\ reg = Instruction(op, t, a, b) /\ k = EvalBinary(op, t, t, c, d)
  OBVIOUS
<1>3. e \in Int /\ Reg(reg, t, InType(t, e))
  BY <1>0, <1>1, <1>2, ShiftReg
<1>4. NoFoldedUnsigned => Const(k, t, InType(t, e))
  BY <1>0, <1>1, <1>2, EvalShift
<1>5. InType(t, e) \in Values(t)
  BY <1>0, <1>3, InTypeIs
<1>6. Holds(t, InType(t, e), reg, k)
  BY <1>0, <1>3, <1>4, <1>5 DEF Holds
<1> QED BY <1>2, <1>6, Zenon

LEMMA ArithmeticSound ==
  ASSUME Restricted,
         NEW op, NEW l, NEW r, NEW t, Sound(l), Sound(r), t = UsualType(l.type, r.type),
         op \in Arithmetic, Conv(l.ty, t), Conv(r.ty, t),
         op = "xor" /\ t = "uint" => Alike(op, cast(l.ty, t, l.reg), cast(r.ty, t, r.reg)),
         \/ Defined(op, t, InType(t, l.cval), InType(t, r.cval))
         \/ op \in Additive /\ l.const = <<>>
  PROVE  LET e == ArithmeticOf(op, l, r)
         IN  /\ Sound(e) /\ e.type = t /\ e.ty = t
             /\ Exact(op, InType(t, l.cval), InType(t, r.cval)) \in Int
             /\ e.cval = InType(t, Exact(op, InType(t, l.cval), InType(t, r.cval)))
             /\ l.const = <<>> => e.const = <<>>
<1>1. PICK u, x, a, c, v, y, b, d : /\ u = l.type /\ x = l.cval /\ a = l.reg /\ c = l.const
                                    /\ v = r.type /\ y = r.cval /\ b = r.reg /\ d = r.const
  OBVIOUS
<1>2. l.ty = u /\ r.ty = v /\ Holds(u, x, a, c) /\ Holds(v, y, b, d) /\ Typed(l) /\ Typed(r) /\ t \in Wide
  BY <1>1, UsualIs DEF Sound, Typed
<1>3. /\ Conv(u, t) /\ Conv(v, t) /\ (Defined(op, t, InType(t, x), InType(t, y)) \/ (op \in Additive /\ c = <<>>))
      /\ op = "xor" /\ t = "uint" => Alike(op, cast(u, t, a), cast(v, t, b))
  BY <1>1, <1>2
<1>4. PICK e, reg, k : /\ e = Exact(op, InType(t, x), InType(t, y))
                       /\ reg = Instruction(op, t, cast(u, t, a), cast(v, t, b))
                       /\ k = EvalBinary(op, t, t, EvalCast(t, c), EvalCast(t, d))
  OBVIOUS
<1>5. e \in Int /\ Holds(t, InType(t, e), reg, k)
  BY <1>2, <1>3, <1>4, ArithmeticHolds
<1>6. ArithmeticOf(op, l, r) = Expr(t, InType(t, e), t, reg, k)
  BY <1>1, <1>2, <1>4, ArithmeticParts
<1>7. Sound(ArithmeticOf(op, l, r))
  BY <1>5, <1>6, ExprSound
<1>8. c = <<>> => k = <<>>
  <2> SUFFICES ASSUME c = <<>> PROVE k = <<>>
    OBVIOUS
  <2>1. EvalCast(t, c) = <<>>
    BY DEF EvalCast
  <2> QED BY <1>4, <2>1 DEF EvalBinary
<1>9. LET n == ArithmeticOf(op, l, r)
      IN  n.type = t /\ n.ty = t /\ n.cval = InType(t, e) /\ n.const = k
  BY <1>6 DEF Expr
<1> QED BY <1>1, <1>4, <1>5, <1>7, <1>8, <1>9

LEMMA ComparisonSound ==
  ASSUME Restricted,
         NEW op, NEW l, NEW r, NEW t, Sound(l), Sound(r), t = UsualType(l.type, r.type),
         op \in Comparison, Conv(l.ty, t), Conv(r.ty, t), <<op, t>> \notin SkippedOps,
         t = "uint" => Alike(op, cast(l.ty, t, l.reg), cast(r.ty, t, r.reg))
  PROVE  LET e == ArithmeticOf(op, l, r)
         IN  /\ Sound(e) /\ e.type = "int" /\ e.ty = "int"
             /\ e.cval = Compare(op, InType(t, l.cval), InType(t, r.cval))
<1>1. PICK u, x, a, c, v, y, b, d : /\ u = l.type /\ x = l.cval /\ a = l.reg /\ c = l.const
                                    /\ v = r.type /\ y = r.cval /\ b = r.reg /\ d = r.const
  OBVIOUS
<1>2. l.ty = u /\ r.ty = v /\ Holds(u, x, a, c) /\ Holds(v, y, b, d) /\ Typed(l) /\ Typed(r) /\ t \in Wide
  BY <1>1, UsualIs DEF Sound, Typed
<1>3. Conv(u, t) /\ Conv(v, t) /\ (t = "uint" => Alike(op, cast(u, t, a), cast(v, t, b)))
  BY <1>1, <1>2
<1>4. PICK e, reg, k : /\ e = Compare(op, InType(t, x), InType(t, y))
                       /\ reg = Instruction(op, t, cast(u, t, a), cast(v, t, b))
                       /\ k = EvalBinary(op, "int", t, EvalCast(t, c), EvalCast(t, d))
  OBVIOUS
<1>5. Holds("int", e, reg, k)
  BY <1>2, <1>3, <1>4, ComparisonHolds
<1>6. ArithmeticOf(op, l, r) = Expr("int", e, "int", reg, k)
  BY <1>1, <1>2, <1>4, ArithmeticParts
<1>7. Sound(ArithmeticOf(op, l, r))
  BY <1>5, <1>6, ExprSound
<1>8. LET n == ArithmeticOf(op, l, r)
      IN  n.type = "int" /\ n.ty = "int" /\ n.cval = e
  BY <1>6 DEF Expr
<1> QED BY <1>1, <1>4, <1>7, <1>8

LEMMA ShiftSound ==
  ASSUME Restricted,
         NEW op, NEW l, NEW r, NEW t, Sound(l), Sound(r), t = Promoted(l.type), op \in Shift,
         <<op, l.ty>> \notin SkippedOps, Defined(op, t, InType(t, l.cval), r.cval)
  PROVE  Sound(ShiftOf(op, l, r)) /\ ShiftOf(op, l, r).ty = l.ty
<1>1. PICK u, x, a, c, v, y, b, d : /\ u = l.type /\ x = l.cval /\ a = l.reg /\ c = l.const
                                    /\ v = r.type /\ y = r.cval /\ b = r.reg /\ d = r.const
  OBVIOUS
<1>2. l.ty = u /\ r.ty = v /\ Holds(u, x, a, c) /\ Holds(v, y, b, d) /\ u \in AllTypes /\ x \in Values(u)
  BY <1>1 DEF Sound, Typed, Holds
<1>3. t = u /\ t \in Wide
  <2>1. <<op, u>> \notin WeakOps
    BY <1>2 DEF Restricted
  <2>2. u \in Wide
    BY <1>2, <2>1 DEF WeakOps, Shift, Wide, AllTypes
  <2> QED BY <1>1, <2>2, WideIs
<1>4. InType(t, x) = x
  BY <1>2, <1>3, InTypeFixed
<1>5. Defined(op, t, x, y)
  BY <1>1, <1>4
<1>6. PICK e, reg, k : e = Exact(op, x, y) /\ reg = Instruction(op, t, a, b) /\ k = EvalBinary(op, t, t, c, d)
  OBVIOUS
<1>7. Holds(t, InType(t, e), reg, k)
  BY <1>2, <1>3, <1>5, <1>6, ShiftHolds
<1>8. ShiftOf(op, l, r) = Expr(t, InType(t, Exact(op, InType(t, x), y)), u, Instruction(op, u, a, b),
                               EvalBinary(op, u, u, c, d))
  <2>1. l.type = u /\ l.cval = x /\ l.reg = a /\ l.const = c /\ r.cval = y /\ r.reg = b /\ r.const = d /\ l.ty = u
        /\ Promoted(u) = t
    BY <1>1, <1>2
  <2> QED BY <2>1, Zenon DEF ShiftOf
<1>9. ShiftOf(op, l, r) = Expr(t, InType(t, e), t, reg, k)
  BY <1>3, <1>4, <1>6, <1>8, Zenon
<1>10. Sound(ShiftOf(op, l, r))
  BY <1>7, <1>9, ExprSound
<1>11. ShiftOf(op, l, r).ty = t
  BY <1>9 DEF Expr
<1> QED BY <1>2, <1>3, <1>10, <1>11

LEMMA BinarySound ==
  ASSUME Restricted,
         NEW op, NEW l, NEW r, Sound(l), Sound(r), op \in Arithmetic \cup Comparison \cup Shift,
         Meaningful(op, l, r)
  PROVE  Sound(BinaryOf(op, l, r))
<1>1. CASE op \in Shift
  <2>1. /\ <<op, l.ty>> \notin SkippedOps /\ Defined(op, Promoted(l.type), InType(Promoted(l.type), l.cval), r.cval)
    <3>1. op \notin Comparison
      BY <1>1 DEF Shift, Comparison
    <3> QED BY <1>1, <3>1 DEF Meaningful
  <2>2. BinaryOf(op, l, r) = ShiftOf(op, l, r)
    BY <1>1 DEF BinaryOf
  <2> QED BY <1>1, <2>1, <2>2, ShiftSound
<1>2. CASE op \notin Shift
  <2>1. PICK t : t = UsualType(l.type, r.type) /\ t = get_common_type(l.ty, r.ty)
    BY UsualIs DEF Sound, Typed
  <2>2. /\ <<op, t>> \notin SkippedOps /\ Conv(l.ty, t) /\ Conv(r.ty, t)
        /\ op \notin Comparison => Defined(op, t, InType(t, l.cval), InType(t, r.cval))
        /\ op \in WeakAlike /\ t = "uint" => Alike(op, cast(l.ty, t, l.reg), cast(r.ty, t, r.reg))
    BY <1>2, <2>1 DEF Meaningful, Restricted
  <2>3. BinaryOf(op, l, r) = ArithmeticOf(op, l, r)
    BY <1>2 DEF BinaryOf
  <2>4. CASE op \in Comparison
    <3>1. op \in WeakAlike
      BY <2>4 DEF WeakAlike
    <3> QED BY <2>1, <2>2, <2>3, <2>4, <3>1, ComparisonSound
  <2>5. CASE op \notin Comparison
    <3>1. op \in Arithmetic /\ (op = "xor" => op \in WeakAlike)
      BY <1>2, <2>5 DEF WeakAlike
    <3> QED BY <2>1, <2>2, <2>3, <2>5, <3>1, ArithmeticSound
  <2> QED BY <2>4, <2>5
<1> QED BY <1>1, <1>2

-----------------------------------------------------------------------------
(* Operators with one operand *)

LEMMA NegHolds ==
  ASSUME Restricted, NEW t, NEW u, NEW x, NEW a, NEW c, Holds(u, x, a, c), t = Promoted(u), Conv(u, t),
         Defined("sub", t, 0, InType(t, x))
  PROVE  Holds(t, InType(t, -x), Extended(Bits[t], -cast(u, t, a)),
               IF EvalCast(t, c) = <<>> THEN <<>> ELSE Folded(-EvalCast(t, c)[1]))
<1>0. /\ u \in AllTypes /\ x \in Values(u) /\ t \in Wide /\ t \in AllTypes /\ t # "bool" /\ x \in Values(t)
      /\ x \in Int /\ InType(t, x) = x /\ Bits[t] \in 0 .. XLEN /\ XLEN \in 0 .. XLEN
  BY PromotedIs, ValuesInt, InTypeFixed, WideIs DEF Holds
<1>1. PICK r, k : /\ r = cast(u, t, a) /\ k = EvalCast(t, c) /\ Holds(t, x, r, k)
                  /\ (t # "uint" => r = Extended(XLEN, x))
  BY <1>0, CastHolds DEF Restricted
<1>2. r \in Int /\ Same(Bits[t], r, x) /\ (t # "uint" => Same(XLEN, r, x))
  BY <1>0, <1>1, RegIs, RegisterSame DEF Holds
<1>3. Same(Bits[t], 0, 0) /\ Same(XLEN, 0, 0) /\ 0 \in Int /\ 0 - r = -r /\ 0 - x = -x /\ -r \in Int /\ -x \in Int
  BY <1>0, <1>2, SameRefl
<1>4. Same(Bits[t], 0 - r, 0 - x) /\ (t # "uint" => Same(XLEN, 0 - r, 0 - x))
  BY <1>0, <1>2, <1>3, SameAdd
<1>5. PICK nr, nx : nr = -r /\ nx = -x /\ nr \in Int /\ nx \in Int /\ Same(Bits[t], nr, nx)
                      /\ (t # "uint" => Same(XLEN, nr, nx))
  BY <1>3, <1>4
<1>6. InType(t, nx) \in Values(t) /\ InType(t, nx) \in Int /\ Same(Bits[t], InType(t, nx), nx)
  BY <1>0, <1>5, InTypeIs
<1>7. Same(Bits[t], nx, InType(t, nx))
  BY <1>0, <1>5, <1>6, SameSym
<1>8. Same(Bits[t], nr, InType(t, nx))
  BY <1>0, <1>5, <1>6, <1>7, SameTrans
<1>9. Reg(Extended(Bits[t], nr), t, InType(t, nx))
  BY <1>0, <1>5, <1>6, <1>8, RegOfExtended
<1>10. PICK n : n = IF k = <<>> THEN <<>> ELSE Folded(-k[1])
  OBVIOUS
<1>11. NoFoldedUnsigned => Const(n, t, InType(t, nx))
  <2> SUFFICES ASSUME NoFoldedUnsigned, k # <<>>
               PROVE  t \notin {"bool", "uint"} /\ n = <<Extended(XLEN, InType(t, nx))>>
    BY <1>10 DEF Const
  <2>1. t \notin {"bool", "uint"} /\ k = <<r>>
    BY <1>1, <1>10 DEF Holds, Const
  <2>2. n = <<Extended(XLEN, nr)>>
    BY <1>5, <1>10, <2>1 DEF Folded
  <2>3. t = "int" => nx \in Values("int")
    <3> SUFFICES ASSUME t = "int" PROVE nx \in Values("int")
      OBVIOUS
    <3>1. Exact("sub", 0, x) \in Values("int")
      BY <1>0, Overflow
    <3>2. Exact("sub", 0, x) = 0 - x
      BY ExactIs
    <3> QED BY <1>3, <1>5, <3>1, <3>2
  <2>4. t \in {"int", "long", "ulong"}
    BY <1>0, <2>1 DEF Wide
  <2>5. Extended(XLEN, nr) = Extended(XLEN, InType(t, nx))
    BY <1>5, <2>3, <2>4, RegOfWide
  <2> QED BY <2>1, <2>2, <2>5
<1>12. Holds(t, InType(t, nx), Extended(Bits[t], nr), n)
  BY <1>0, <1>6, <1>9, <1>11 DEF Holds
<1> QED BY <1>1, <1>5, <1>10, <1>12, Zenon

LEMMA BitNotHolds ==
  ASSUME Restricted, NEW u, NEW x, NEW a, NEW c, Holds(u, x, a, c), <<"not", u>> \notin SkippedOps
  PROVE  /\ Holds(u, InType(u, -1 - x), -1 - a, IF c = <<>> THEN <<>> ELSE Folded(-1 - c[1]))
         /\ Promoted(u) = u
<1>0. /\ u \in AllTypes /\ x \in Values(u) /\ u \in {"int", "long", "ulong"} /\ Reg(a, u, x)
      /\ XLEN \in 0 .. XLEN /\ XLEN \in 1 .. XLEN
  <2>1. u \in AllTypes /\ x \in Values(u) /\ Reg(a, u, x) /\ <<"not", u>> \notin WeakOps
    BY DEF Holds, Restricted
  <2>2. u \in {"int", "long", "ulong"}
    BY <2>1 DEF WeakOps, AllTypes
  <2> QED BY <2>1, <2>2, TypeWidths
<1>1. /\ x \in Int /\ a \in Int /\ a = Extended(XLEN, x) /\ a \in SignedRange(XLEN) /\ Same(XLEN, a, x)
      /\ u \in Wide /\ Promoted(u) = u
  BY <1>0, RegIs, RegisterSame, WideIs DEF Wide
<1>2. PICK na, nx : na = -1 - a /\ nx = -1 - x /\ na \in Int /\ nx \in Int
  BY <1>1
<1>3. Same(XLEN, na, nx)
  <2>1. -1 \in Int
    OBVIOUS
  <2>2. Same(XLEN, -1, -1)
    BY <1>0, <2>1, SameRefl
  <2>3. Same(XLEN, -1 - a, -1 - x)
    BY <1>0, <1>1, <2>1, <2>2, SameAdd
  <2> QED BY <1>2, <2>3
<1>4. na = Extended(XLEN, na)
  <2>1. Pow2[XLEN - 1] \in Nat
    BY <1>0, Half
  <2>2. na \in SignedRange(XLEN)
    BY <1>1, <1>2, <2>1 DEF SignedRange
  <2> QED BY <1>0, <2>2, ExtendedFixed
<1>5. u = "int" => nx \in Values("int")
  <2> SUFFICES ASSUME u = "int" PROVE nx \in Values("int")
    OBVIOUS
  <2>1. PICK h : h = Pow2[Bits["int"] - 1] /\ h \in Nat
    BY TypeWidths, Half
  <2>2. Values("int") = -h .. h - 1
    BY <2>1 DEF Values, Unsigned
  <2>3. x \in Values("int")
    BY <1>0
  <2> QED BY <1>1, <1>2, <2>1, <2>2, <2>3
<1>6. na = Extended(XLEN, InType(u, nx))
  BY <1>0, <1>2, <1>3, <1>4, <1>5, RegOfWide
<1>7. InType(u, nx) \in Values(u)
  BY <1>0, <1>2, InTypeIs
<1>8. PICK n : n = IF c = <<>> THEN <<>> ELSE Folded(-1 - c[1])
  OBVIOUS
<1>9. NoFoldedUnsigned => Const(n, u, InType(u, nx))
  <2> SUFFICES ASSUME NoFoldedUnsigned, c # <<>>
               PROVE  u \notin {"bool", "uint"} /\ n = <<Extended(XLEN, InType(u, nx))>>
    BY <1>8 DEF Const
  <2>1. u \notin {"bool", "uint"} /\ c = <<a>>
    BY <1>1 DEF Holds, Const
  <2>2. n = <<Extended(XLEN, na)>>
    BY <1>2, <1>8, <2>1 DEF Folded
  <2> QED BY <1>4, <1>6, <2>1, <2>2
<1>10. Holds(u, InType(u, nx), na, n)
  BY <1>0, <1>6, <1>7, <1>9 DEF Holds, Reg
<1> QED BY <1>1, <1>2, <1>8, <1>10, Zenon

\* A truth value, in C and in a register.
LEMMA TruthHolds ==
  ASSUME NEW v, NEW c, v \in {0, 1}, NoFoldedUnsigned => c = <<>> \/ c = <<v>>
  PROVE  Holds("int", v, v, c)
<1>1. v = Truth(TRUE) \/ v = Truth(FALSE)
  BY DEF Truth
<1>2. v \in Values("int") /\ v = Extended(XLEN, v) /\ "int" \in AllTypes
  BY <1>1, TruthValue DEF AllTypes
<1>3. NoFoldedUnsigned => Const(c, "int", v)
  BY <1>2 DEF Const
<1> QED BY <1>2, <1>3 DEF Holds, Reg

\* Whether an expression is zero, as the program and eval2() find out.
LEMMA ZeroIs ==
  ASSUME NEW u, NEW x, NEW a, NEW c, Holds(u, x, a, c)
  PROVE  /\ (a = 0) <=> (x = 0)
         /\ (c = <<>>) <=> (EvalTruth(c) = <<>>)
         /\ NoFoldedUnsigned /\ c # <<>> => EvalTruth(c) = <<Truth(x # 0)>>
<1>1. u \in AllTypes /\ x \in Values(u) /\ Reg(a, u, x) /\ Reg(Extended(XLEN, x), u, x)
  BY DEF Holds, Reg
<1>2. (a = 0 <=> x = 0) /\ (Extended(XLEN, x) = 0 <=> x = 0)
  BY <1>1, RegZero
<1>3. c = <<>> <=> EvalTruth(c) = <<>>
  BY DEF EvalTruth
<1>4. ASSUME NoFoldedUnsigned, c # <<>> PROVE EvalTruth(c) = <<Truth(x # 0)>>
  <2>1. c[1] = Extended(XLEN, x)
    BY <1>4 DEF Holds, Const
  <2>2. EvalTruth(c) = <<Truth(c[1] # 0)>>
    BY <1>4 DEF EvalTruth
  <2>3. (c[1] # 0) = (x # 0)
    BY <1>2, <2>1
  <2> QED BY <2>2, <2>3
<1> QED BY <1>2, <1>3, <1>4

LEMMA NotHolds ==
  ASSUME NEW u, NEW x, NEW a, NEW c, Holds(u, x, a, c)
  PROVE  Holds("int", Truth(x = 0), Truth(a = 0), IF c = <<>> THEN <<>> ELSE <<1 - EvalTruth(c)[1]>>)
<1>1. (a = 0) <=> (x = 0)
  BY ZeroIs
<1>2. Truth(a = 0) = Truth(x = 0)
  BY <1>1 DEF Truth
<1>3. PICK v, n : v = Truth(x = 0) /\ v \in {0, 1} /\ n = IF c = <<>> THEN <<>> ELSE <<1 - EvalTruth(c)[1]>>
  <2>1. Truth(x = 0) \in {0, 1}
    BY DEF Truth
  <2> QED BY <2>1
<1>4. NoFoldedUnsigned => n = <<>> \/ n = <<v>>
  <2> SUFFICES ASSUME NoFoldedUnsigned, c # <<>> PROVE n = <<v>>
    BY <1>3
  <2>1. EvalTruth(c)[1] = Truth(x # 0)
    BY ZeroIs
  <2>2. 1 - Truth(x # 0) = v
    <3>1. CASE x = 0
      <4>1. Truth(x # 0) = 0 /\ v = 1
        BY <1>3, <3>1 DEF Truth
      <4> QED BY <4>1
    <3>2. CASE x # 0
      <4>1. Truth(x # 0) = 1 /\ v = 0
        BY <1>3, <3>2 DEF Truth
      <4> QED BY <4>1
    <3> QED BY <3>1, <3>2
  <2> QED BY <1>3, <2>1, <2>2
<1>5. Holds("int", v, v, n)
  BY <1>3, <1>4, TruthHolds
<1> QED BY <1>2, <1>3, <1>5, Zenon

-----------------------------------------------------------------------------
(* Steps *)

\* Every expression is sound, and so is what is known of the condition.
IInv == /\ \E S : operands \in Seq(S)
        /\ \A i \in DOMAIN operands : Sound(operands[i])
        /\ test # <<>> => /\ test[1].truth \in BOOLEAN /\ test[1].taken = ~test[1].truth
                          /\ NoFoldedUnsigned => test[1].const \in {<<>>, <<Truth(test[1].truth)>>}

LEMMA OperandsSound ==
  ASSUME IInv
  PROVE  /\ Inv /\ Len(operands) \in Nat
         /\ operands # <<>> => 1 \in 0 .. Len(operands) /\ Sound(Top) /\ Typed(Top)
         /\ Len(operands) = 2 => operands # <<>> /\ 2 \in 0 .. Len(operands) /\ Sound(Below) /\ Typed(Below)
<1>1. PICK S : operands \in Seq(S)
  BY DEF IInv
<1>2. Len(operands) \in Nat /\ DOMAIN operands = 1 .. Len(operands)
  BY <1>1
<1>3. operands # <<>> => Len(operands) \in 1 .. Len(operands)
  BY <1>1, <1>2
<1>4. Inv
  BY DEF IInv, Inv, Sound
<1>5. operands # <<>> => Sound(Top) /\ Typed(Top) /\ 1 \in 0 .. Len(operands)
  BY <1>2, <1>3 DEF IInv, Top, Sound
<1>6. ASSUME Len(operands) = 2
      PROVE  operands # <<>> /\ 2 \in 0 .. Len(operands) /\ Sound(Below) /\ Typed(Below)
  <2>0. operands # <<>>
    <3>1. Len(<<>>) = 0
      OBVIOUS
    <3> QED BY <1>6, <3>1
  <2>1. operands # <<>> /\ 2 \in 0 .. Len(operands) /\ 1 \in DOMAIN operands /\ Len(operands) - 1 = 1
    BY <1>2, <1>6, <2>0
  <2>2. Below = operands[1]
    BY <2>1 DEF Below
  <2>3. Sound(operands[1])
    BY <2>1 DEF IInv
  <2> QED BY <2>1, <2>2, <2>3 DEF Sound
<1> QED BY <1>2, <1>4, <1>5, <1>6

LEMMA BuildKeepsSound ==
  ASSUME IInv, NEW n, NEW e, n \in 0 .. Len(operands), Sound(e), Build(n, e), test' = test \/ test' = <<>>
  PROVE  IInv'
<1>1. (\E S : operands \in Seq(S))' /\ \A i \in DOMAIN operands' : operands'[i] = e \/ \E j \in DOMAIN operands : operands'[i] = operands[j]
  BY BuildIs DEF IInv
<1>2. (\A i \in DOMAIN operands : Sound(operands[i]))'
  BY <1>1 DEF IInv, Sound, Typed, Holds, Reg, Const
<1>3. (test # <<>> => /\ test[1].truth \in BOOLEAN /\ test[1].taken = ~test[1].truth
                      /\ NoFoldedUnsigned => test[1].const \in {<<>>, <<Truth(test[1].truth)>>})'
  BY DEF IInv, NoFoldedUnsigned
<1> QED BY <1>1, <1>2, <1>3 DEF IInv

LEMMA NumberStep ==
  ASSUME IInv, Restricted, NEW t, NEW v, t \in Types, v \in Values(t), Number(t, v) \/ Variable(t, v)
  PROVE  IInv'
<1>1. t \in AllTypes /\ 0 \in 0 .. Len(operands)
  BY TypesAssumption, OperandsSound
<1>2. CASE Number(t, v)
  BY <1>1, <1>2, NumberSound, BuildKeepsSound DEF Number
<1>3. CASE Variable(t, v)
  BY <1>1, <1>3, VariableSound, BuildKeepsSound DEF Variable
<1> QED BY <1>2, <1>3

LEMMA CastStep ==
  ASSUME IInv, Restricted, NEW t, t \in Types, Cast(t) \/ Assign(t) \/ Call(t)
  PROVE  IInv'
<1>1. t \in AllTypes /\ operands # <<>> /\ Conv(Top.ty, t) /\ test' = test
  BY TypesAssumption DEF Cast, Assign, Call
<1>2. 1 \in 0 .. Len(operands) /\ Sound(Top)
  BY <1>1, OperandsSound
<1>3. PICK e : Build(1, e) /\ Sound(e)
  <2>1. CASE Cast(t)
    BY <1>1, <1>2, <2>1, CastSound DEF Cast
  <2>2. CASE Assign(t)
    BY <1>1, <1>2, <2>2, CastSound DEF Assign
  <2>3. CASE Call(t)
    BY <1>1, <1>2, <2>3, CastSound DEF Call
  <2> QED BY <2>1, <2>2, <2>3
<1> QED BY <1>1, <1>2, <1>3, BuildKeepsSound

LEMMA NegStep ==
  ASSUME IInv, Restricted, Neg
  PROVE  IInv'
<1>1. operands # <<>> /\ 1 \in 0 .. Len(operands) /\ Sound(Top) /\ test' = test
  BY OperandsSound DEF Neg
<1>2. PICK u, x, a, c, t : u = Top.type /\ x = Top.cval /\ a = Top.reg /\ c = Top.const /\ t = Promoted(u)
  OBVIOUS
<1>3. Top.ty = u /\ Holds(u, x, a, c) /\ u \in AllTypes
  BY <1>1, <1>2 DEF Sound, Typed, Holds
<1>4. get_common_type("int", u) = t
  BY <1>2, <1>3, BitsAssumption DEF Promoted, get_common_type, AllTypes, Unsigned
<1>5. t \in Wide /\ Bits[t] = IF Bits[t] = XLEN THEN XLEN ELSE Bits["int"]
  <2>1. t \in Wide
    BY <1>2, <1>3, PromotedIs
  <2> QED BY <2>1, TypeWidths DEF Wide, AllTypes
<1>6. PICK reg, n, k : /\ reg = cast(u, t, a) /\ n = EvalCast(t, c)
                       /\ k = IF n = <<>> THEN <<>> ELSE Folded(-n[1])
  OBVIOUS
<1>7. /\ Conv(u, t) /\ Defined("sub", t, 0, InType(t, x))
      /\ Build(1, Expr(t, InType(t, -x), t, Extended(Bits[t], -reg), k))
  <2>1. /\ Conv(u, t) /\ Defined("sub", t, 0, InType(t, x))
        /\ Build(1, Expr(t, InType(t, -x), t, Extended(IF Bits[t] = XLEN THEN XLEN ELSE Bits["int"], -reg),
                         IF n = <<>> THEN n ELSE Folded(-n[1])))
    BY <1>2, <1>3, <1>4, <1>6, Zenon DEF Neg
  <2>2. k = IF n = <<>> THEN n ELSE Folded(-n[1])
    BY <1>6
  <2> QED BY <1>5, <2>1, <2>2, Zenon
<1>8. Holds(t, InType(t, -x), Extended(Bits[t], -reg), k)
  BY <1>2, <1>3, <1>6, <1>7, NegHolds
<1>9. Sound(Expr(t, InType(t, -x), t, Extended(Bits[t], -reg), k))
  BY <1>8, ExprSound
<1> QED BY <1>1, <1>7, <1>9, BuildKeepsSound

LEMMA NotStep ==
  ASSUME IInv, Restricted, BitNot \/ Not
  PROVE  IInv'
<1>1. operands # <<>> /\ 1 \in 0 .. Len(operands) /\ Sound(Top) /\ test' = test
  BY OperandsSound DEF BitNot, Not
<1>2. PICK u, x, a, c : u = Top.type /\ x = Top.cval /\ a = Top.reg /\ c = Top.const
  OBVIOUS
<1>3. Top.ty = u /\ Holds(u, x, a, c)
  BY <1>1, <1>2 DEF Sound, Typed
<1>4. CASE BitNot
  <2>1. <<"not", u>> \notin SkippedOps
    BY <1>3, <1>4 DEF BitNot
  <2>2. PICK v, reg, k : /\ v = InType(u, -1 - x) /\ reg = -1 - a
                         /\ k = IF c = <<>> THEN <<>> ELSE Folded(-1 - c[1])
    OBVIOUS
  <2>3. Holds(u, v, reg, k) /\ Promoted(u) = u
    BY <1>3, <2>1, <2>2, BitNotHolds
  <2>4. Build(1, Expr(u, v, u, reg, k))
    BY <1>2, <1>3, <1>4, <2>2, <2>3, Zenon DEF BitNot
  <2>5. Sound(Expr(u, v, u, reg, k))
    BY <2>3, ExprSound
  <2> QED BY <1>1, <2>4, <2>5, BuildKeepsSound
<1>5. CASE Not
  <2>2. PICK v, reg, k : /\ v = Truth(x = 0) /\ reg = Truth(a = 0)
                         /\ k = IF c = <<>> THEN <<>> ELSE <<1 - EvalTruth(c)[1]>>
    OBVIOUS
  <2>3. Holds("int", v, reg, k)
    BY <1>3, <2>2, NotHolds
  <2>4. Build(1, Expr("int", v, "int", reg, k))
    BY <1>2, <1>3, <1>5, <2>2, Zenon DEF Not
  <2>5. Sound(Expr("int", v, "int", reg, k))
    BY <2>3, ExprSound
  <2> QED BY <1>1, <2>4, <2>5, BuildKeepsSound
<1> QED BY <1>4, <1>5

LEMMA BinaryStep ==
  ASSUME IInv, Restricted, NEW op, op \in Arithmetic \cup Comparison \cup Shift, Binary(op)
  PROVE  IInv'
<1>1. /\ Len(operands) = 2 /\ 2 \in 0 .. Len(operands) /\ Sound(Below) /\ Sound(Top) /\ test' = test
      /\ Meaningful(op, Below, Top) /\ Build(2, BinaryOf(op, Below, Top))
  BY OperandsSound DEF Binary
<1>2. Sound(BinaryOf(op, Below, Top))
  BY <1>1, BinarySound
<1> QED BY <1>1, <1>2, BuildKeepsSound

LEMMA GreaterStep ==
  ASSUME IInv, Restricted, NEW op, op \in DOMAIN Exchanged, Greater(op)
  PROVE  IInv'
<1>1. /\ Len(operands) = 2 /\ 2 \in 0 .. Len(operands) /\ Sound(Below) /\ Sound(Top) /\ test' = test
      /\ Typed(Below) /\ Typed(Top)
  BY OperandsSound DEF Greater
<1>2. PICK t, less : /\ t = UsualType(Top.type, Below.type) /\ t = UsualType(Below.type, Top.type)
                     /\ t = get_common_type(Top.ty, Below.ty) /\ less = Exchanged[op] /\ t \in AllTypes
  BY <1>1, UsualIs, CommonTypeIsUsual DEF Typed
<1>3. less \in Comparison /\ less \notin Shift /\ op \in {"gt", "ge"} /\ (op = "gt" => less = "lt")
      /\ (op = "ge" => less = "le")
  BY <1>2 DEF Exchanged, Comparison, Shift
<1>4. /\ <<less, t>> \notin SkippedOps /\ Conv(Top.ty, t) /\ Conv(Below.ty, t)
      /\ t = "uint" => Alike(less, cast(Top.ty, t, Top.reg), cast(Below.ty, t, Below.reg))
  <2>1. Meaningful(less, Top, Below)
    BY <1>2 DEF Greater
  <2>2. less \in AlikeOps
    BY <1>3 DEF Restricted, WeakAlike
  <2> QED BY <1>2, <1>3, <2>1, <2>2 DEF Meaningful
<1>5. PICK x, y : x = InType(t, Below.cval) /\ y = InType(t, Top.cval)
  OBVIOUS
<1>6. LET e == ArithmeticOf(less, Top, Below)
      IN  Sound(e) /\ e.cval = Compare(less, y, x)
  <2>1. /\ Sound(ArithmeticOf(less, Top, Below))
        /\ ArithmeticOf(less, Top, Below).cval = Compare(less, InType(t, Top.cval), InType(t, Below.cval))
    <3>1. PICK l, m : l = Top /\ m = Below
      OBVIOUS
    <3>2. /\ Sound(l) /\ Sound(m) /\ t = UsualType(l.type, m.type) /\ Conv(l.ty, t) /\ Conv(m.ty, t)
          /\ t = "uint" => Alike(less, cast(l.ty, t, l.reg), cast(m.ty, t, m.reg))
      BY <1>1, <1>2, <1>4, <3>1
    <3>3. /\ Sound(ArithmeticOf(less, l, m))
          /\ ArithmeticOf(less, l, m).cval = Compare(less, InType(t, l.cval), InType(t, m.cval))
      BY <1>3, <1>4, <3>2, ComparisonSound
    <3> QED BY <3>1, <3>3, Zenon
  <2> QED BY <1>5, <2>1, Zenon
<1>7. Compare(less, y, x) = Compare(op, x, y)
  <2>1. x \in Int /\ y \in Int
    BY <1>1, <1>2, <1>5, InTypeIs, ValuesInt DEF Sound, Holds
  <2>2. CASE op = "gt"
    <3>1. Compare("lt", y, x) = Truth(y < x) /\ Compare("gt", x, y) = Truth(x > y)
      BY DEF Compare
    <3> QED BY <1>3, <2>1, <2>2, <3>1
  <2>3. CASE op = "ge"
    <3>1. Compare("le", y, x) = Truth(y <= x) /\ Compare("ge", x, y) = Truth(x >= y)
      BY DEF Compare
    <3> QED BY <1>3, <2>1, <2>3, <3>1
  <2> QED BY <1>3, <2>2, <2>3
<1>8. PICK e : e = ArithmeticOf(less, Top, Below) /\ Sound(e) /\ e.cval = Compare(op, x, y)
  BY <1>6, <1>7
<1>9. e = [e EXCEPT !.cval = Compare(op, x, y)]
  <2>1. PICK f, g, h, i, j : e = Expr(f, g, h, i, j)
    BY <1>8, Zenon DEF ArithmeticOf
  <2> QED BY <1>8, <2>1 DEF Expr
<1>10. Build(2, [ArithmeticOf(less, Top, Below) EXCEPT !.cval = Compare(op, x, y)])
  BY <1>2, <1>5, Zenon DEF Greater
<1>11. Build(2, e)
  BY <1>8, <1>9, <1>10, Zenon
<1> QED BY <1>1, <1>8, <1>11, BuildKeepsSound

LEMMA CommaStep ==
  ASSUME IInv, Comma
  PROVE  IInv'
<1>1. Len(operands) = 2 /\ 2 \in 0 .. Len(operands) /\ Sound(Top) /\ Build(2, Top) /\ test' = test
  BY OperandsSound DEF Comma
<1> QED BY <1>1, BuildKeepsSound

\* What an assignment operator stores.
LEMMA AssignSound ==
  ASSUME Restricted, NEW op, NEW a, NEW c, op \in Compound, Sound(a), Sound(c), Assignable(op, a, c)
  PROVE  /\ Sound(AssignOf(op, a, c)) /\ AssignOf(op, a, c).const = <<>>
         /\ AssignOf(op, a, c).type = a.ty /\ AssignOf(op, a, c).ty = a.ty
         /\ AssignOf(op, a, c).cval = InType(a.ty, BinaryOf(op, a, c).cval)
<1>1. Meaningful(op, a, c) /\ Conv(BinaryOf(op, a, c).ty, a.ty) /\ a.ty \in AllTypes
      /\ op \in Arithmetic \cup Comparison \cup Shift
  BY DEF Assignable, Sound, Typed, Compound
<1>2. Sound(BinaryOf(op, a, c))
  BY <1>1, BinarySound
<1>3. PICK e, to : e = BinaryOf(op, a, c) /\ to = a.ty
  OBVIOUS
<1>4. Sound(e) /\ to \in AllTypes /\ Conv(e.ty, to)
  BY <1>1, <1>2, <1>3
<1>5. /\ Sound(Stored(e, to)) /\ Stored(e, to).const = <<>> /\ Stored(e, to).type = to
      /\ Stored(e, to).ty = to /\ Stored(e, to).cval = InType(to, e.cval)
  BY <1>4, CastSound
<1>6. AssignOf(op, a, c) = Stored(e, to)
  BY <1>3 DEF AssignOf
<1> QED BY <1>3, <1>5, <1>6, Zenon

LEMMA AssignStep ==
  ASSUME IInv, Restricted, NEW op, (op \in Compound /\ OpAssign(op)) \/ (op \in Additive /\ Prefix(op))
  PROVE  IInv'
<1>0. operands # <<>> /\ test' = test /\ op \in Compound
  BY OperandsSound DEF OpAssign, Prefix, Compound, Arithmetic
<1>1. CASE OpAssign(op)
  <2>1. /\ 2 \in 0 .. Len(operands) /\ Sound(Below) /\ Sound(Top)
        /\ Assignable(op, Below, Top) /\ Build(2, AssignOf(op, Below, Top))
    BY <1>1, OperandsSound DEF OpAssign
  <2>2. Sound(AssignOf(op, Below, Top))
    BY <1>0, <2>1, AssignSound
  <2> QED BY <1>0, <2>1, <2>2, BuildKeepsSound
<1>2. CASE Prefix(op)
  <2>1. PICK one : one = NumberOf("int", 1)
    OBVIOUS
  <2>2. 1 \in 0 .. Len(operands) /\ Sound(Top) /\ Assignable(op, Top, one) /\ Build(1, AssignOf(op, Top, one))
    BY <1>0, <1>2, <2>1, OperandsSound DEF Prefix
  <2>3. Sound(one)
    <3>1. "int" \in AllTypes /\ 1 \in Values("int")
      BY TruthValue DEF AllTypes, Truth
    <3> QED BY <2>1, <3>1, NumberSound
  <2>4. Sound(AssignOf(op, Top, one))
    BY <1>0, <2>2, <2>3, AssignSound
  <2> QED BY <1>0, <2>2, <2>4, BuildKeepsSound
<1> QED BY <1>1, <1>2

\* A++ and A--: what is subtracted again was added, in all bits A has.
LEMMA BackAgain ==
  ASSUME NEW t, NEW u, NEW v, NEW n, t \in AllTypes, u \in Wide, t # "bool", Bits[t] <= Bits[u],
         v \in Values(t), n \in Int
  PROVE  LET sum == InType(t, InType(u, InType(u, v) + InType(u, n)))
         IN  InType(t, InType(u, InType(u, sum) + InType(u, -n))) = v
<1>0. /\ v \in Int /\ -n \in Int /\ u \in AllTypes /\ u # "bool" /\ Bits[t] \in 0 .. XLEN
      /\ Bits[u] \in Bits[t] .. XLEN
  BY ValuesInt, WideIs, TypeWidths
<1> DEFINE w == Bits[t]
<1>1. ASSUME NEW z \in Int
      PROVE  InType(u, z) \in Int /\ InType(t, z) \in Int /\ Same(w, InType(u, z), z) /\ Same(w, InType(t, z), z)
  <2>1. InType(u, z) \in Int /\ InType(t, z) \in Int /\ Same(Bits[u], InType(u, z), z) /\ Same(w, InType(t, z), z)
    BY <1>0, InTypeIs
  <2> QED BY <1>0, <2>1, SameWeaken
<1>2. PICK x, y : x = InType(u, v) /\ y = InType(u, n) /\ x \in Int /\ y \in Int /\ Same(w, x, v) /\ Same(w, y, n)
  BY <1>0, <1>1
<1>3. x + y \in Int /\ v + n \in Int /\ Same(w, x + y, v + n)
  <2>1. w \in 0 .. XLEN /\ v \in Int /\ n \in Int /\ x + y \in Int /\ v + n \in Int
    BY <1>0, <1>2
  <2> HIDE DEF w
  <2>2. Same(w, x + y, v + n)
    BY <1>2, <2>1, SameAdd
  <2> QED BY <2>1, <2>2
<1>4. PICK z : z = InType(u, x + y) /\ z \in Int /\ Same(w, z, x + y)
  BY <1>1, <1>3
<1>5. Same(w, z, v + n)
  BY <1>0, <1>3, <1>4, SameTrans
<1>6. PICK s : s = InType(t, z) /\ s \in Int /\ Same(w, s, z)
  BY <1>1, <1>4
<1>7. Same(w, s, v + n)
  BY <1>0, <1>3, <1>4, <1>5, <1>6, SameTrans
<1>8. PICK a, b : a = InType(u, s) /\ b = InType(u, -n) /\ a \in Int /\ b \in Int /\ Same(w, a, s) /\ Same(w, b, -n)
  BY <1>0, <1>1, <1>6
<1>9. Same(w, a, v + n)
  BY <1>0, <1>3, <1>6, <1>7, <1>8, SameTrans
<1>10. a + b \in Int /\ (v + n) + (-n) = v
  BY <1>0, <1>8
<1>11. Same(w, a + b, (v + n) + (-n))
  BY <1>0, <1>3, <1>8, <1>9, SameAdd
<1>12. Same(w, a + b, v)
  BY <1>10, <1>11
<1>13. PICK r : r = InType(u, a + b) /\ r \in Int /\ Same(w, r, a + b)
  BY <1>1, <1>10
<1>14. Same(w, r, v)
  BY <1>0, <1>10, <1>12, <1>13, SameTrans
<1>15. InType(t, r) = v
  <2>1. InType(t, r) = InType(t, v)
    BY <1>0, <1>13, <1>14, InTypeSame
  <2> QED BY <2>1, InTypeFixed
<1> QED BY <1>2, <1>4, <1>6, <1>8, <1>13, <1>15, Zenon

LEMMA UsualWithInt ==
  ASSUME NEW t, t \in AllTypes
  PROVE  Bits[t] <= Bits[UsualType(t, "int")]
<1>1. UsualType(t, "int") = get_common_type(t, "int")
  <2>1. "int" \in AllTypes
    BY DEF AllTypes
  <2> QED BY <2>1, UsualIs
<1>2. Bits[t] <= Bits[get_common_type(t, "int")]
  BY BitsAssumption DEF get_common_type, AllTypes, Unsigned
<1> QED BY <1>1, <1>2

LEMMA PostfixStep ==
  ASSUME IInv, Restricted, NEW addend, addend \in {1, -1}, Postfix(addend)
  PROVE  IInv'
<1>1. PICK e, by, back : e = Top /\ by = NumberOf("int", addend) /\ back = NumberOf("int", -addend)
  OBVIOUS
<1>2. /\ operands # <<>> /\ 1 \in 0 .. Len(operands) /\ Sound(e) /\ test' = test
      /\ <<"postfix", e.ty>> \notin SkippedOps /\ Assignable("add", e, by)
  BY <1>1, OperandsSound DEF Postfix
<1>3. PICK t, v : t = e.type /\ t = e.ty /\ v = e.cval /\ t \in AllTypes /\ v \in Values(t)
  BY <1>2 DEF Sound, Typed, Holds
<1>4. t # "bool"
  BY <1>2, <1>3 DEF Restricted, WeakOps
<1>5. addend \in Int /\ -addend \in {1, -1} /\ "int" \in AllTypes /\ 1 \in Values("int") /\ -1 \in Values("int")
  <2>1. PICK h : h = Pow2[Bits["int"] - 1] /\ h \in Nat /\ h >= 2
    BY TypeWidths, Half
  <2>2. Values("int") = -h .. h - 1
    BY <2>1 DEF Values, Unsigned
  <2>3. 1 \in Values("int") /\ -1 \in Values("int")
    BY <2>1, <2>2
  <2> QED BY <2>3 DEF AllTypes
<1>6. /\ Sound(by) /\ by.type = "int" /\ by.ty = "int" /\ by.cval = addend
      /\ Sound(back) /\ back.type = "int" /\ back.ty = "int" /\ back.cval = -addend
  <2>1. addend \in Values("int") /\ -addend \in Values("int")
    BY <1>5
  <2>2. Sound(by) /\ Sound(back)
    BY <1>1, <1>5, <2>1, NumberSound
  <2> QED BY <1>1, <2>2 DEF NumberOf, Expr
<1>7. PICK u : /\ u = UsualType(t, "int") /\ u \in Wide /\ u = get_common_type(t, "int") /\ Bits[t] <= Bits[u]
  BY <1>3, <1>5, UsualIs, UsualWithInt
<1>8. Conv(t, u) /\ Conv("int", u) /\ Defined("add", u, InType(u, v), InType(u, addend))
      /\ Conv(BinaryOf("add", e, by).ty, t)
  <2>1. "add" \notin Shift /\ "add" \notin Comparison
    BY DEF Shift, Comparison
  <2> QED BY <1>2, <1>3, <1>6, <1>7, <2>1 DEF Assignable, Meaningful
<1>9. "add" \in Arithmetic /\ "add" \in Additive /\ "add" \in Compound /\ "add" \notin Shift /\ "add" # "xor"
  BY DEF Arithmetic, Additive, Compound, Shift
<1>10. PICK sum : /\ sum = BinaryOf("add", e, by) /\ sum.ty = u
                  /\ sum.cval = InType(u, InType(u, v) + InType(u, addend))
  <2>1. LET n == ArithmeticOf("add", e, by)
        IN  n.ty = u /\ n.cval = InType(u, Exact("add", InType(u, v), InType(u, addend)))
    <3>1. u = UsualType(e.type, by.type) /\ Conv(e.ty, u) /\ Conv(by.ty, u)
          /\ Defined("add", u, InType(u, e.cval), InType(u, by.cval))
      BY <1>3, <1>6, <1>7, <1>8
    <3>2. LET n == ArithmeticOf("add", e, by)
          IN  n.ty = u /\ n.cval = InType(u, Exact("add", InType(u, e.cval), InType(u, by.cval)))
      BY <1>2, <1>6, <1>9, <3>1, ArithmeticSound
    <3> QED BY <1>3, <1>6, <3>2
  <2>2. BinaryOf("add", e, by) = ArithmeticOf("add", e, by)
    BY <1>9 DEF BinaryOf
  <2>3. Exact("add", InType(u, v), InType(u, addend)) = InType(u, v) + InType(u, addend)
    BY ExactIs
  <2> QED BY <2>1, <2>2, <2>3
<1>11. PICK added : /\ added = AssignOf("add", e, by) /\ Sound(added) /\ added.const = <<>> /\ added.type = t
                    /\ added.ty = t /\ added.cval = InType(t, InType(u, InType(u, v) + InType(u, addend)))
  <2>1. /\ Sound(AssignOf("add", e, by)) /\ AssignOf("add", e, by).const = <<>>
        /\ AssignOf("add", e, by).type = e.ty /\ AssignOf("add", e, by).ty = e.ty
        /\ AssignOf("add", e, by).cval = InType(e.ty, BinaryOf("add", e, by).cval)
    BY <1>2, <1>6, <1>9, AssignSound
  <2> QED BY <1>3, <1>10, <2>1
<1>12. PICK res : /\ res = ArithmeticOf("add", added, back) /\ Sound(res) /\ res.ty = u
                  /\ res.cval = InType(u, InType(u, added.cval) + InType(u, -addend))
  <2>1. u = UsualType(added.type, back.type) /\ Conv(added.ty, u) /\ Conv(back.ty, u)
    BY <1>6, <1>7, <1>8, <1>11
  <2>2. LET n == ArithmeticOf("add", added, back)
        IN  Sound(n) /\ n.ty = u /\ n.cval = InType(u, Exact("add", InType(u, added.cval), InType(u, back.cval)))
    BY <1>6, <1>9, <1>11, <2>1, ArithmeticSound
  <2>3. Exact("add", InType(u, added.cval), InType(u, back.cval)) = InType(u, added.cval) + InType(u, -addend)
    BY <1>6, ExactIs
  <2> QED BY <2>2, <2>3
<1>13. PICK n : n = CastOf(res, t) /\ Sound(n) /\ n.cval = InType(t, res.cval)
  <2>1. Conv(res.ty, t)
    BY <1>8, <1>10, <1>12
  <2>2. Sound(CastOf(res, t)) /\ CastOf(res, t).cval = InType(t, res.cval)
    BY <1>3, <1>12, <2>1, CastSound
  <2> QED BY <2>2
<1>14. n.cval = v
  <2>1. InType(t, InType(u, InType(u, added.cval) + InType(u, -addend))) = v
    BY <1>3, <1>4, <1>5, <1>7, <1>11, BackAgain
  <2> QED BY <1>12, <1>13, <2>1
<1>15. n = [n EXCEPT !.cval = v]
  <2>1. PICK f, g, h, i, j : n = Expr(f, g, h, i, j)
    BY <1>13, Zenon DEF CastOf
  <2> QED BY <1>14, <2>1 DEF Expr
<1>16. Build(1, [n EXCEPT !.cval = v])
  <2>1. Build(1, [CastOf(ArithmeticOf("add", AssignOf("add", Top, NumberOf("int", addend)), NumberOf("int", -addend)), Top.ty)
                    EXCEPT !.cval = Top.cval])
    BY Zenon DEF Postfix
  <2> QED BY <1>1, <1>3, <1>11, <1>12, <1>13, <2>1, Zenon
<1>17. Build(1, n)
  BY <1>15, <1>16, Zenon
<1> QED BY <1>2, <1>13, <1>17, BuildKeepsSound

-----------------------------------------------------------------------------
(* Conditions *)

LEMMA TestStep ==
  ASSUME IInv, Restricted, Test
  PROVE  IInv'
<1>1. operands # <<>> /\ Sound(Top) /\ operands' = <<>>
  <2>1. operands # <<>>
    <3>1. Len(<<>>) = 0 /\ Len(operands) = 1
      BY DEF Test
    <3> QED BY <3>1
  <2> QED BY <2>1, OperandsSound DEF Test
<1>2. PICK u, x, a, c : u = Top.type /\ x = Top.cval /\ a = Top.reg /\ c = Top.const
  OBVIOUS
<1>3. Holds(u, x, a, c)
  BY <1>1, <1>2 DEF Sound
<1>4. /\ (a = 0) <=> (x = 0)
      /\ (c = <<>>) <=> (EvalTruth(c) = <<>>)
      /\ NoFoldedUnsigned /\ c # <<>> => EvalTruth(c) = <<Truth(x # 0)>>
  BY <1>3, ZeroIs
<1>5. PICK th, tk, tc : /\ th = (x # 0) /\ tk = (Truth(a = 0) # 0) /\ tc = EvalTruth(c)
  OBVIOUS
<1>6. test' = <<[truth |-> th, taken |-> tk, const |-> tc]>>
  BY <1>2, <1>5, Zenon DEF Test
<1>7. th \in BOOLEAN /\ tk = ~th
  <2>1. Truth(a = 0) # 0 <=> a = 0
    BY DEF Truth
  <2> QED BY <1>4, <1>5, <2>1, Zenon
<1>8. NoFoldedUnsigned => tc \in {<<>>, <<Truth(th)>>}
  <2>1. Truth(th) = Truth(x # 0)
    BY <1>5
  <2> QED BY <1>4, <1>5, <2>1
<1>9. test'[1].truth = th /\ test'[1].taken = tk /\ test'[1].const = tc
  BY <1>6
<1>10. <<>> \in Seq({}) /\ DOMAIN <<>> = {}
  OBVIOUS
<1>11. (\E S : operands \in Seq(S))' /\ (\A i \in DOMAIN operands : Sound(operands[i]))'
  BY <1>1, <1>10
<1>12. (test # <<>> => /\ test[1].truth \in BOOLEAN /\ test[1].taken = ~test[1].truth
                       /\ NoFoldedUnsigned => test[1].const \in {<<>>, <<Truth(test[1].truth)>>})'
  BY <1>7, <1>8, <1>9 DEF NoFoldedUnsigned
<1> QED BY <1>11, <1>12 DEF IInv

LEMMA CondStep ==
  ASSUME IInv, Restricted, Cond
  PROVE  IInv'
<1>1. /\ Len(operands) = 2 /\ 2 \in 0 .. Len(operands) /\ Sound(Below) /\ Sound(Top) /\ test' = <<>>
      /\ Typed(Below) /\ Typed(Top) /\ test # <<>>
  BY OperandsSound DEF Cond, Decided
<1>2. PICK t : /\ t = UsualType(Below.type, Top.type) /\ t = get_common_type(Below.ty, Top.ty) /\ t \in AllTypes
  BY <1>1, UsualIs, CommonTypeIsUsual DEF Typed
<1>3. PICK th, tc : /\ th = test[1].truth /\ th \in BOOLEAN /\ tc = test[1].const /\ test[1].taken = ~th
                    /\ NoFoldedUnsigned => tc \in {<<>>, <<Truth(th)>>}
  BY <1>1 DEF IInv
<1> DEFINE Selected(b) == IF b THEN Below ELSE Top
<1>4. PICK e : e = IF th THEN Below ELSE Top
  OBVIOUS
<1>5. Sound(e) /\ Conv(e.ty, t)
  <2>1. Conv(Below.ty, t) /\ Conv(Top.ty, t)
    BY <1>2 DEF Cond
  <2> QED BY <1>1, <1>4, <2>1
<1>6. PICK u, x, a, c : u = e.type /\ u = e.ty /\ x = e.cval /\ a = e.reg /\ c = e.const /\ Holds(u, x, a, c)
  BY <1>5 DEF Sound, Typed
<1>7. PICK v, reg, k : v = InType(t, x) /\ reg = cast(u, t, a)
                       /\ k = IF tc = <<>> THEN <<>> ELSE EvalCast(t, Selected(tc = <<1>>).const)
  OBVIOUS
<1>8. Build(2, Expr(t, v, t, reg, k))
  <2>1. Selected(test[1].truth) = e /\ Selected(~test[1].taken) = e
    BY <1>3, <1>4
  <2>2. Build(2, Expr(t, InType(t, Selected(test[1].truth).cval), t,
                      cast(Selected(~test[1].taken).ty, t, Selected(~test[1].taken).reg),
                      IF test[1].const = <<>> THEN <<>> ELSE EvalCast(t, Selected(ConstTrue).const)))
    BY <1>2, Zenon DEF Cond
  <2>3. k = IF test[1].const = <<>> THEN <<>> ELSE EvalCast(t, Selected(ConstTrue).const)
    BY <1>3, <1>7 DEF ConstTrue
  <2> HIDE DEF Selected
  <2> QED BY <1>6, <1>7, <2>1, <2>2, <2>3, Zenon
<1>9. Holds(t, v, reg, EvalCast(t, c)) /\ Holds(t, v, reg, <<>>)
  BY <1>2, <1>5, <1>6, <1>7, CastHolds DEF Restricted
<1>10. NoFoldedUnsigned => k \in {<<>>, EvalCast(t, c)}
  <2> SUFFICES ASSUME NoFoldedUnsigned, tc # <<>> PROVE k = EvalCast(t, c)
    BY <1>7
  <2>1. tc = <<Truth(th)>>
    BY <1>3
  <2>2. Selected(tc = <<1>>) = e
    <3>1. CASE th
      <4>1. tc = <<1>>
        BY <2>1, <3>1 DEF Truth
      <4> QED BY <1>4, <3>1, <4>1
    <3>2. CASE ~th
      <4>1. tc = <<0>>
        BY <2>1, <3>2 DEF Truth
      <4>2. tc # <<1>>
        BY <4>1
      <4> QED BY <1>4, <3>2, <4>2
    <3> QED BY <3>1, <3>2
  <2>3. k = EvalCast(t, Selected(tc = <<1>>).const)
    BY <1>7
  <2> HIDE DEF Selected
  <2> QED BY <1>6, <2>2, <2>3
<1>11. Holds(t, v, reg, k)
  BY <1>9, <1>10 DEF Holds
<1>12. Sound(Expr(t, v, t, reg, k))
  BY <1>11, ExprSound
<1> QED BY <1>1, <1>8, <1>12, BuildKeepsSound

LEMMA ElvisStep ==
  ASSUME IInv, Restricted, Elvis
  PROVE  IInv'
<1>1. /\ Len(operands) = 2 /\ 2 \in 0 .. Len(operands) /\ Sound(Below) /\ Sound(Top) /\ test' = test
      /\ Typed(Below) /\ Typed(Top)
  BY OperandsSound DEF Elvis
<1>2. PICK t : /\ t = UsualType(Below.type, Top.type) /\ t = get_common_type(Below.ty, Top.ty) /\ t \in AllTypes
  BY <1>1, UsualIs, CommonTypeIsUsual DEF Typed
<1>3. PICK u, x, a, c : /\ u = Below.type /\ u = Below.ty /\ x = Below.cval /\ a = Below.reg /\ c = Below.const
                        /\ Holds(u, x, a, c)
  BY <1>1 DEF Sound, Typed
<1>4. PICK r : r = load(u, cast(u, u, a)) /\ r = Extended(XLEN, x) /\ InType(u, x) = x
  BY <1>3, SameTypeConv
<1>5. PICK tmp : tmp = [Stored(Below, Below.ty) EXCEPT !.reg = load(Below.ty, @)]
  OBVIOUS
<1>6. tmp = Expr(u, x, u, r, <<>>)
  <2>1. CastOf(Below, Below.ty) = Expr(u, x, u, cast(u, u, a), EvalCast(u, c))
    BY <1>3, <1>4, Zenon DEF CastOf
  <2>2. Stored(Below, Below.ty) = Expr(u, x, u, cast(u, u, a), <<>>)
    BY <2>1 DEF Stored, Expr
  <2>3. tmp = [Expr(u, x, u, cast(u, u, a), <<>>) EXCEPT !.reg = load(u, @)]
    BY <1>3, <1>5, <2>2
  <2> QED BY <1>4, <2>3 DEF Expr
<1>7. tmp.type = u /\ tmp.ty = u /\ tmp.cval = x /\ tmp.reg = r
  BY <1>6 DEF Expr
<1>8. Holds(u, x, r, <<>>)
  BY <1>3, <1>4 DEF Holds, Reg, Const
<1>9. Sound(tmp)
  BY <1>6, <1>8, ExprSound
<1>10. (tmp.reg = 0) <=> (x = 0)
  BY <1>7, <1>8, ZeroIs
<1>11. PICK e : e = IF tmp.reg # 0 THEN tmp ELSE Top
  OBVIOUS
<1>12. Conv(u, t) /\ Conv(Top.ty, t)
       /\ Build(2, Expr(t, InType(t, IF Below.cval # 0 THEN Below.cval ELSE Top.cval), t, cast(e.ty, t, e.reg), <<>>))
  <2>1. t = UsualType(tmp.type, Top.type) /\ t = get_common_type(tmp.ty, Top.ty)
    BY <1>2, <1>3, <1>7
  <2>2. Conv(tmp.ty, t) /\ Conv(Top.ty, t)
        /\ Build(2, Expr(t, InType(t, IF Below.cval # 0 THEN Below.cval ELSE Top.cval), t, cast(e.ty, t, e.reg), <<>>))
    BY <1>5, <1>11, <2>1, Zenon DEF Elvis
  <2> QED BY <1>7, <2>2
<1>13. Sound(e) /\ Conv(e.ty, t) /\ e.cval = IF Below.cval # 0 THEN Below.cval ELSE Top.cval
  BY <1>1, <1>3, <1>7, <1>9, <1>10, <1>11, <1>12
<1>14. PICK v, y, b, d : v = e.type /\ v = e.ty /\ y = e.cval /\ b = e.reg /\ d = e.const /\ Holds(v, y, b, d)
  BY <1>13 DEF Sound, Typed
<1>15. Build(2, Expr(t, InType(t, y), t, cast(v, t, b), <<>>))
  BY <1>12, <1>13, <1>14, Zenon
<1>16. Conv(v, t)
  BY <1>13, <1>14
<1>17. Holds(t, InType(t, y), cast(v, t, b), <<>>)
  BY <1>2, <1>14, <1>16, CastHolds DEF Restricted
<1>18. Sound(Expr(t, InType(t, y), t, cast(v, t, b), <<>>))
  BY <1>17, ExprSound
<1> QED BY <1>1, <1>15, <1>18, BuildKeepsSound

LEMMA LogicalStep ==
  ASSUME IInv, Restricted, LogAnd \/ LogOr
  PROVE  IInv'
<1>1. operands # <<>> /\ 1 \in 0 .. Len(operands) /\ Sound(Top) /\ test' = <<>> /\ test # <<>>
  BY OperandsSound DEF LogAnd, LogOr, Decided
<1>2. PICK u, x, a, c : u = Top.type /\ x = Top.cval /\ a = Top.reg /\ c = Top.const
  OBVIOUS
<1>3. Holds(u, x, a, c)
  BY <1>1, <1>2 DEF Sound
<1>4. /\ (a = 0) <=> (x = 0)
      /\ (c = <<>>) <=> (EvalTruth(c) = <<>>)
      /\ NoFoldedUnsigned /\ c # <<>> => EvalTruth(c) = <<Truth(x # 0)>>
  BY <1>3, ZeroIs
<1>5. PICK th, tc : /\ th = test[1].truth /\ th \in BOOLEAN /\ tc = test[1].const /\ test[1].taken = ~th
                    /\ NoFoldedUnsigned => tc \in {<<>>, <<Truth(th)>>}
  BY <1>1 DEF IInv
<1>6. NoFoldedUnsigned => \/ tc = <<>>
                          \/ tc = <<1>> /\ th
                          \/ tc = <<0>> /\ ~th
  BY <1>5 DEF Truth
<1>7. CASE LogAnd
  <2>1. PICK v, k : /\ v = Truth(th /\ x # 0)
                    /\ k = IF tc = <<0>> THEN <<0>> ELSE IF tc = <<>> \/ c = <<>> THEN <<>> ELSE EvalTruth(c)
    OBVIOUS
  <2>2. Build(1, Expr("int", v, "int", v, k))
    <3>1. Build(1, Expr("int", Truth(th /\ Top.cval # 0), "int", Truth(~test[1].taken /\ Top.reg # 0),
                        IF ConstFalse THEN <<0>> ELSE IF <<>> \in {test[1].const, Top.const} THEN <<>>
                        ELSE EvalTruth(Top.const)))
      BY <1>5, <1>7, Zenon DEF LogAnd
    <3>2. Truth(th /\ Top.cval # 0) = v
      BY <1>2, <2>1
    <3>3. Truth(~test[1].taken /\ Top.reg # 0) = v
      <4>1. (~test[1].taken /\ Top.reg # 0) <=> (th /\ x # 0)
        BY <1>2, <1>4, <1>5
      <4> QED BY <2>1, <4>1 DEF Truth
    <3>4. (IF ConstFalse THEN <<0>> ELSE IF <<>> \in {test[1].const, Top.const} THEN <<>>
           ELSE EvalTruth(Top.const)) = k
      BY <1>2, <1>5, <2>1 DEF ConstFalse
    <3> QED BY <3>1, <3>2, <3>3, <3>4, Zenon
  <2>3. v \in {0, 1} /\ (v = 1 <=> (th /\ x # 0))
    BY <2>1 DEF Truth
  <2>4. NoFoldedUnsigned => k = <<>> \/ k = <<v>>
    <3> SUFFICES ASSUME NoFoldedUnsigned, k # <<>> PROVE k = <<v>>
      OBVIOUS
    <3>1. CASE tc = <<0>>
      <4>1. ~th /\ k = <<0>>
        BY <1>6, <2>1, <3>1
      <4> QED BY <2>3, <4>1
    <3>2. CASE tc # <<0>>
      <4>1. tc # <<>> /\ c # <<>> /\ k = EvalTruth(c)
        BY <2>1, <3>2
      <4>2. th /\ k = <<Truth(x # 0)>>
        BY <1>4, <1>6, <3>2, <4>1
      <4>3. Truth(x # 0) = v
        BY <2>3, <4>2 DEF Truth
      <4> QED BY <4>2, <4>3
    <3> QED BY <3>1, <3>2
  <2>5. Sound(Expr("int", v, "int", v, k))
    BY <2>3, <2>4, TruthHolds, ExprSound
  <2> QED BY <1>1, <2>2, <2>5, BuildKeepsSound
<1>8. CASE LogOr
  <2>1. PICK v, k : /\ v = Truth(th \/ x # 0)
                    /\ k = IF tc = <<1>> THEN <<1>> ELSE IF tc = <<>> \/ c = <<>> THEN <<>> ELSE EvalTruth(c)
    OBVIOUS
  <2>2. Build(1, Expr("int", v, "int", v, k))
    <3>1. Build(1, Expr("int", Truth(th \/ Top.cval # 0), "int", Truth(test[1].taken => Top.reg # 0),
                        IF ConstTrue THEN <<1>> ELSE IF <<>> \in {test[1].const, Top.const} THEN <<>>
                        ELSE EvalTruth(Top.const)))
      BY <1>5, <1>8, Zenon DEF LogOr
    <3>2. Truth(th \/ Top.cval # 0) = v
      BY <1>2, <2>1
    <3>3. Truth(test[1].taken => Top.reg # 0) = v
      <4>1. (test[1].taken => Top.reg # 0) <=> (th \/ x # 0)
        BY <1>2, <1>4, <1>5
      <4> QED BY <2>1, <4>1 DEF Truth
    <3>4. (IF ConstTrue THEN <<1>> ELSE IF <<>> \in {test[1].const, Top.const} THEN <<>>
           ELSE EvalTruth(Top.const)) = k
      BY <1>2, <1>5, <2>1 DEF ConstTrue
    <3> QED BY <3>1, <3>2, <3>3, <3>4, Zenon
  <2>3. v \in {0, 1} /\ (v = 1 <=> (th \/ x # 0))
    BY <2>1 DEF Truth
  <2>4. NoFoldedUnsigned => k = <<>> \/ k = <<v>>
    <3> SUFFICES ASSUME NoFoldedUnsigned, k # <<>> PROVE k = <<v>>
      OBVIOUS
    <3>1. CASE tc = <<1>>
      <4>1. th /\ k = <<1>>
        BY <1>6, <2>1, <3>1
      <4> QED BY <2>3, <4>1
    <3>2. CASE tc # <<1>>
      <4>1. tc # <<>> /\ c # <<>> /\ k = EvalTruth(c)
        BY <2>1, <3>2
      <4>2. ~th /\ k = <<Truth(x # 0)>>
        BY <1>4, <1>6, <3>2, <4>1
      <4>3. Truth(x # 0) = v
        BY <2>3, <4>2 DEF Truth
      <4> QED BY <4>2, <4>3
    <3> QED BY <3>1, <3>2
  <2>5. Sound(Expr("int", v, "int", v, k))
    BY <2>3, <2>4, TruthHolds, ExprSound
  <2> QED BY <1>1, <2>2, <2>5, BuildKeepsSound
<1> QED BY <1>7, <1>8

LEMMA NextSound ==
  ASSUME IInv, Restricted, Next
  PROVE  IInv'
<1>1. CASE \E t \in Types : \E v \in Values(t) : Number(t, v) \/ Variable(t, v)
  BY <1>1, NumberStep
<1>2. CASE \E t \in Types : Cast(t) \/ Assign(t) \/ Call(t)
  BY <1>2, CastStep
<1>3. CASE Neg
  BY <1>3, NegStep
<1>4. CASE BitNot \/ Not
  BY <1>4, NotStep
<1>5. CASE \E op \in Arithmetic \cup Comparison \cup Shift : Binary(op)
  BY <1>5, BinaryStep
<1>6. CASE \E op \in DOMAIN Exchanged : Greater(op)
  BY <1>6, GreaterStep
<1>7. CASE Comma
  BY <1>7, CommaStep
<1>8. CASE (\E op \in Compound : OpAssign(op)) \/ (\E op \in Additive : Prefix(op))
  BY <1>8, AssignStep
<1>9. CASE \E addend \in {1, -1} : Postfix(addend)
  BY <1>9, PostfixStep
<1>10. CASE Test
  BY <1>10, TestStep
<1>11. CASE Cond
  BY <1>11, CondStep
<1>12. CASE Elvis
  BY <1>12, ElvisStep
<1>13. CASE LogAnd \/ LogOr
  BY <1>13, LogicalStep
<1> QED
  BY <1>1, <1>2, <1>3, <1>4, <1>5, <1>6, <1>7, <1>8, <1>9, <1>10, <1>11, <1>12, <1>13, Zenon DEF Next

LEMMA SoundIsInductive ==
  /\ Init => IInv
  /\ Restricted /\ IInv /\ [Next]_vars => IInv'
<1>1. Init => IInv
  <2>1. <<>> \in Seq({}) /\ DOMAIN <<>> = {}
    OBVIOUS
  <2> QED BY <2>1 DEF Init, IInv
<1>2. IInv /\ UNCHANGED vars => IInv'
  <2> SUFFICES ASSUME IInv, UNCHANGED vars PROVE IInv'
    OBVIOUS
  <2>1. operands' = operands /\ test' = test
    BY DEF vars
  <2>2. (\E S : operands \in Seq(S))' /\ (\A i \in DOMAIN operands : Sound(operands[i]))'
    BY <2>1 DEF IInv
  <2>3. (test # <<>> => /\ test[1].truth \in BOOLEAN /\ test[1].taken = ~test[1].truth
                        /\ NoFoldedUnsigned => test[1].const \in {<<>>, <<Truth(test[1].truth)>>})'
    BY <2>1 DEF IInv, NoFoldedUnsigned
  <2> QED BY <2>2, <2>3 DEF IInv
<1> QED BY <1>1, <1>2, NextSound

LEMMA StandsForValue ==
  ASSUME NEW t, NEW v, NEW reg, t \in AllTypes, v \in Values(t), Reg(reg, t, v)
  PROVE  StandsFor(reg, t, v)
<1>1. CASE t = "uint"
  <2>1. Same(Bits[t], reg, v) /\ reg \in Int /\ v \in Int /\ Bits[t] \in 0 .. XLEN
    BY RegIs, TypeWidths
  <2>2. v \in 0 .. Pow2[Bits[t]] - 1
    BY <1>1 DEF Values, Unsigned
  <2>3. Low(Bits[t], v) = v
    BY <2>1, <2>2, LowFixed
  <2>4. Low(Bits[t], reg) = Low(Bits[t], v)
    BY <2>1, SameLow
  <2> QED BY <1>1, <2>3, <2>4 DEF StandsFor
<1>2. CASE t # "uint"
  BY <1>2, RegIs DEF StandsFor
<1> QED BY <1>1, <1>2

LEMMA SoundRegisters == IInv => RegisterHoldsValue
<1> SUFFICES ASSUME IInv PROVE RegisterHoldsValue
  OBVIOUS
<1>1. ASSUME NEW i \in DOMAIN operands
      PROVE  StandsFor(operands[i].reg, operands[i].type, operands[i].cval)
  <2>1. PICK t, v, reg, c : /\ t = operands[i].type /\ v = operands[i].cval /\ reg = operands[i].reg
                            /\ c = operands[i].const
    OBVIOUS
  <2>2. Holds(t, v, reg, c)
    BY <1>1, <2>1 DEF IInv, Sound
  <2>3. StandsFor(reg, t, v)
    BY <2>2, StandsForValue DEF Holds
  <2> QED BY <2>1, <2>3
<1> QED BY <1>1 DEF IInv, RegisterHoldsValue

LEMMA SoundConstants ==
  ASSUME NoFoldedUnsigned
  PROVE  IInv => ConstantIsValue
<1> SUFFICES ASSUME IInv PROVE ConstantIsValue
  OBVIOUS
<1>1. ASSUME NEW i \in DOMAIN operands, operands[i].const # <<>>
      PROVE  StandsFor(operands[i].const[1], operands[i].type, operands[i].cval)
  <2>1. PICK t, v, reg, c : /\ t = operands[i].type /\ v = operands[i].cval /\ reg = operands[i].reg
                            /\ c = operands[i].const
    OBVIOUS
  <2>2. Holds(t, v, reg, c)
    BY <1>1, <2>1 DEF IInv, Sound
  <2>3. c # <<>> /\ Const(c, t, v) /\ t \in AllTypes /\ v \in Values(t)
    BY <1>1, <2>1, <2>2 DEF Holds
  <2>4. c[1] = Extended(XLEN, v) /\ t # "uint"
    BY <2>3 DEF Const, NoFoldedUnsigned
  <2>5. StandsFor(c[1], t, v)
    BY <2>4 DEF StandsFor
  <2> QED BY <2>1, <2>5
<1>2. ASSUME test # <<>>
      PROVE  (ConstTrue => test[1].truth) /\ (ConstFalse => ~test[1].truth)
  <2>1. PICK th, tc : th = test[1].truth /\ tc = test[1].const /\ th \in BOOLEAN /\ tc \in {<<>>, <<Truth(th)>>}
    BY <1>2 DEF IInv
  <2>2. tc = <<1>> => th
    BY <2>1 DEF Truth
  <2>3. tc = <<0>> => ~th
    BY <2>1 DEF Truth
  <2> QED BY <2>1, <2>2, <2>3 DEF ConstTrue, ConstFalse
<1> QED BY <1>1, <1>2 DEF ConstantIsValue

\* The code that gen_expr() (codegen.c:964) and its casts, loads and stores emit
\* for an expression leaves in a0 what stands for its value in C, and the branch
\* on a condition goes the right way: for all widths with 1 < char < int < long,
\* expressions of any size and every value, when the combinations of WeakOps and
\* WeakCasts are left out, and, for the operators of WeakAlike, unsigned ints of
\* which one is zero-extended and the other sign-extended.
THEOREM IntExprRegisters ==
  ASSUME Restricted
  PROVE  Spec => []RegisterHoldsValue
<1>1. Init => IInv
  BY SoundIsInductive
<1>2. IInv /\ [Next]_vars => IInv'
  BY SoundIsInductive
<1>3. IInv => RegisterHoldsValue
  BY SoundRegisters
<1> QED
  BY <1>1, <1>2, <1>3, PTL DEF Spec

\* What eval2() (parser/common.c:49) computes for a constant expression is what
\* the program would have computed, where it is not followed through _Bool and
\* unsigned int.
THEOREM IntExprConstants ==
  ASSUME Restricted, NoFoldedUnsigned
  PROVE  Spec => []ConstantIsValue
<1>1. Init => IInv
  BY SoundIsInductive
<1>2. IInv /\ [Next]_vars => IInv'
  BY SoundIsInductive
<1>3. IInv => ConstantIsValue
  BY SoundConstants
<1> QED
  BY <1>1, <1>2, <1>3, PTL DEF Spec
===============================================================================
