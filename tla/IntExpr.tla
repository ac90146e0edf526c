------------------------------- MODULE IntExpr -------------------------------
(***************************************************************************)
(* Integer expressions: the types add_type() gives them (type.c), the code  *)
(* gen_expr() emits for them (codegen.c) and the value eval2() computes when *)
(* they are constant (parser/common.c), against the value C gives them.     *)
(*                                                                         *)
(* All three are computed bottom up, so an expression is represented by     *)
(* what its parent sees of it: its type, what register a0 holds after its   *)
(* code, what eval2() returns, and, as the reference, its type and value in *)
(* C.  A state holds the operands of the node that is built next; whatever  *)
(* the depth of the expression, the states are finitely many.               *)
(*                                                                         *)
(* Widths are scaled down: char, int and long have the widths of Bits.      *)
(***************************************************************************)
EXTENDS Integers, Sequences

CONSTANTS Types,         \* the types of operands and casts
          Bits,          \* width of each type
          SkippedOps,    \* <<operator, type it works in>> left out
          SkippedCasts,  \* <<from, to>>, casts left out
          AlikeOps,      \* operators left out where two unsigned ints differ in form
          FoldedTypes    \* the types eval2() is followed through

AllTypes == {"bool", "char", "uchar", "int", "uint", "long", "ulong"}
Unsigned == {"uchar", "uint", "ulong"}

ASSUME TypesAssumption == Types \subseteq AllTypes /\ FoldedTypes \subseteq AllTypes
ASSUME BitsAssumption ==
  /\ Bits \in [AllTypes -> Nat \ {0}]
  /\ Bits["bool"] = Bits["char"] /\ Bits["char"] = Bits["uchar"]
  /\ Bits["int"] = Bits["uint"] /\ Bits["long"] = Bits["ulong"]
  /\ 1 < Bits["char"] /\ Bits["char"] < Bits["int"] /\ Bits["int"] < Bits["long"]

XLEN == Bits["long"]

VARIABLES operands,  \* expressions whose parent is not built yet, the last one last
          test       \* <<>>, or the condition of the branch being built

vars == <<operands, test>>

-----------------------------------------------------------------------------
(* Numbers of w bits *)

Pow2[n \in 0 .. XLEN] == IF n = 0 THEN 1 ELSE 2 * Pow2[n - 1]

Low(w, v) == v % Pow2[w]
Extended(w, v) == LET u == Low(w, v) IN IF u < Pow2[w - 1] THEN u ELSE u - Pow2[w]
InWidth(t, v) == IF t \in Unsigned THEN Low(Bits[t], v) ELSE Extended(Bits[t], v)
Truth(b) == IF b THEN 1 ELSE 0
InType(t, v) == IF t = "bool" THEN Truth(v # 0) ELSE InWidth(t, v)
Values(t) == IF t = "bool" THEN 0 .. 1
             ELSE IF t \in Unsigned THEN 0 .. Pow2[Bits[t]] - 1
             ELSE -Pow2[Bits[t] - 1] .. Pow2[Bits[t] - 1] - 1

Bit(v, i) == (v \div Pow2[i]) % 2
Joined(op, a, b) == CASE op = "and" -> a = 1 /\ b = 1
                      [] op = "or"  -> a = 1 \/ b = 1
                      [] op = "xor" -> a # b

\* Bit by bit: the number that the lowest n bits of the result are.
LowBits(op, x, y) ==
  LET sum[n \in 0 .. XLEN] ==
        IF n = 0 THEN 0
        ELSE sum[n - 1] + (IF Joined(op, Bit(x, n - 1), Bit(y, n - 1)) THEN Pow2[n - 1] ELSE 0)
  IN  sum
Bitwise(op, x, y) == Extended(XLEN, LowBits(op, x, y)[XLEN])

\* Division as C and the processor do it, towards zero.
Magnitude(x) == IF x < 0 THEN -x ELSE x
Quotient(x, y) == IF (x < 0) = (y < 0) THEN Magnitude(x) \div Magnitude(y)
                  ELSE -(Magnitude(x) \div Magnitude(y))
Remainder(x, y) == x - y * Quotient(x, y)

-----------------------------------------------------------------------------
(* Operators *)

Multiplicative == {"mul", "div", "mod"}
Additive == {"add", "sub"}
Logical == {"and", "or", "xor"}
Arithmetic == Multiplicative \cup Additive \cup Logical
Comparison == {"eq", "ne", "lt", "le"}
Shift == {"shl", "shr"}
Compound == Arithmetic \cup Shift   \* those with an assignment operator

\* > and >= are < and <= with the operands exchanged.
Exchanged == [gt |-> "lt", ge |-> "le"]

Compare(op, x, y) == Truth(CASE op = "eq" -> x = y
                             [] op = "ne" -> x # y
                             [] op = "lt" -> x < y
                             [] op = "le" -> x <= y
                             [] op = "gt" -> x > y
                             [] op = "ge" -> x >= y)

\* What C computes from two values of one type, before it is cut to the type.
Exact(op, x, y) == CASE op = "add" -> x + y
                     [] op = "sub" -> x - y
                     [] op = "mul" -> x * y
                     [] op = "div" -> Quotient(x, y)
                     [] op = "mod" -> Remainder(x, y)
                     [] op = "shl" -> x * Pow2[y]
                     [] op = "shr" -> x \div Pow2[y]
                     [] OTHER -> Bitwise(op, x, y)

\* The operation has a meaning in C.
Defined(op, t, x, y) ==
  /\ op \in {"div", "mod"} => y # 0
  /\ op \in Shift => y \in 0 .. Bits[t] - 1
  /\ (t \notin Unsigned /\ op # "mod") => Exact(op, x, y) \in Values(t)
  /\ (t \notin Unsigned /\ op = "mod") => Quotient(x, y) \in Values(t)
  /\ (t \notin Unsigned /\ op = "shl") => x >= 0

\* The integer promotions and the usual arithmetic conversions of C.
Promoted(t) == IF Bits[t] < Bits["int"] THEN "int" ELSE t
UsualType(t, u) ==
  LET p == Promoted(t)
      q == Promoted(u)
  IN  IF p = q THEN p
      ELSE IF Bits[p] > Bits[q] THEN p
      ELSE IF Bits[q] > Bits[p] THEN q
      ELSE CHOOSE s \in {p, q} : s \in Unsigned

-----------------------------------------------------------------------------
(* type.c *)

\* Mutant: at the same size the type on the left wins.
get_common_type_left(ty1, ty2) ==
  LET a == IF Bits[ty1] < Bits["int"] THEN "int" ELSE ty1
      b == IF Bits[ty2] < Bits["int"] THEN "int" ELSE ty2
  IN  IF Bits[a] < Bits[b] THEN b ELSE a

get_common_type(ty1, ty2) ==
  LET a == IF Bits[ty1] < Bits["int"] THEN "int" ELSE ty1
      b == IF Bits[ty2] < Bits["int"] THEN "int" ELSE ty2
  IN  IF Bits[a] # Bits[b] THEN IF Bits[a] < Bits[b] THEN b ELSE a
      ELSE IF b \in Unsigned THEN b ELSE a

-----------------------------------------------------------------------------
(* codegen.c: a register holds XLEN bits and is read as a signed number *)

\* Mutant: an int is left as it is by a cast to char, as by one to long.
MovesToChar == (AllTypes \X {"long", "ulong"})
               \cup ({"char", "uchar", "int", "uint"} \X {"int", "char"})
               \cup ({"uchar"} \X {"char", "uchar", "uint"}) \cup {<<"uint", "uint">>}

\* The NULL entries of cast_matrix, as <<from, to>>.
Moves == (AllTypes \X {"long", "ulong"})
         \cup ({"char", "uchar", "int", "uint"} \X {"int"})
         \cup ({"uchar"} \X {"char", "uchar", "uint"})
         \cup {<<"char", "char">>, <<"uint", "uint">>}
cast(from, to, reg) == IF to = "bool" THEN Truth(reg # 0)
                       ELSE IF <<from, to>> \in Moves THEN reg ELSE InWidth(to, reg)

\* lb, lbu, lw, lwu, ld
load(t, v) == Extended(XLEN, InWidth(t, v))

Suffixed(t) == Bits[t] < XLEN

\* a0 := a0 op a1 where both operands have type t after their casts.
Instruction(op, t, a0, a1) ==
  LET w == IF Suffixed(t) THEN Bits["int"] ELSE XLEN
      x == IF t \in Unsigned THEN Low(w, a0) ELSE Extended(w, a0)
      y == IF t \in Unsigned THEN Low(w, a1) ELSE Extended(w, a1)
      count == Low(w, a1) % w
  IN  CASE op \in {"add", "sub", "mul"} -> Extended(w, Exact(op, a0, a1))
        [] op = "div" -> IF y = 0 THEN -1 ELSE Extended(w, Quotient(x, y))
        [] op = "mod" -> IF y = 0 THEN a0 ELSE Extended(w, Remainder(x, y))
        [] op \in {"and", "or", "xor"} -> Bitwise(op, a0, a1)
        [] op = "shl" -> Extended(w, a0 * Pow2[count])
        [] op = "shr" -> Extended(w, x \div Pow2[count])
        [] op \in {"eq", "ne"} -> Compare(op, a0, a1)
        [] op = "lt" -> IF t \in Unsigned
                        THEN Compare(op, Low(XLEN, a0), Low(XLEN, a1))
                        ELSE Compare(op, a0, a1)
        [] op = "le" -> Compare(op, a0, a1)  \* the type tested is that of the result

-----------------------------------------------------------------------------
(* common.c: eval2() works on int64_t, which has the width of a register.   *)
(* A result is <<value>>, or <<>>: "not a compile-time constant".           *)

Folded(v) == <<Extended(XLEN, v)>>
EvalNumber(t, v) == IF t \in FoldedTypes THEN Folded(v) ELSE <<>>
EvalCast(to, c) == IF c = <<>> \/ to \notin FoldedTypes THEN <<>>
                   ELSE IF Bits[to] = XLEN THEN c ELSE <<InWidth(to, c[1])>>

EvalTruth(c) == IF c = <<>> THEN <<>> ELSE <<Truth(c[1] # 0)>>

\* Mutant: numbers are compared as signed numbers, whatever their type.
EvalBinarySigned(op, ty, t, lhs, rhs) ==
  IF op \in Comparison /\ <<>> \notin {lhs, rhs} THEN <<Compare(op, lhs[1], rhs[1])>> ELSE <<>>

\* ty is the type of the node, t that of its left operand.
EvalBinary(op, ty, t, lhs, rhs) ==
  LET c == lhs[1]
      d == rhs[1]
      x == Low(XLEN, c)
      y == Low(XLEN, d)
  IN  IF \/ <<>> \in {lhs, rhs}
         \/ op \in {"div", "mod"} /\ d = 0
         \/ op \in Shift /\ d \notin 0 .. XLEN - 1
      THEN <<>>
      ELSE CASE op \in {"div", "mod"} /\ ty \in Unsigned -> Folded(Exact(op, x, y))
             [] op = "shr" /\ ty = "ulong" -> Folded(Exact(op, x, d))
             [] op \in {"lt", "le"} -> <<IF t \in Unsigned THEN Compare(op, x, y) ELSE Compare(op, c, d)>>
             [] op \in {"eq", "ne"} -> <<Compare(op, c, d)>>
             [] OTHER -> Folded(Exact(op, c, d))

-----------------------------------------------------------------------------
(* The nodes *)

\* type, cval: type and value in C; ty: node->ty; reg: a0 after gen_expr(node);
\* const: eval2(node).
Expr(type, cval, ty, reg, const) ==
  [type |-> type, cval |-> cval, ty |-> ty, reg |-> reg, const |-> const]

Init == /\ operands = <<>>
        /\ test = <<>>

Top == operands[Len(operands)]
Below == operands[Len(operands) - 1]
Build(n, e) == operands' = Append(SubSeq(operands, 1, Len(operands) - n), e)

Room == Len(operands) < 2

NumberOf(t, v) == Expr(t, v, t, Extended(XLEN, v), EvalNumber(t, v))

Number(t, v) == /\ Room
                /\ t = Promoted(t)
                /\ Build(0, NumberOf(t, v))
                /\ UNCHANGED test

VariableOf(t, v) == Expr(t, v, t, load(t, v), <<>>)
IsVariable(e) == e = VariableOf(e.type, e.cval)

Variable(t, v) == /\ Room
                  /\ Build(0, VariableOf(t, v))
                  /\ UNCHANGED test

Conv(from, to) == <<from, to>> \notin SkippedCasts

CastOf(e, to) ==
  Expr(to, InType(to, e.cval), to, cast(e.ty, to, e.reg), EvalCast(to, e.const))

Cast(to) == /\ operands # <<>>
            /\ Conv(Top.ty, to)
            /\ Build(1, CastOf(Top, to))
            /\ UNCHANGED test

\* The value of the assignment of e to a variable; reading the variable again,
\* what store() leaves of the register is loaded.
Stored(e, to) == [CastOf(e, to) EXCEPT !.const = <<>>]

Assign(to) == /\ operands # <<>>
              /\ Conv(Top.ty, to)
              /\ Build(1, [Stored(Top, to) EXCEPT !.reg = load(to, @)])
              /\ UNCHANGED test

\* A call of a function that returns e as a value of type `to`.
Call(to) == /\ operands # <<>>
            /\ Conv(Top.ty, to)
            /\ LET e == CastOf(Top, to)
               IN  Build(1, [e EXCEPT !.reg = IF Bits[to] < Bits["int"] THEN InWidth(to, @) ELSE @,
                                      !.const = <<>>])
            /\ UNCHANGED test

Neg == /\ operands # <<>>
       /\ LET e == Top
              t == Promoted(e.type)
              ty == get_common_type("int", e.ty)
              reg == cast(e.ty, ty, e.reg)
              c == EvalCast(ty, e.const)
          IN  /\ Conv(e.ty, ty)
              /\ Defined("sub", t, 0, InType(t, e.cval))
              /\ Build(1, Expr(t, InType(t, -e.cval), ty,
                              Extended(IF Bits[ty] = XLEN THEN XLEN ELSE Bits["int"], -reg),
                              IF c = <<>> THEN c ELSE Folded(-c[1])))
       /\ UNCHANGED test

BitNot == /\ operands # <<>>
          /\ <<"not", Top.ty>> \notin SkippedOps
          /\ LET e == Top
                 t == Promoted(e.type)
             IN  Build(1, Expr(t, InType(t, -1 - e.cval), e.ty, -1 - e.reg,
                               IF e.const = <<>> THEN <<>> ELSE Folded(-1 - e.const[1])))
          /\ UNCHANGED test

Not == /\ operands # <<>>
       /\ LET e == Top
          IN  Build(1, Expr("int", Truth(e.cval = 0), "int", Truth(e.reg = 0),
                            IF e.const = <<>> THEN <<>> ELSE <<1 - EvalTruth(e.const)[1]>>))
       /\ UNCHANGED test

ArithmeticOf(op, l, r) ==
  LET t == UsualType(l.type, r.type)
      x == InType(t, l.cval)
      y == InType(t, r.cval)
      ty == get_common_type(l.ty, r.ty)
      compares == op \in Comparison
      nodety == IF compares THEN "int" ELSE ty
  IN  Expr(IF compares THEN "int" ELSE t,
           IF compares THEN Compare(op, x, y) ELSE InType(t, Exact(op, x, y)),
           nodety,
           Instruction(op, ty, cast(l.ty, ty, l.reg), cast(r.ty, ty, r.reg)),
           EvalBinary(op, nodety, ty, EvalCast(ty, l.const), EvalCast(ty, r.const)))

\* The operands of a shift are left as they are.
ShiftOf(op, l, r) ==
  LET t == Promoted(l.type)
  IN  Expr(t, InType(t, Exact(op, InType(t, l.cval), r.cval)), l.ty,
           Instruction(op, l.ty, l.reg, r.reg),
           EvalBinary(op, l.ty, l.ty, l.const, r.const))

BinaryOf(op, l, r) == IF op \in Shift THEN ShiftOf(op, l, r) ELSE ArithmeticOf(op, l, r)

\* Two registers hold unsigned ints in one form: zero-extended, as loads leave
\* them, or sign-extended, as addw and the like do ("<=" is right for the first).
Alike(op, x, y) == \/ {x, y} \subseteq Values("uint")
                   \/ op # "le" /\ {x, y} \subseteq Values("int")

\* C gives l op r a meaning, and it is not among the combinations left out.
Meaningful(op, l, r) ==
  LET ty == get_common_type(l.ty, r.ty)
      t == IF op \in Shift THEN Promoted(l.type) ELSE UsualType(l.type, r.type)
  IN  /\ <<op, IF op \in Shift THEN l.ty ELSE ty>> \notin SkippedOps
      /\ op \notin Shift => Conv(l.ty, ty) /\ Conv(r.ty, ty)
      /\ (op \in AlikeOps /\ ty = "uint") =>
           Alike(op, cast(l.ty, ty, l.reg), cast(r.ty, ty, r.reg))
      /\ op \notin Comparison =>
           Defined(op, t, InType(t, l.cval), IF op \in Shift THEN r.cval ELSE InType(t, r.cval))

Binary(op) == /\ Len(operands) = 2
              /\ Meaningful(op, Below, Top)
              /\ Build(2, BinaryOf(op, Below, Top))
              /\ UNCHANGED test

\* > and >=
Greater(op) ==
  /\ Len(operands) = 2
  /\ Meaningful(Exchanged[op], Top, Below)
  /\ LET t == UsualType(Below.type, Top.type)
     IN  Build(2, [ArithmeticOf(Exchanged[op], Top, Below) EXCEPT
                     !.cval = Compare(op, InType(t, Below.cval), InType(t, Top.cval))])
  /\ UNCHANGED test

Comma == /\ Len(operands) = 2
         /\ Build(2, Top)
         /\ UNCHANGED test

-----------------------------------------------------------------------------
(* Assignment operators: to_assign() builds tmp = &A, *tmp = *tmp op C      *)

Assignable(op, a, c) == /\ IsVariable(a)
                        /\ Meaningful(op, a, c)
                        /\ Conv(BinaryOf(op, a, c).ty, a.ty)
AssignOf(op, a, c) == Stored(BinaryOf(op, a, c), a.ty)

OpAssign(op) == /\ Len(operands) = 2
                /\ Assignable(op, Below, Top)
                /\ Build(2, AssignOf(op, Below, Top))
                /\ UNCHANGED test

\* ++A and --A
Prefix(op) == LET one == NumberOf("int", 1)
              IN  /\ operands # <<>>
                  /\ Assignable(op, Top, one)
                  /\ Build(1, AssignOf(op, Top, one))
                  /\ UNCHANGED test

\* A++ and A--, (typeof A)((A += addend) - addend): in C the value A had.
Postfix(addend) ==
  LET by == NumberOf("int", addend)
      back == NumberOf("int", -addend)
      added == AssignOf("add", Top, by)
  IN  /\ operands # <<>>
      /\ <<"postfix", Top.ty>> \notin SkippedOps
      /\ Assignable("add", Top, by)
      /\ Build(1, [CastOf(ArithmeticOf("add", added, back), Top.ty) EXCEPT !.cval = Top.cval])
      /\ UNCHANGED test

-----------------------------------------------------------------------------
(* Branches: the condition is built first, then what depends on it *)

\* gen_expr(cond); cmp_zero(cond->ty); bnez a0
Test == /\ Len(operands) = 1
        /\ test = <<>>
        /\ test' = <<[truth |-> Top.cval # 0, taken |-> Truth(Top.reg = 0) # 0,
                     const |-> EvalTruth(Top.const)]>>
        /\ operands' = <<>>

Decided == test # <<>>
ConstTrue == test[1].const = <<1>>
ConstFalse == test[1].const = <<0>>

\* cond ? then : els
Cond ==
  /\ Decided
  /\ Len(operands) = 2
  /\ LET then == Below
         els == Top
         t == UsualType(then.type, els.type)
         ty == get_common_type(then.ty, els.ty)
         Selected(b) == IF b THEN then ELSE els
         run == Selected(~test[1].taken)
     IN  /\ Conv(then.ty, ty) /\ Conv(els.ty, ty)
         /\ Build(2, Expr(t, InType(t, Selected(test[1].truth).cval), ty,
                         cast(run.ty, ty, run.reg),
                         IF test[1].const = <<>> THEN <<>>
                         ELSE EvalCast(ty, Selected(ConstTrue).const)))
  /\ test' = <<>>

\* a ?: b is tmp = a, tmp ? tmp : b.
Elvis ==
  /\ Len(operands) = 2
  /\ LET tmp == [Stored(Below, Below.ty) EXCEPT !.reg = load(Below.ty, @)]
         els == Top
         t == UsualType(tmp.type, els.type)
         ty == get_common_type(tmp.ty, els.ty)
         run == IF tmp.reg # 0 THEN tmp ELSE els
     IN  /\ Conv(tmp.ty, ty) /\ Conv(els.ty, ty)
         /\ Build(2, Expr(t, InType(t, IF Below.cval # 0 THEN Below.cval ELSE els.cval), ty,
                         cast(run.ty, ty, run.reg), <<>>))
  /\ UNCHANGED test

\* cond && rhs
LogAnd ==
  /\ Decided
  /\ operands # <<>>
  /\ LET e == Top
     IN  Build(1, Expr("int", Truth(test[1].truth /\ e.cval # 0), "int",
                       Truth(~test[1].taken /\ e.reg # 0),
                       IF ConstFalse THEN <<0>>
                       ELSE IF <<>> \in {test[1].const, e.const} THEN <<>>
                       ELSE EvalTruth(e.const)))
  /\ test' = <<>>

\* cond || rhs
LogOr ==
  /\ Decided
  /\ operands # <<>>
  /\ LET e == Top
     IN  Build(1, Expr("int", Truth(test[1].truth \/ e.cval # 0), "int",
                       Truth(test[1].taken => e.reg # 0),
                       IF ConstTrue THEN <<1>>
                       ELSE IF <<>> \in {test[1].const, e.const} THEN <<>>
                       ELSE EvalTruth(e.const)))
  /\ test' = <<>>

-----------------------------------------------------------------------------
Next == \/ \E t \in Types : \E v \in Values(t) : Number(t, v) \/ Variable(t, v)
        \/ \E t \in Types : Cast(t) \/ Assign(t) \/ Call(t)
        \/ Neg \/ BitNot \/ Not
        \/ \E op \in Arithmetic \cup Comparison \cup Shift : Binary(op)
        \/ \E op \in DOMAIN Exchanged : Greater(op)
        \/ Comma
        \/ \E op \in Compound : OpAssign(op)
        \/ \E op \in Additive : Prefix(op)
        \/ \E addend \in {1, -1} : Postfix(addend)
        \/ Test \/ Cond \/ Elvis \/ LogAnd \/ LogOr

Spec == Init /\ [][Next]_vars

-----------------------------------------------------------------------------
(* The combinations for which the register conventions do not hold *)

\* The operand of "~" and the left operand of a shift are not promoted
\* (type.c: add_type), "~" of an unsigned int reverses the upper half of the
\* register too, "<=" on unsigned long is signed, and for a _Bool b the value
\* of b++, (_Bool)((b += 1) - 1), is always 0 and that of b-- always 1.
WeakOps == ({"not", "shl", "shr"} \X {"bool", "char", "uchar"})
           \cup {<<"not", "uint">>, <<"le", "ulong">>, <<"postfix", "bool">>}

\* An unsigned int is in a register with or without its sign extended, and
\* is not widened by a cast; unsigned char to char is not a cast at all.
WeakCasts == ({"uint"} \X {"int", "long", "ulong"}) \cup {<<"uchar", "char">>}

\* For the same reason x + y == z may be false for equal unsigned ints: the sum
\* is sign-extended, the variable is not, and the whole registers are compared
\* (codegen.c:1549-1559).  Of two registers that differ so "^" leaves neither form.
WeakAlike == {"xor"} \cup Comparison

-----------------------------------------------------------------------------
(* Properties *)

Registers == -Pow2[XLEN - 1] .. Pow2[XLEN - 1] - 1
Consts == {<<>>} \cup {<<v>> : v \in Registers}

\* Every operand has a type, and a value of that type.
TypeOK ==
  /\ Len(operands) <= 2
  /\ \A i \in DOMAIN operands :
       LET e == operands[i]
       IN  /\ e.type \in AllTypes /\ e.ty \in AllTypes
           /\ e.cval \in Values(e.type)
           /\ e.reg \in Registers /\ e.const \in Consts
  /\ test = <<>> \/ /\ test[1].truth \in BOOLEAN /\ test[1].taken \in BOOLEAN
                    /\ test[1].const \in Consts

\* What stands for the value v of type t in 64 bits: all of them, or, for an
\* unsigned int, the lower half (codegen.c:380-384, load()).
StandsFor(bits, t, v) ==
  IF t = "uint" THEN Low(Bits[t], bits) = v ELSE bits = Extended(XLEN, v)

\* add_type() gives each node the type it has in C.
TypeIsRight == \A i \in DOMAIN operands : operands[i].ty = operands[i].type

\* The code of an expression leaves its value in a0, and the branches on
\* conditions go the right way: no sequence of conversions, operators,
\* assignments and calls brings a register and its type out of step.
RegisterHoldsValue ==
  /\ \A i \in DOMAIN operands :
       LET e == operands[i] IN StandsFor(e.reg, e.type, e.cval)
  /\ test # <<>> => test[1].taken = ~test[1].truth

\* What the compiler computes at compile time is what the program would have
\* computed.
ConstantIsValue ==
  /\ \A i \in DOMAIN operands :
       LET e == operands[i]
       IN  e.const # <<>> => StandsFor(e.const[1], e.type, e.cval)
  /\ test # <<>> => /\ ConstTrue => test[1].truth
                    /\ ConstFalse => ~test[1].truth
===============================================================================
