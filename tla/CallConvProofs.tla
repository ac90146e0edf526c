---------------------------- MODULE CallConvProofs ----------------------------
(***************************************************************************)
(* The stack around calls, for any number of registers, any lists of        *)
(* arguments and calls nested to any depth.                                  *)
(***************************************************************************)
EXTENDS CallConv, FiniteSetTheorems, SequenceTheorems, WellFoundedInduction, TLAPS

-----------------------------------------------------------------------------
(* Loops over arguments *)

\* A set of numbers has a smallest one: what inductions here rest on.
LEMMA Smallest ==
  ASSUME NEW T, T \subseteq Nat, T # {}
  PROVE  \E x \in T : \A y \in T : x <= y
<1> DEFINE R == {ss \in Nat \X Nat : ss[1] < ss[2]}
<1>1. IsWellFoundedOn(R, Nat)
  BY NatLessThanWellFounded DEF OpToRel
<1>2. PICK x \in T : \A y \in T : ~ (<<y, x>> \in R)
  <2> HIDE DEF R
  <2> QED BY <1>1, WFMin
<1>3. ASSUME NEW y \in T, y < x PROVE FALSE
  <2>1. <<y, x>> \in R
    BY <1>3
  <2> QED BY <2>1, <1>2
<1> QED BY <1>2, <1>3

\* What holds at first and is kept in each round holds in all.
LEMMA Climb ==
  ASSUME NEW n \in Nat, NEW g, NEW S, g[0] \in S[0],
         \A i \in 1 .. n : g[i - 1] \in S[i - 1] => g[i] \in S[i]
  PROVE  \A i \in 0 .. n : g[i] \in S[i]
<1> DEFINE T == {k \in 0 .. n : g[k] \notin S[k]}
<1> SUFFICES ASSUME T # {} PROVE FALSE
  OBVIOUS
<1>1. PICK k \in T : \A y \in T : k <= y
  <2>1. T \subseteq Nat
    OBVIOUS
  <2> HIDE DEF T
  <2> QED BY <2>1, Smallest
<1>2. k \in 1 .. n /\ k - 1 \in 0 .. n /\ k - 1 \notin T
  BY <1>1
<1> QED BY <1>2

Rounds(f, base, F, n) == f = [i \in 0 .. n |-> IF i = 0 THEN base ELSE F[i][f[i - 1]]]

LEMMA RoundsExist ==
  ASSUME NEW n \in Nat, NEW base, NEW F
  PROVE  \E f : Rounds(f, base, F, n)
<1> DEFINE T == {k \in 0 .. n : ~ \E f : Rounds(f, base, F, k)}
<1> SUFFICES ASSUME T # {} PROVE FALSE
  OBVIOUS
<1>1. PICK k \in T : \A y \in T : k <= y
  <2>1. T \subseteq Nat
    OBVIOUS
  <2> HIDE DEF T
  <2> QED BY <2>1, Smallest
<1>2. k # 0
  <2> SUFFICES ASSUME k = 0 PROVE FALSE
    OBVIOUS
  <2> DEFINE f == [i \in 0 .. 0 |-> base]
  <2>1. Rounds(f, base, F, 0)
    BY DEF Rounds
  <2> QED BY <2>1
<1>3. PICK f : Rounds(f, base, F, k - 1)
  <2>1. k - 1 \in 0 .. n /\ k - 1 \notin T
    BY <1>1, <1>2
  <2> QED BY <2>1
<1> DEFINE g == [i \in 0 .. k |-> IF i = k THEN F[k][f[k - 1]] ELSE f[i]]
<1>4. ASSUME NEW i \in 0 .. k
      PROVE  g[i] = IF i = 0 THEN base ELSE F[i][g[i - 1]]
  <2>1. CASE i = k
    <3>1. g[k - 1] = f[k - 1] /\ g[k] = F[k][f[k - 1]]
      BY <1>2
    <3> HIDE DEF g
    <3> QED BY <1>2, <2>1, <3>1
  <2>2. CASE i # k
    <3>1. i \in 0 .. k - 1 /\ g[i] = f[i]
      BY <2>2
    <3>2. f[i] = IF i = 0 THEN base ELSE F[i][f[i - 1]]
      BY <3>1, <1>3 DEF Rounds
    <3>3. i # 0 => g[i - 1] = f[i - 1]
      BY <3>1
    <3> HIDE DEF g
    <3> QED BY <3>1, <3>2, <3>3
  <2> QED BY <2>1, <2>2
<1>5. Rounds(g, base, F, k)
  <2> DEFINE h == [i \in 0 .. k |-> IF i = 0 THEN base ELSE F[i][g[i - 1]]]
  <2>1. g = h
    BY <1>4
  <2> QED BY <2>1 DEF Rounds
<1> QED BY <1>5

\* A loop whose rounds, done on what they may find, are F.
LEMMA RoundsClimb ==
  ASSUME NEW n \in Nat, NEW S, NEW base \in S[0], NEW F,
         \A i \in 1 .. n : \A x \in S[i - 1] : F[i][x] \in S[i]
  PROVE  \E f : Rounds(f, base, F, n) /\ \A i \in 0 .. n : f[i] \in S[i]
<1>1. PICK f : Rounds(f, base, F, n)
  BY RoundsExist
<1>2. /\ f[0] = base
      /\ \A i \in 1 .. n : f[i] = F[i][f[i - 1]]
  BY <1>1 DEF Rounds
<1>3. f[0] \in S[0] /\ \A i \in 1 .. n : f[i - 1] \in S[i - 1] => f[i] \in S[i]
  BY <1>2
<1>4. \A i \in 0 .. n : f[i] \in S[i]
  BY <1>3, Climb
<1> QED BY <1>1, <1>4

-----------------------------------------------------------------------------
(* Words of several arguments *)

\* Argument i as a column of h[i] words.
Columns(h, S) == {p \in S \X (1 .. 3) : p[2] <= h[p[1]]}
Total(h, S) == Cardinality(Columns(h, S))

LEMMA TotalType ==
  ASSUME NEW n \in Nat, NEW S \in SUBSET (1 .. n), NEW h
  PROVE  IsFiniteSet(Columns(h, S)) /\ Total(h, S) \in Nat
<1>1. IsFiniteSet(1 .. n) /\ IsFiniteSet(1 .. 3)
  <2>1. 1 \in Int /\ 3 \in Int /\ n \in Int
    OBVIOUS
  <2> QED BY <2>1, FS_Interval
<1>2. IsFiniteSet((1 .. n) \X (1 .. 3))
  BY <1>1, FS_Product
<1>3. Columns(h, S) \in SUBSET ((1 .. n) \X (1 .. 3))
  BY DEF Columns
<1> QED BY <1>2, <1>3, FS_Subset, FS_CardinalityType DEF Total

LEMMA TotalEmpty ==
  ASSUME NEW h
  PROVE  Total(h, {}) = 0
<1>1. Columns(h, {}) = {}
  BY DEF Columns
<1> QED BY <1>1, FS_EmptySet DEF Total

LEMMA TotalOfNone ==
  ASSUME NEW h, NEW S, \A i \in S : h[i] = 0
  PROVE  Total(h, S) = 0
<1>1. Columns(h, S) = {}
  BY DEF Columns
<1> QED BY <1>1, FS_EmptySet DEF Total

LEMMA TotalMonotone ==
  ASSUME NEW n \in Nat, NEW S \in SUBSET (1 .. n), NEW T \in SUBSET S, NEW h
  PROVE  Total(h, T) <= Total(h, S)
<1>1. IsFiniteSet(Columns(h, S))
  BY TotalType
<1>2. Columns(h, T) \in SUBSET Columns(h, S)
  BY DEF Columns
<1> QED BY <1>1, <1>2, FS_Subset DEF Total

LEMMA ColumnSize ==
  ASSUME NEW i, NEW h, h[i] \in 0 .. 3
  PROVE  IsFiniteSet(Columns(h, {i})) /\ Total(h, {i}) = h[i]
<1>1. Columns(h, {i}) = {i} \X (1 .. h[i])
  BY DEF Columns
<1>2. IsFiniteSet({i}) /\ Cardinality({i}) = 1
  BY FS_Singleton
<1>3. IsFiniteSet(1 .. h[i]) /\ Cardinality(1 .. h[i]) = h[i]
  BY FS_Interval
<1>4. IsFiniteSet({i} \X (1 .. h[i])) /\ Cardinality({i} \X (1 .. h[i])) = 1 * h[i]
  BY <1>2, <1>3, FS_Product
<1>5. 1 * h[i] = h[i]
  OBVIOUS
<1> QED BY <1>1, <1>4, <1>5 DEF Total

\* One argument more.
LEMMA TotalMore ==
  ASSUME NEW n \in Nat, NEW S \in SUBSET (1 .. n), NEW i \in (1 .. n) \ S, NEW h, h[i] \in 0 .. 3
  PROVE  Total(h, S \cup {i}) = Total(h, S) + h[i]
<1>1. IsFiniteSet(Columns(h, S)) /\ Total(h, S) \in Nat
  BY TotalType
<1>2. IsFiniteSet(Columns(h, {i})) /\ Total(h, {i}) = h[i]
  BY ColumnSize
<1>3. Columns(h, S \cup {i}) = Columns(h, S) \cup Columns(h, {i})
  BY DEF Columns
<1>4. Columns(h, S) \cap Columns(h, {i}) = {}
  BY DEF Columns
<1>5. Cardinality(Columns(h, S) \cup Columns(h, {i})) =
        Cardinality(Columns(h, S)) + Cardinality(Columns(h, {i}))
          - Cardinality(Columns(h, S) \cap Columns(h, {i}))
  BY <1>1, <1>2, FS_Union
<1>6. Cardinality(Columns(h, S) \cap Columns(h, {i})) = 0
  BY <1>4, FS_EmptySet
<1>7. Total(h, S \cup {i}) = Total(h, S) + Total(h, {i}) - 0
  BY <1>3, <1>5, <1>6 DEF Total
<1> QED BY <1>1, <1>2, <1>7

-----------------------------------------------------------------------------
(* The invariant *)

\* What is pushed for an argument, and what of it is copied elsewhere.
Pushes(c) == [i \in DOMAIN Args(c) |-> IF Large(Args(c)[i]) THEN 1 ELSE Words(Args(c)[i])]
Copies(c) == [i \in DOMAIN Args(c) |-> IF Large(Args(c)[i]) THEN Words(Args(c)[i]) ELSE 0]

AllCalls == Calls \cup Inner

WordSet == {Junk, Pointer} \cup ((1 .. MaxLevel) \X Nat \X Nat)

FrameSet == [call : AllCalls, todo : Seq(Nat), evaluated : BOOLEAN, loaded : BOOLEAN,
             lost : BOOLEAN, stack_args : Nat, mem : Seq(WordSet), depth : Nat]

Regs == [1 .. MAX_ARG_REGS -> WordSet]

Typed == /\ calls \in Seq(FrameSet)
         /\ Len(calls) <= MaxLevel
         /\ mem \in Seq(WordSet)
         /\ depth \in Nat
         /\ t1 \in Nat \cup {Unknown}
         /\ a \in Regs /\ fa \in Regs

\* The stack and its depth as call l, with the calls in its arguments done, has them.
MemOf(l) == IF l = Len(calls) THEN mem ELSE calls[l + 1].mem
DepthOf(l) == IF l = Len(calls) THEN depth ELSE calls[l + 1].depth

Distinct(q) == \A i, j \in DOMAIN q : q[i] = q[j] => i = j
PadOf(f) == f.stack_args - Counts(f.call).stack

\* Words of f that are pushed by now, words that are copied.
PushedOf(f) == Total(Pushes(f.call), DOMAIN Args(f.call)) - Total(Pushes(f.call), Range(f.todo))
CopiedOf(f) == Total(Copies(f.call), DOMAIN Args(f.call)) - Total(Copies(f.call), Range(f.todo))

\* The stack m has p as its lower end.
Stands(m, p) == Len(p) <= Len(m) /\ \A j \in 1 .. Len(p) : m[j] = p[j]

\* The stack m, its depth being d, of a call with the frame f.
Balanced(f, m, d) ==
  /\ Range(f.todo) \subseteq DOMAIN Args(f.call) /\ Distinct(f.todo)
  /\ PadOf(f) \in 0 .. 1 /\ (f.depth + f.stack_args) % 2 = 0
  /\ Stands(m, f.mem)
  /\ ~ f.loaded =>
       /\ Len(m) = Len(f.mem) + PadOf(f) + Counts(f.call).struct_stack + PushedOf(f)
       /\ d = f.depth + PadOf(f) + PushedOf(f) + CopiedOf(f)
  /\ f.loaded => /\ f.todo = <<>>
                 /\ Len(m) = Len(f.mem) + f.stack_args
                 /\ d = f.depth + f.stack_args

\* The compiler knows where the stack is when no large struct is still to be copied.
Known == \A l \in 1 .. Len(calls) :
           (\A k \in 1 .. l - 1 : ~ LargeLeft(calls[k])) => Len(calls[l].mem) = calls[l].depth

\* The outermost call begins on an empty stack.
Base == /\ calls = <<>> => mem = <<>> /\ depth = 0
        /\ calls # <<>> => calls[1].mem = <<>> /\ calls[1].depth = 0

Levels == \A l \in 1 .. Len(calls) : /\ Balanced(calls[l], MemOf(l), DepthOf(l))
                                     /\ calls[l].loaded => l = Len(calls)

\* Large structs are copied into the part of the stack that is the innermost call's.
Above == calls # <<>> /\ t1 # Unknown => Len(Top.mem) <= t1

IInv == Typed /\ Base /\ Levels /\ Above /\ Known

-----------------------------------------------------------------------------
(* push_args(): registers and words *)

LEMMA ArgsType ==
  ASSUME NEW c \in AllCalls
  PROVE  /\ Len(Args(c)) \in Nat
         /\ DOMAIN Args(c) = 1 .. Len(Args(c))
         /\ \A i \in 1 .. Len(Args(c)) :
              /\ Args(c)[i] \in Kinds
              /\ IsVariable(c, i) => Args(c)[i] \in {"int", "double"}
<1>1. c.params \in Seq(Kinds) /\ c.more \in Seq({"int", "double"})
  BY CallsAssumption DEF AllCalls, IsCall
<1> DEFINE p == c.params
           q == c.more
<1>2. Args(c) = p \o q
  BY DEF Args
<1>3. {"int", "double"} \subseteq Kinds
  BY DEF Kinds
<1>4. q \in Seq(Kinds)
  BY <1>1, <1>3
<1> HIDE DEF p, q
<1>5. /\ p \o q \in Seq(Kinds)
      /\ Len(p \o q) = Len(p) + Len(q)
      /\ \A i \in 1 .. Len(p) + Len(q) : (p \o q)[i] = IF i <= Len(p) THEN p[i] ELSE q[i - Len(p)]
  <2>1. p \in Seq(Kinds)
    BY <1>1 DEF p
  <2> QED BY <2>1, <1>4, ConcatProperties
<1>6. q \in Seq({"int", "double"}) /\ p \in Seq(Kinds)
  BY <1>1 DEF p, q
<1>7. ASSUME NEW i \in 1 .. Len(p \o q)
      PROVE  (p \o q)[i] \in Kinds /\ (i > Len(p) => (p \o q)[i] \in {"int", "double"})
  <2>1. (p \o q)[i] \in Kinds
    BY <1>5
  <2>2. ASSUME i > Len(p) PROVE q[i - Len(p)] \in {"int", "double"}
    <3>1. i - Len(p) \in 1 .. Len(q)
      BY <1>5, <1>6, <2>2
    <3> QED BY <3>1, <1>6
  <2>3. i > Len(p) => (p \o q)[i] = q[i - Len(p)]
    BY <1>5, <1>6
  <2> QED BY <2>1, <2>2, <2>3
<1>8. \A i : IsVariable(c, i) <=> i > Len(p)
  BY DEF IsVariable, p
<1>9. Len(p \o q) \in Nat /\ DOMAIN (p \o q) = 1 .. Len(p \o q)
  BY <1>5
<1> QED BY <1>2, <1>7, <1>8, <1>9

LEMMA WordsOfKinds ==
  ASSUME NEW k \in Kinds
  PROVE  /\ Words(k) \in 1 .. 3
         /\ Large(k) <=> Words(k) = 3
         /\ Large(k) => IsStruct(k)
         /\ k \in {"int", "double"} => Words(k) = 1 /\ ~ IsStruct(k)
         /\ k = "ldouble" => Words(k) = 2 /\ ~ IsStruct(k)
         /\ ~ IsStruct(k) => k \in {"int", "double", "ldouble"}
BY DEF Kinds, Words, Large, IsStruct

LEMMA WordsOfArgs ==
  ASSUME NEW c \in AllCalls, NEW i \in 1 .. Len(Args(c))
  PROVE  /\ Pushes(c)[i] = IF Large(Args(c)[i]) THEN 1 ELSE Words(Args(c)[i])
         /\ Copies(c)[i] = IF Large(Args(c)[i]) THEN Words(Args(c)[i]) ELSE 0
         /\ Pushes(c)[i] \in 1 .. 2 /\ Copies(c)[i] \in 0 .. 3
<1>1. Args(c)[i] \in Kinds /\ i \in DOMAIN Args(c)
  BY ArgsType
<1>2. Words(Args(c)[i]) \in 1 .. 3 /\ (Large(Args(c)[i]) <=> Words(Args(c)[i]) = 3)
  BY <1>1, WordsOfKinds
<1> QED BY <1>1, <1>2 DEF Pushes, Copies

CountState == [g : 0 .. MAX_ARG_REGS, f : 0 .. MAX_ARG_REGS, stack : Nat, struct_stack : Nat,
               by_stack : SUBSET Nat]

\* An argument of m words, n of them copied, goes to registers and stack.
Counted(s, r, i, m, n) ==
  /\ r \in CountState
  /\ r.struct_stack = s.struct_stack + n
  /\ r.by_stack \subseteq s.by_stack \cup {i}
  /\ s.g <= r.g /\ s.f <= r.f
  /\ r.stack >= s.stack + n
  /\ r.stack + r.g + r.f = s.stack + n + s.g + s.f + m

\* Setting fields one by one.
Cs(g, f, stack, struct_stack, by_stack) ==
  [g |-> g, f |-> f, stack |-> stack, struct_stack |-> struct_stack, by_stack |-> by_stack]

LEMMA Set_g ==
  ASSUME NEW g, NEW f, NEW stack, NEW struct_stack, NEW by_stack, NEW s,
         s = Cs(g, f, stack, struct_stack, by_stack), NEW x
  PROVE  [s EXCEPT !.g = x] = Cs(x, f, stack, struct_stack, by_stack)
BY DEF Cs

LEMMA Set_f ==
  ASSUME NEW g, NEW f, NEW stack, NEW struct_stack, NEW by_stack, NEW s,
         s = Cs(g, f, stack, struct_stack, by_stack), NEW x
  PROVE  [s EXCEPT !.f = x] = Cs(g, x, stack, struct_stack, by_stack)
BY DEF Cs

LEMMA Set_stack ==
  ASSUME NEW g, NEW f, NEW stack, NEW struct_stack, NEW by_stack, NEW s,
         s = Cs(g, f, stack, struct_stack, by_stack), NEW x
  PROVE  [s EXCEPT !.stack = x] = Cs(g, f, x, struct_stack, by_stack)
BY DEF Cs

LEMMA Set_struct_stack ==
  ASSUME NEW g, NEW f, NEW stack, NEW struct_stack, NEW by_stack, NEW s,
         s = Cs(g, f, stack, struct_stack, by_stack), NEW x
  PROVE  [s EXCEPT !.struct_stack = x] = Cs(g, f, stack, x, by_stack)
BY DEF Cs

LEMMA Set_by_stack ==
  ASSUME NEW g, NEW f, NEW stack, NEW struct_stack, NEW by_stack, NEW s,
         s = Cs(g, f, stack, struct_stack, by_stack), NEW x
  PROVE  [s EXCEPT !.by_stack = x] = Cs(g, f, stack, struct_stack, x)
BY DEF Cs

LEMMA Set_g_stack ==
  ASSUME NEW s, s = Cs(s.g, s.f, s.stack, s.struct_stack, s.by_stack), NEW x, NEW y
  PROVE  [s EXCEPT !.g = x, !.stack = y] = Cs(x, s.f, y, s.struct_stack, s.by_stack)
<1> SUFFICES ASSUME NEW g, NEW f, NEW stack, NEW struct_stack, NEW by_stack,
                    g = s.g, f = s.f, stack = s.stack, struct_stack = s.struct_stack,
                    by_stack = s.by_stack
             PROVE  [s EXCEPT !.g = x, !.stack = y] = Cs(x, f, y, struct_stack, by_stack)
  OBVIOUS
<1>1. s = Cs(g, f, stack, struct_stack, by_stack)
  OBVIOUS
<1> SUFFICES ASSUME NEW t, t = [s EXCEPT !.g = x]
             PROVE  [t EXCEPT !.stack = y] = Cs(x, f, y, struct_stack, by_stack)
  OBVIOUS
<1>2. t = Cs(x, f, stack, struct_stack, by_stack)
  BY ONLY <1>1, t = [s EXCEPT !.g = x], Set_g
<1> QED BY ONLY <1>2, Set_stack

LEMMA Set_stack_by_stack ==
  ASSUME NEW s, s = Cs(s.g, s.f, s.stack, s.struct_stack, s.by_stack), NEW x, NEW y
  PROVE  [s EXCEPT !.stack = x, !.by_stack = y] = Cs(s.g, s.f, x, s.struct_stack, y)
<1> SUFFICES ASSUME NEW g, NEW f, NEW stack, NEW struct_stack, NEW by_stack,
                    g = s.g, f = s.f, stack = s.stack, struct_stack = s.struct_stack,
                    by_stack = s.by_stack
             PROVE  [s EXCEPT !.stack = x, !.by_stack = y] = Cs(g, f, x, struct_stack, y)
  OBVIOUS
<1>1. s = Cs(g, f, stack, struct_stack, by_stack)
  OBVIOUS
<1> SUFFICES ASSUME NEW t, t = [s EXCEPT !.stack = x]
             PROVE  [t EXCEPT !.by_stack = y] = Cs(g, f, x, struct_stack, y)
  OBVIOUS
<1>2. t = Cs(g, f, x, struct_stack, by_stack)
  BY ONLY <1>1, t = [s EXCEPT !.stack = x], Set_stack
<1> QED BY ONLY <1>2, Set_by_stack

LEMMA Set_stack_struct_stack ==
  ASSUME NEW s, s = Cs(s.g, s.f, s.stack, s.struct_stack, s.by_stack), NEW x, NEW y
  PROVE  [s EXCEPT !.stack = x, !.struct_stack = y] = Cs(s.g, s.f, x, y, s.by_stack)
<1> SUFFICES ASSUME NEW g, NEW f, NEW stack, NEW struct_stack, NEW by_stack,
                    g = s.g, f = s.f, stack = s.stack, struct_stack = s.struct_stack,
                    by_stack = s.by_stack
             PROVE  [s EXCEPT !.stack = x, !.struct_stack = y] = Cs(g, f, x, y, by_stack)
  OBVIOUS
<1>1. s = Cs(g, f, stack, struct_stack, by_stack)
  OBVIOUS
<1> SUFFICES ASSUME NEW t, t = [s EXCEPT !.stack = x]
             PROVE  [t EXCEPT !.struct_stack = y] = Cs(g, f, x, y, by_stack)
  OBVIOUS
<1>2. t = Cs(g, f, x, struct_stack, by_stack)
  BY ONLY <1>1, t = [s EXCEPT !.stack = x], Set_stack
<1> QED BY ONLY <1>2, Set_struct_stack

LEMMA CountStateType ==
  ASSUME NEW s \in CountState
  PROVE  /\ s.g \in 0 .. MAX_ARG_REGS /\ s.f \in 0 .. MAX_ARG_REGS
         /\ s.stack \in Nat /\ s.struct_stack \in Nat /\ s.by_stack \in SUBSET Nat
         /\ s = Cs(s.g, s.f, s.stack, s.struct_stack, s.by_stack)
BY DEF CountState, Cs

LEMMA CountedFrom ==
  ASSUME NEW s \in CountState, NEW i \in Nat, NEW m \in Nat, NEW n \in Nat,
         NEW g \in s.g .. MAX_ARG_REGS, NEW f \in s.f .. MAX_ARG_REGS, NEW stack \in Nat,
         stack >= s.stack + n, stack + g + f = s.stack + n + s.g + s.f + m,
         NEW by_stack \in SUBSET (s.by_stack \cup {i}),
         NEW r, r = Cs(g, f, stack, s.struct_stack + n, by_stack)
  PROVE  Counted(s, r, i, m, n)
<1>1. /\ s.g \in 0 .. MAX_ARG_REGS /\ s.f \in 0 .. MAX_ARG_REGS
      /\ s.stack \in Nat /\ s.struct_stack \in Nat /\ s.by_stack \in SUBSET Nat
  BY CountStateType
<1>2. /\ g \in 0 .. MAX_ARG_REGS /\ f \in 0 .. MAX_ARG_REGS /\ s.struct_stack + n \in Nat
      /\ by_stack \in SUBSET Nat
  BY <1>1, RegsAssumption
<1>3. r \in CountState
  BY <1>2 DEF CountState, Cs
<1> QED BY <1>1, <1>3, RegsAssumption DEF Counted, Cs

LEMMA SpreadCounts ==
  ASSUME NEW s \in CountState, NEW i \in Nat, NEW n \in Nat
  PROVE  /\ Counted(s, Spread(s, n), i, n, 0)
         /\ Spread(s, n).f = s.f
         /\ Spread(s, n).g = s.g + IF n <= MAX_ARG_REGS - s.g THEN n ELSE MAX_ARG_REGS - s.g
<1> DEFINE r == IF n <= MAX_ARG_REGS - s.g THEN n ELSE MAX_ARG_REGS - s.g
<1>1. /\ s.g \in 0 .. MAX_ARG_REGS /\ s.f \in 0 .. MAX_ARG_REGS
      /\ s.stack \in Nat /\ s.struct_stack \in Nat /\ s.by_stack \in SUBSET Nat
      /\ s = Cs(s.g, s.f, s.stack, s.struct_stack, s.by_stack)
  BY CountStateType
<1>2. Spread(s, n) = Cs(s.g + r, s.f, s.stack + n - r, s.struct_stack + 0, s.by_stack)
  <2>1. Spread(s, n) = [s EXCEPT !.g = s.g + r, !.stack = s.stack + n - r]
    BY DEF Spread
  <2> HIDE DEF r
  <2>3. s = Cs(s.g, s.f, s.stack, s.struct_stack, s.by_stack)
    BY <1>1
  <2>4. [s EXCEPT !.g = s.g + r, !.stack = s.stack + n - r]
          = Cs(s.g + r, s.f, s.stack + n - r, s.struct_stack, s.by_stack)
    BY ONLY <2>3, Set_g_stack
  <2>5. s.struct_stack + 0 = s.struct_stack
    BY <1>1
  <2> QED BY <2>1, <2>4, <2>5
<1>3. r \in 0 .. n /\ s.g + r \in s.g .. MAX_ARG_REGS /\ s.f \in s.f .. MAX_ARG_REGS
  BY <1>1, RegsAssumption
<1> HIDE DEF r
<1>4. /\ s.stack + n - r \in Nat
      /\ s.stack + n - r >= s.stack + 0
      /\ (s.stack + n - r) + (s.g + r) + s.f = s.stack + 0 + s.g + s.f + n
  BY <1>1, <1>3
<1>5. Counted(s, Spread(s, n), i, n, 0)
  <2>1. s.by_stack \in SUBSET (s.by_stack \cup {i}) /\ 0 \in Nat
    OBVIOUS
  <2> QED BY <1>2, <1>3, <1>4, <2>1, CountedFrom
<1> QED BY <1>2, <1>5 DEF r, Cs

LEMMA ByStackCounts ==
  ASSUME NEW s \in CountState, NEW i \in Nat
  PROVE  /\ Counted(s, ByStack(s, i), i, 1, 0)
         /\ ByStack(s, i).f = s.f /\ ByStack(s, i).g = s.g
<1>1. /\ s.g \in 0 .. MAX_ARG_REGS /\ s.f \in 0 .. MAX_ARG_REGS
      /\ s.stack \in Nat /\ s.struct_stack \in Nat /\ s.by_stack \in SUBSET Nat
      /\ s = Cs(s.g, s.f, s.stack, s.struct_stack, s.by_stack)
  BY CountStateType
<1>2. ByStack(s, i) = Cs(s.g, s.f, s.stack + 1, s.struct_stack + 0, s.by_stack \cup {i})
  <2>1. ByStack(s, i) = [s EXCEPT !.stack = s.stack + 1, !.by_stack = s.by_stack \cup {i}]
    BY DEF ByStack
  <2>3. s = Cs(s.g, s.f, s.stack, s.struct_stack, s.by_stack)
    BY <1>1
  <2>4. [s EXCEPT !.stack = s.stack + 1, !.by_stack = s.by_stack \cup {i}]
          = Cs(s.g, s.f, s.stack + 1, s.struct_stack, s.by_stack \cup {i})
    <3> SUFFICES ASSUME NEW x, NEW y, x = s.stack + 1, y = s.by_stack \cup {i}
                 PROVE  [s EXCEPT !.stack = x, !.by_stack = y] = Cs(s.g, s.f, x, s.struct_stack, y)
      OBVIOUS
    <3> QED BY ONLY <2>3, Set_stack_by_stack
  <2>5. s.struct_stack + 0 = s.struct_stack
    BY <1>1
  <2> QED BY <2>1, <2>4, <2>5
<1>3. /\ s.g \in s.g .. MAX_ARG_REGS /\ s.f \in s.f .. MAX_ARG_REGS
      /\ s.stack + 1 \in Nat /\ s.stack + 1 >= s.stack + 0
      /\ (s.stack + 1) + s.g + s.f = s.stack + 0 + s.g + s.f + 1
      /\ s.by_stack \cup {i} \in SUBSET (s.by_stack \cup {i}) /\ 0 \in Nat /\ 1 \in Nat
  BY <1>1, RegsAssumption
<1>4. Counted(s, ByStack(s, i), i, 1, 0)
  BY <1>2, <1>3, CountedFrom
<1> QED BY <1>2, <1>4 DEF Cs

\* A large struct: a pointer is passed, and w words are copied.
LEMMA StructCounts ==
  ASSUME NEW s \in CountState, NEW i \in Nat, NEW w \in 1 .. 3, NEW x, Counted(s, x, i, 1, 0),
         NEW r, r = Cs(x.g, x.f, x.stack + w, x.struct_stack + w, x.by_stack)
  PROVE  Counted(s, r, i, 1, w) /\ r.f = x.f /\ r.g = x.g
<1>1. x \in CountState
  BY DEF Counted
<1>2. /\ x.g \in 0 .. MAX_ARG_REGS /\ x.f \in 0 .. MAX_ARG_REGS
      /\ x.stack \in Nat /\ x.struct_stack \in Nat
      /\ x = Cs(x.g, x.f, x.stack, x.struct_stack, x.by_stack)
      /\ s.stack \in Nat /\ s.struct_stack \in Nat
      /\ s.g \in 0 .. MAX_ARG_REGS /\ s.f \in 0 .. MAX_ARG_REGS
  BY <1>1, CountStateType
<1>4. /\ x.struct_stack = s.struct_stack + 0 /\ x.by_stack \subseteq s.by_stack \cup {i}
      /\ s.g <= x.g /\ s.f <= x.f /\ x.stack >= s.stack + 0
      /\ x.stack + x.g + x.f = s.stack + 0 + s.g + s.f + 1
  BY DEF Counted
<1>5. /\ x.g \in s.g .. MAX_ARG_REGS /\ x.f \in s.f .. MAX_ARG_REGS
      /\ x.stack + w \in Nat /\ x.stack + w >= s.stack + w
      /\ x.struct_stack + w = s.struct_stack + w /\ w \in Nat /\ 1 \in Nat
  BY <1>2, <1>4, RegsAssumption
<1>6. (x.stack + w) + x.g + x.f = s.stack + w + s.g + s.f + 1
  BY <1>2, <1>4
<1>7. x.by_stack \in SUBSET (s.by_stack \cup {i})
  BY <1>4
<1>8. Counted(s, r, i, 1, w)
  BY <1>2, <1>5, <1>6, <1>7, CountedFrom
<1> QED BY <1>8 DEF Cs

\* Words that go to floating registers and to integer registers.
InFloat(s, c, i) == ~ IsVariable(c, i) /\ Args(c)[i] = "double" /\ s.f < MAX_ARG_REGS
InInteger(s, c, i) ==
  IF InFloat(s, c, i) THEN 0
  ELSE IF Pushes(c)[i] <= MAX_ARG_REGS - s.g THEN Pushes(c)[i] ELSE MAX_ARG_REGS - s.g

LEMMA CountStep ==
  ASSUME NEW c \in AllCalls, NEW i \in 1 .. Len(Args(c)), NEW s \in CountState
  PROVE  /\ Counted(s, CountArg(s, c, i), i, Pushes(c)[i], Copies(c)[i])
         /\ CountArg(s, c, i).f = s.f + IF InFloat(s, c, i) THEN 1 ELSE 0
         /\ CountArg(s, c, i).g = s.g + InInteger(s, c, i)
<1>1. /\ Args(c)[i] \in Kinds
      /\ IsVariable(c, i) => Args(c)[i] \in {"int", "double"}
      /\ Len(Args(c)) \in Nat
  BY ArgsType
<1>2. i \in Nat /\ MAX_ARG_REGS \in Nat \ {0} /\ s.g \in 0 .. MAX_ARG_REGS /\ s.f \in 0 .. MAX_ARG_REGS
  BY <1>1, RegsAssumption DEF CountState
<1> DEFINE k == Args(c)[i]
<1>3. /\ Pushes(c)[i] = IF Large(k) THEN 1 ELSE Words(k)
      /\ Copies(c)[i] = IF Large(k) THEN Words(k) ELSE 0
      /\ Pushes(c)[i] \in 1 .. 2 /\ Copies(c)[i] \in 0 .. 3
  BY WordsOfArgs
<1>4. /\ Words(k) \in 1 .. 3
      /\ Large(k) => IsStruct(k)
      /\ k \in {"int", "double"} => Words(k) = 1 /\ ~ IsStruct(k)
      /\ k = "ldouble" => Words(k) = 2 /\ ~ IsStruct(k)
      /\ ~ IsStruct(k) => k \in {"int", "double", "ldouble"}
  BY <1>1, WordsOfKinds
<1>5. \A n \in Nat : /\ Counted(s, Spread(s, n), i, n, 0)
                     /\ Spread(s, n).f = s.f
                     /\ Spread(s, n).g = s.g + IF n <= MAX_ARG_REGS - s.g THEN n ELSE MAX_ARG_REGS - s.g
  BY <1>2, SpreadCounts
<1>6. /\ Counted(s, ByStack(s, i), i, 1, 0)
      /\ ByStack(s, i).f = s.f /\ ByStack(s, i).g = s.g
  BY <1>2, ByStackCounts
<1>7. CountArg(s, c, i) =
        IF IsVariable(c, i)
        THEN IF s.g < MAX_ARG_REGS THEN Spread(s, 1) ELSE ByStack(s, i)
        ELSE IF Large(k)
        THEN [Spread(s, 1) EXCEPT !.stack = @ + Words(k), !.struct_stack = @ + Words(k)]
        ELSE IF IsStruct(k) THEN Spread(s, Words(k))
        ELSE IF k = "double" /\ s.f < MAX_ARG_REGS THEN [s EXCEPT !.f = @ + 1]
        ELSE IF k = "ldouble" THEN Spread(s, 2)
        ELSE IF s.g < MAX_ARG_REGS THEN Spread(s, 1) ELSE ByStack(s, i)
  BY DEF CountArg
<1> HIDE DEF k
<1>8. ASSUME k \in {"int", "double"}, ~ InFloat(s, c, i),
             CountArg(s, c, i) = IF s.g < MAX_ARG_REGS THEN Spread(s, 1) ELSE ByStack(s, i)
      PROVE  /\ Counted(s, CountArg(s, c, i), i, Pushes(c)[i], Copies(c)[i])
             /\ CountArg(s, c, i).f = s.f
             /\ CountArg(s, c, i).g = s.g + InInteger(s, c, i)
  <2>1. Pushes(c)[i] = 1 /\ Copies(c)[i] = 0
    BY <1>3, <1>4, <1>8
  <2>2. InInteger(s, c, i) = IF s.g < MAX_ARG_REGS THEN 1 ELSE 0
    BY <1>2, <1>8, <2>1 DEF InInteger
  <2>3. CASE s.g < MAX_ARG_REGS
    BY <1>2, <1>5, <1>8, <2>1, <2>2, <2>3
  <2>4. CASE ~ (s.g < MAX_ARG_REGS)
    BY <1>2, <1>6, <1>8, <2>1, <2>2, <2>4
  <2> QED BY <2>3, <2>4
<1>9. CASE IsVariable(c, i)
  <2>1. ~ InFloat(s, c, i) /\ k \in {"int", "double"}
    BY <1>1, <1>9 DEF InFloat, k
  <2> QED BY <2>1, <1>2, <1>7, <1>8, <1>9
<1>10. CASE ~ IsVariable(c, i) /\ Large(k)
  <2>1. ~ InFloat(s, c, i) /\ Pushes(c)[i] = 1 /\ Copies(c)[i] = Words(k)
    BY <1>1, <1>3, <1>4, <1>10 DEF InFloat, k
  <2>2. InInteger(s, c, i) = IF 1 <= MAX_ARG_REGS - s.g THEN 1 ELSE MAX_ARG_REGS - s.g
    BY <2>1 DEF InInteger
  <2>3. PICK w : w = Words(k)
    OBVIOUS
  <2>4. PICK x : x = Spread(s, 1)
    OBVIOUS
  <2>5. PICK r : r = [x EXCEPT !.stack = x.stack + w, !.struct_stack = x.struct_stack + w]
    OBVIOUS
  <2>6. CountArg(s, c, i) = r
    BY <1>7, <1>10, <2>3, <2>4, <2>5
  <2>7. /\ Counted(s, x, i, 1, 0)
        /\ x.f = s.f
        /\ x.g = s.g + IF 1 <= MAX_ARG_REGS - s.g THEN 1 ELSE MAX_ARG_REGS - s.g
    BY <1>5, <2>4
  <2>8. i \in Nat /\ w \in 1 .. 3
    BY <1>2, <1>4, <2>3
  <2>9. Counted(s, r, i, 1, w) /\ r.f = x.f /\ r.g = x.g
    <3>1. Counted(s, x, i, 1, 0)
      BY <2>7
    <3>2. x = Cs(x.g, x.f, x.stack, x.struct_stack, x.by_stack)
      BY <3>1, CountStateType DEF Counted
    <3>3. [x EXCEPT !.stack = x.stack + w, !.struct_stack = x.struct_stack + w]
            = Cs(x.g, x.f, x.stack + w, x.struct_stack + w, x.by_stack)
      BY ONLY <3>2, Set_stack_struct_stack
    <3>4. r = Cs(x.g, x.f, x.stack + w, x.struct_stack + w, x.by_stack)
      BY ONLY <2>5, <3>3
    <3> QED BY <2>8, <3>1, <3>4, StructCounts
  <2> QED BY <1>2, <2>1, <2>2, <2>3, <2>6, <2>7, <2>9
<1>11. CASE ~ IsVariable(c, i) /\ ~ Large(k) /\ (IsStruct(k) \/ k = "ldouble")
  <2>1. ~ InFloat(s, c, i) /\ Pushes(c)[i] = Words(k) /\ Copies(c)[i] = 0
    BY <1>1, <1>3, <1>4, <1>11 DEF InFloat, k
  <2>2. CountArg(s, c, i) = Spread(s, Words(k))
    BY <1>4, <1>7, <1>11
  <2>3. Words(k) \in Nat
    BY <1>4
  <2> QED BY <1>2, <1>5, <2>1, <2>2, <2>3 DEF InInteger
<1>12. CASE ~ IsVariable(c, i) /\ ~ Large(k) /\ ~ IsStruct(k) /\ k # "ldouble"
  <2>1. k \in {"int", "double"}
    BY <1>4, <1>12
  <2>2. CASE InFloat(s, c, i)
    <3>1. k = "double" /\ s.f < MAX_ARG_REGS
      BY <2>2 DEF InFloat, k
    <3>2. CountArg(s, c, i) = [s EXCEPT !.f = @ + 1]
      BY <1>7, <1>12, <3>1
    <3>3. Pushes(c)[i] = 1 /\ Copies(c)[i] = 0 /\ InInteger(s, c, i) = 0
      BY <1>3, <1>4, <2>1, <2>2, <1>12 DEF InInteger
    <3> QED BY <1>2, <2>2, <3>1, <3>2, <3>3 DEF Counted, CountState
  <2>3. CASE ~ InFloat(s, c, i)
    <3>1. CountArg(s, c, i) = IF s.g < MAX_ARG_REGS THEN Spread(s, 1) ELSE ByStack(s, i)
      BY <1>7, <1>12, <2>3 DEF InFloat, k
    <3> QED BY <1>2, <1>8, <2>1, <2>3, <3>1
  <2> QED BY <2>2, <2>3
<1> QED BY <1>9, <1>10, <1>11, <1>12

FirstReg(c) == IF c.buffer THEN 1 ELSE 0
CountStart(c) == [g |-> FirstReg(c), f |-> 0, stack |-> 0, struct_stack |-> 0, by_stack |-> {}]

\* Every word of the first i arguments is in a register or on the stack, once.
CountsUpTo(c, i) ==
  {s \in CountState :
     /\ s.struct_stack = Total(Copies(c), 1 .. i)
     /\ s.by_stack \subseteq 1 .. i
     /\ FirstReg(c) <= s.g /\ s.struct_stack <= s.stack
     /\ s.stack + s.g + s.f = s.struct_stack + Total(Pushes(c), 1 .. i) + FirstReg(c)}

CountRounds(k, c, n) ==
  k = [i \in 0 .. n |-> IF i = 0 THEN CountStart(c) ELSE CountArg(k[i - 1], c, i)]

LEMMA TotalNext ==
  ASSUME NEW c \in AllCalls, NEW i \in 1 .. Len(Args(c))
  PROVE  /\ Total(Pushes(c), 1 .. i) = Total(Pushes(c), 1 .. i - 1) + Pushes(c)[i]
         /\ Total(Copies(c), 1 .. i) = Total(Copies(c), 1 .. i - 1) + Copies(c)[i]
         /\ Total(Pushes(c), 1 .. i - 1) \in Nat /\ Total(Copies(c), 1 .. i - 1) \in Nat
<1>1. Len(Args(c)) \in Nat
  BY ArgsType
<1>2. /\ 1 .. i - 1 \in SUBSET (1 .. Len(Args(c))) /\ i \in (1 .. Len(Args(c))) \ (1 .. i - 1)
      /\ 1 .. i = (1 .. i - 1) \cup {i}
  BY <1>1
<1>3. Pushes(c)[i] \in 0 .. 3 /\ Copies(c)[i] \in 0 .. 3
  BY WordsOfArgs
<1>4a. PICK n \in Nat : n = Len(Args(c))
  BY <1>1
<1>4. PICK S \in SUBSET (1 .. n) :
        /\ S = 1 .. i - 1 /\ i \in (1 .. n) \ S /\ 1 .. i = S \cup {i}
  BY <1>2, <1>4a
<1>5. ASSUME NEW h, h[i] \in 0 .. 3
      PROVE  Total(h, S \cup {i}) = Total(h, S) + h[i] /\ Total(h, S) \in Nat
  <2>1. i \in (1 .. n) \ S
    BY <1>4
  <2> QED BY <1>5, <2>1, TotalMore, TotalType
<1> QED BY <1>3, <1>4, <1>5

LEMMA CountsStart ==
  ASSUME NEW c \in AllCalls
  PROVE  CountStart(c) \in CountsUpTo(c, 0)
<1>1. Total(Pushes(c), 1 .. 0) = 0 /\ Total(Copies(c), 1 .. 0) = 0
  <2>1. 1 .. 0 = {}
    OBVIOUS
  <2> QED BY <2>1, TotalEmpty
<1>2. FirstReg(c) \in 0 .. MAX_ARG_REGS /\ 0 \in 0 .. MAX_ARG_REGS
  BY RegsAssumption DEF FirstReg
<1>3. CountStart(c) \in CountState
  BY <1>2 DEF CountStart, CountState
<1> QED BY <1>1, <1>2, <1>3 DEF CountStart, CountsUpTo

LEMMA CountsNext ==
  ASSUME NEW c \in AllCalls, NEW i \in 1 .. Len(Args(c)), NEW s \in CountsUpTo(c, i - 1)
  PROVE  CountArg(s, c, i) \in CountsUpTo(c, i)
<1> SUFFICES ASSUME NEW r, r = CountArg(s, c, i) PROVE r \in CountsUpTo(c, i)
  OBVIOUS
<1>1. s \in CountState
  BY DEF CountsUpTo
<1>2. Counted(s, r, i, Pushes(c)[i], Copies(c)[i])
  BY <1>1, CountStep
<1>3. PICK m \in 1 .. 2, n \in 0 .. 3 : m = Pushes(c)[i] /\ n = Copies(c)[i]
  BY WordsOfArgs
<1>4. /\ Total(Pushes(c), 1 .. i) = Total(Pushes(c), 1 .. i - 1) + m
      /\ Total(Copies(c), 1 .. i) = Total(Copies(c), 1 .. i - 1) + n
      /\ Total(Pushes(c), 1 .. i - 1) \in Nat /\ Total(Copies(c), 1 .. i - 1) \in Nat
  BY <1>3, TotalNext
<1>5. /\ r \in CountState
      /\ r.struct_stack = s.struct_stack + n
      /\ r.by_stack \subseteq s.by_stack \cup {i}
      /\ s.g <= r.g /\ s.f <= r.f
      /\ r.stack >= s.stack + n
      /\ r.stack + r.g + r.f = s.stack + n + s.g + s.f + m
  BY <1>2, <1>3 DEF Counted
<1>6. /\ s.g \in Nat /\ s.f \in Nat /\ s.stack \in Nat /\ s.struct_stack \in Nat
      /\ r.g \in Nat /\ r.f \in Nat /\ r.stack \in Nat /\ r.struct_stack \in Nat
      /\ FirstReg(c) \in Nat /\ i \in Nat
  <2>1. Len(Args(c)) \in Nat
    BY ArgsType
  <2>2. FirstReg(c) \in Nat /\ i \in Nat
    BY <2>1 DEF FirstReg
  <2>3. r \in CountState /\ s \in CountState
    BY <1>1, <1>5
  <2>4. /\ s.g \in 0 .. MAX_ARG_REGS /\ s.f \in 0 .. MAX_ARG_REGS
        /\ r.g \in 0 .. MAX_ARG_REGS /\ r.f \in 0 .. MAX_ARG_REGS
        /\ s.stack \in Nat /\ s.struct_stack \in Nat /\ r.stack \in Nat /\ r.struct_stack \in Nat
    BY <2>3, CountStateType
  <2>5. \A x \in 0 .. MAX_ARG_REGS : x \in Nat
    BY RegsAssumption
  <2> QED BY <2>2, <2>4, <2>5
<1>7. /\ s.struct_stack = Total(Copies(c), 1 .. i - 1)
      /\ s.by_stack \subseteq 1 .. i - 1
      /\ FirstReg(c) <= s.g /\ s.struct_stack <= s.stack
      /\ s.stack + s.g + s.f = s.struct_stack + Total(Pushes(c), 1 .. i - 1) + FirstReg(c)
  BY DEF CountsUpTo
<1>8. r.struct_stack = Total(Copies(c), 1 .. i)
  BY <1>4, <1>5, <1>7
<1>9. r.by_stack \subseteq 1 .. i
  <2>1. 1 .. i - 1 \subseteq 1 .. i /\ i \in 1 .. i
    BY <1>6
  <2> QED BY <1>5, <1>7, <2>1
<1>10. FirstReg(c) <= r.g /\ r.struct_stack <= r.stack
  <2>1. r.struct_stack = s.struct_stack + n /\ s.g <= r.g /\ r.stack >= s.stack + n
    BY <1>5
  <2>2. FirstReg(c) <= s.g /\ s.struct_stack <= s.stack
    BY <1>7
  <2> QED BY <1>6, <2>1, <2>2
<1>11. r.stack + r.g + r.f = r.struct_stack + Total(Pushes(c), 1 .. i) + FirstReg(c)
  <2>1. PICK p \in Nat : p = Total(Pushes(c), 1 .. i - 1)
    BY <1>4
  <2>2. Total(Pushes(c), 1 .. i) = p + m
    BY <1>4, <2>1
  <2>3. s.stack + s.g + s.f = s.struct_stack + p + FirstReg(c)
    BY <1>7, <2>1
  <2>4. /\ r.stack + r.g + r.f = s.stack + n + s.g + s.f + m
        /\ r.struct_stack = s.struct_stack + n
    BY <1>5
  <2>5. s.stack + n + s.g + s.f + m = (s.stack + s.g + s.f) + n + m
    BY <1>6
  <2>6. (s.struct_stack + p + FirstReg(c)) + n + m
          = (s.struct_stack + n) + (p + m) + FirstReg(c)
    BY <1>6
  <2> QED BY <2>2, <2>3, <2>4, <2>5, <2>6
<1> QED BY <1>5, <1>8, <1>9, <1>10, <1>11 DEF CountsUpTo

\* push_args(), over all arguments.
LEMMA CountsAre ==
  ASSUME NEW c \in AllCalls
  PROVE  \E k : /\ CountRounds(k, c, Len(Args(c)))
                /\ Counts(c) = k[Len(Args(c))]
                /\ \A i \in 0 .. Len(Args(c)) : k[i] \in CountsUpTo(c, i)
<1>1. PICK n \in Nat : n = Len(Args(c))
  BY ArgsType
<1> DEFINE S == [i \in 0 .. n |-> CountsUpTo(c, i)]
           F == [i \in 1 .. n |-> [s \in CountsUpTo(c, i - 1) |-> CountArg(s, c, i)]]
<1>2. CountStart(c) \in S[0]
  <2>1. 0 \in 0 .. n
    OBVIOUS
  <2> QED BY <2>1, CountsStart
<1>3. \A i \in 1 .. n : \A s \in S[i - 1] : F[i][s] \in S[i] /\ F[i][s] = CountArg(s, c, i)
  <2> SUFFICES ASSUME NEW i \in 1 .. n, NEW s \in S[i - 1]
               PROVE  F[i][s] \in S[i] /\ F[i][s] = CountArg(s, c, i)
    OBVIOUS
  <2>1. i - 1 \in 0 .. n /\ i \in 0 .. n
    OBVIOUS
  <2>2. S[i - 1] = CountsUpTo(c, i - 1) /\ S[i] = CountsUpTo(c, i)
    BY <2>1
  <2>3. s \in CountsUpTo(c, i - 1)
    BY <2>2
  <2>4. CountArg(s, c, i) \in CountsUpTo(c, i)
    BY <1>1, <2>3, CountsNext
  <2>5. F[i][s] = CountArg(s, c, i)
    BY <2>3
  <2> QED BY <2>2, <2>4, <2>5
<1> HIDE DEF F
<1>4. PICK f : Rounds(f, CountStart(c), F, n) /\ \A i \in 0 .. n : f[i] \in S[i]
  <2> HIDE DEF S
  <2> QED BY <1>2, <1>3, RoundsClimb
<1>5. CountRounds(f, c, n)
  <2>1. f = [i \in 0 .. n |-> IF i = 0 THEN CountStart(c) ELSE F[i][f[i - 1]]]
    BY <1>4 DEF Rounds
  <2>2. \A i \in 0 .. n : i # 0 => F[i][f[i - 1]] = CountArg(f[i - 1], c, i)
    <3> SUFFICES ASSUME NEW i \in 0 .. n, i # 0 PROVE F[i][f[i - 1]] = CountArg(f[i - 1], c, i)
      OBVIOUS
    <3>1. i \in 1 .. n /\ i - 1 \in 0 .. n
      OBVIOUS
    <3>2. f[i - 1] \in S[i - 1]
      BY <1>4, <3>1
    <3> QED BY <1>3, <3>1, <3>2
  <2> HIDE DEF S
  <2> QED BY <2>1, <2>2 DEF CountRounds
<1> DEFINE k == CHOOSE k : CountRounds(k, c, n)
<1>6. CountRounds(k, c, n)
  BY <1>5
<1>7. Counts(c) = k[n]
  BY <1>1 DEF Counts, Through, CountRounds, CountStart, FirstReg
<1> HIDE DEF k
<1>8. k[0] = CountStart(c) /\ \A i \in 1 .. n : k[i] = CountArg(k[i - 1], c, i)
  BY <1>6 DEF CountRounds
<1>9. k[0] \in S[0] /\ \A i \in 1 .. n : k[i - 1] \in S[i - 1] => k[i] \in S[i]
  BY <1>2, <1>3, <1>8
<1>10. \A i \in 0 .. n : k[i] \in S[i]
  <2> HIDE DEF S
  <2> QED BY <1>9, Climb
<1> QED BY <1>1, <1>6, <1>7, <1>10

LEMMA CountsType ==
  ASSUME NEW c \in AllCalls
  PROVE  Counts(c) \in CountsUpTo(c, Len(Args(c)))
<1>1. Len(Args(c)) \in 0 .. Len(Args(c))
  BY ArgsType
<1> QED BY <1>1, CountsAre


-----------------------------------------------------------------------------
(* push_args2(): the order of the arguments *)

LEMMA AppendOne ==
  ASSUME NEW D, NEW q \in Seq(D), Distinct(q), NEW i \in D, i \notin Range(q)
  PROVE  /\ Append(q, i) \in Seq(D) /\ Distinct(Append(q, i))
         /\ Range(Append(q, i)) = Range(q) \cup {i}
<1> SUFFICES ASSUME NEW r, r = Append(q, i)
             PROVE  r \in Seq(D) /\ Distinct(r) /\ Range(r) = Range(q) \cup {i}
  OBVIOUS
<1>1. /\ r \in Seq(D) /\ Len(q) \in Nat /\ Len(r) = Len(q) + 1
      /\ DOMAIN r = 1 .. Len(q) + 1 /\ DOMAIN q = 1 .. Len(q)
      /\ r[Len(q) + 1] = i /\ \A j \in 1 .. Len(q) : r[j] = q[j]
  OBVIOUS
<1>2. Range(r) = Range(q) \cup {i}
  <2>1. \A j \in DOMAIN r : j \in DOMAIN q \/ j = Len(q) + 1
    BY <1>1
  <2>2. DOMAIN q \subseteq DOMAIN r /\ Len(q) + 1 \in DOMAIN r
    BY <1>1
  <2> QED BY <1>1, <2>1, <2>2 DEF Range
<1>3. Distinct(r)
  <2> SUFFICES ASSUME NEW j \in 1 .. Len(q) + 1, NEW k \in 1 .. Len(q) + 1, r[j] = r[k]
               PROVE  j = k
    BY <1>1 DEF Distinct
  <2>1. \A l \in 1 .. Len(q) : r[l] # i
    BY <1>1 DEF Range
  <2>2. CASE j = Len(q) + 1 \/ k = Len(q) + 1
    BY <1>1, <2>1, <2>2
  <2>3. CASE j # Len(q) + 1 /\ k # Len(q) + 1
    <3>1. j \in 1 .. Len(q) /\ k \in 1 .. Len(q)
      BY <1>1, <2>3
    <3>2. q[j] = q[k]
      BY <1>1, <3>1
    <3> QED BY <1>1, <3>1, <3>2 DEF Distinct
  <2> QED BY <2>2, <2>3
<1> QED BY <1>1, <1>2, <1>3

\* Rounds 1 to n of a pass over N arguments.
Passed(N, order, passed, n) ==
  {q \in Seq(1 .. N) :
     Distinct(q) /\ Range(q) = Range(order) \cup (passed \cap (N + 1 - n .. N))}

LEMMA PassedNext ==
  ASSUME NEW N \in Nat, NEW order, NEW passed \in SUBSET (1 .. N),
         Range(order) \cap passed = {},
         NEW n \in 1 .. N, NEW q \in Passed(N, order, passed, n - 1)
  PROVE  (IF N + 1 - n \in passed THEN Append(q, N + 1 - n) ELSE q) \in Passed(N, order, passed, n)
<1>1. PICK i \in 1 .. N : i = N + 1 - n
  OBVIOUS
<1>2. N + 1 - (n - 1) .. N = i + 1 .. N /\ N + 1 - n .. N = {i} \cup (i + 1 .. N)
  BY <1>1
<1>3. /\ q \in Seq(1 .. N) /\ Distinct(q)
      /\ Range(q) = Range(order) \cup (passed \cap (i + 1 .. N))
  BY <1>2 DEF Passed
<1>4. CASE i \in passed
  <2>1. i \notin i + 1 .. N
    OBVIOUS
  <2>2. i \notin Range(q)
    BY <1>3, <1>4, <2>1
  <2>3. /\ Append(q, i) \in Seq(1 .. N) /\ Distinct(Append(q, i))
        /\ Range(Append(q, i)) = Range(q) \cup {i}
    BY <1>3, <2>2, AppendOne
  <2>4. Range(Append(q, i)) = Range(order) \cup (passed \cap (N + 1 - n .. N))
    BY <1>2, <1>3, <1>4, <2>3
  <2> QED BY <1>1, <1>4, <2>3, <2>4 DEF Passed
<1>5. CASE i \notin passed
  <2>1. Range(q) = Range(order) \cup (passed \cap (N + 1 - n .. N))
    BY <1>2, <1>3, <1>5
  <2> QED BY <1>1, <1>3, <1>5, <2>1 DEF Passed
<1> QED BY <1>4, <1>5

LEMMA OnePassIs ==
  ASSUME NEW c \in AllCalls, NEW N \in Nat, N = Len(Args(c)),
         NEW order \in Seq(1 .. N), Distinct(order),
         NEW passed \in SUBSET (1 .. N), Range(order) \cap passed = {}
  PROVE  /\ OnePass(c, order, passed) \in Seq(1 .. N)
         /\ Distinct(OnePass(c, order, passed))
         /\ Range(OnePass(c, order, passed)) = Range(order) \cup passed
<1> DEFINE S == [n \in 0 .. N |-> Passed(N, order, passed, n)]
           F == [n \in 1 .. N |-> [q \in Passed(N, order, passed, n - 1) |->
                   IF N + 1 - n \in passed THEN Append(q, N + 1 - n) ELSE q]]
           R(k) == k = [n \in 0 .. N |->
                          IF n = 0 THEN order
                          ELSE IF N + 1 - n \in passed
                          THEN Append(k[n - 1], N + 1 - n) ELSE k[n - 1]]
<1>1. order \in S[0]
  <2>1. 0 \in 0 .. N /\ N + 1 - 0 .. N = {}
    OBVIOUS
  <2> QED BY <2>1 DEF Passed
<1>2. \A n \in 1 .. N : \A q \in S[n - 1] :
        /\ F[n][q] \in S[n]
        /\ F[n][q] = IF N + 1 - n \in passed THEN Append(q, N + 1 - n) ELSE q
  <2> SUFFICES ASSUME NEW n \in 1 .. N, NEW q \in S[n - 1]
               PROVE  /\ F[n][q] \in S[n]
                      /\ F[n][q] = IF N + 1 - n \in passed THEN Append(q, N + 1 - n) ELSE q
    OBVIOUS
  <2>1. n - 1 \in 0 .. N /\ n \in 0 .. N
    OBVIOUS
  <2>2. S[n - 1] = Passed(N, order, passed, n - 1) /\ S[n] = Passed(N, order, passed, n)
    BY <2>1
  <2>3. q \in Passed(N, order, passed, n - 1)
    BY <2>2
  <2>4. (IF N + 1 - n \in passed THEN Append(q, N + 1 - n) ELSE q) \in Passed(N, order, passed, n)
    BY <2>3, PassedNext
  <2>5. F[n][q] = IF N + 1 - n \in passed THEN Append(q, N + 1 - n) ELSE q
    BY <2>3
  <2> QED BY <2>2, <2>4, <2>5
<1> HIDE DEF F
<1>3. PICK f : Rounds(f, order, F, N) /\ \A n \in 0 .. N : f[n] \in S[n]
  <2>1. \A n \in 1 .. N : \A q \in S[n - 1] : F[n][q] \in S[n]
    BY <1>2
  <2> HIDE DEF S, R
  <2> QED BY <1>1, <2>1, RoundsClimb
<1>4. R(f)
  <2>1. f = [n \in 0 .. N |-> IF n = 0 THEN order ELSE F[n][f[n - 1]]]
    BY <1>3 DEF Rounds
  <2>2. \A n \in 0 .. N : n # 0 => 
          F[n][f[n - 1]] = IF N + 1 - n \in passed
                           THEN Append(f[n - 1], N + 1 - n) ELSE f[n - 1]
    <3> SUFFICES ASSUME NEW n \in 0 .. N, n # 0
                 PROVE  F[n][f[n - 1]] = IF N + 1 - n \in passed
                                         THEN Append(f[n - 1], N + 1 - n) ELSE f[n - 1]
      OBVIOUS
    <3>1. n \in 1 .. N /\ n - 1 \in 0 .. N
      OBVIOUS
    <3>2. f[n - 1] \in S[n - 1]
      BY <1>3, <3>1
    <3> QED BY <1>2, <3>1, <3>2
  <2> HIDE DEF S
  <2> QED BY <2>1, <2>2
<1> DEFINE k == CHOOSE k : R(k)
<1>5. R(k)
  BY <1>4
<1>6. OnePass(c, order, passed) = k[N]
  BY DEF OnePass, Through
<1> HIDE DEF k
<1>7. k[0] = order /\ \A n \in 1 .. N : k[n] = IF N + 1 - n \in passed
                                             THEN Append(k[n - 1], N + 1 - n) ELSE k[n - 1]
  <2>1. k = [n \in 0 .. N |-> IF n = 0 THEN order
                              ELSE IF N + 1 - n \in passed
                              THEN Append(k[n - 1], N + 1 - n) ELSE k[n - 1]]
    BY <1>5
  <2>2. 0 \in 0 .. N /\ \A n \in 1 .. N : n \in 0 .. N /\ n # 0
    OBVIOUS
  <2> HIDE DEF R, S
  <2> QED BY ONLY <2>1, <2>2
<1>8. k[0] \in S[0] /\ \A n \in 1 .. N : k[n - 1] \in S[n - 1] => k[n] \in S[n]
  <2> HIDE DEF R, S
  <2>1. k[0] \in S[0]
    BY <1>1, <1>7
  <2>2. ASSUME NEW n \in 1 .. N, k[n - 1] \in S[n - 1] PROVE k[n] \in S[n]
    <3>1. PICK x \in S[n - 1] : x = k[n - 1]
      BY <2>2
    <3>2. k[n] = IF N + 1 - n \in passed THEN Append(x, N + 1 - n) ELSE x
      BY <1>7, <3>1
    <3>3. F[n][x] \in S[n] /\ F[n][x] = IF N + 1 - n \in passed THEN Append(x, N + 1 - n) ELSE x
      BY <1>2
    <3> QED BY <3>2, <3>3
  <2> QED BY <2>1, <2>2
<1>9. \A n \in 0 .. N : k[n] \in S[n]
  <2> HIDE DEF S
  <2> QED BY <1>8, Climb
<1>10. k[N] \in Passed(N, order, passed, N)
  BY <1>9
<1>11. N + 1 - N .. N = 1 .. N
  OBVIOUS
<1> QED BY <1>6, <1>10, <1>11 DEF Passed

\* Every argument has its turn, once.
LEMMA OrderIs ==
  ASSUME NEW c \in AllCalls
  PROVE  /\ Order(c) \in Seq(1 .. Len(Args(c)))
         /\ Distinct(Order(c))
         /\ Range(Order(c)) = 1 .. Len(Args(c))
<1>1. PICK N \in Nat : N = Len(Args(c)) /\ DOMAIN Args(c) = 1 .. N
  BY ArgsType
<1> DEFINE b == Counts(c).by_stack
<1>2. b \in SUBSET (1 .. N)
  BY <1>1, CountsType DEF CountsUpTo
<1>3. Order(c) = OnePass(c, OnePass(c, <<>>, b), (1 .. N) \ b)
  BY <1>1 DEF Order
<1> HIDE DEF b
<1>4. PICK o \in Seq(1 .. N) : o = <<>> /\ Distinct(o) /\ Range(o) = {}
  <2>1. <<>> \in Seq(1 .. N) /\ Distinct(<<>>) /\ Range(<<>>) = {}
    BY DEF Distinct, Range
  <2> QED BY ONLY <2>1
<1>5. PICK q : q = OnePass(c, o, b)
  OBVIOUS
<1>6. q \in Seq(1 .. N) /\ Distinct(q) /\ Range(q) = b
  <2>1. Range(o) \cap b = {} /\ Distinct(o)
    BY <1>4
  <2>2. /\ OnePass(c, o, b) \in Seq(1 .. N)
        /\ Distinct(OnePass(c, o, b))
        /\ Range(OnePass(c, o, b)) = Range(o) \cup b
    BY <1>1, <1>2, <2>1, OnePassIs
  <2> QED BY <1>4, <1>5, <2>2
<1>7. /\ OnePass(c, q, (1 .. N) \ b) \in Seq(1 .. N)
      /\ Distinct(OnePass(c, q, (1 .. N) \ b))
      /\ Range(OnePass(c, q, (1 .. N) \ b)) = Range(q) \cup ((1 .. N) \ b)
  <2>1. Range(q) \cap ((1 .. N) \ b) = {} /\ (1 .. N) \ b \in SUBSET (1 .. N)
    BY <1>6
  <2> QED BY <1>1, <1>6, <2>1, OnePassIs
<1>8. Order(c) = OnePass(c, q, (1 .. N) \ b)
  BY <1>3, <1>4, <1>5
<1>9. b \cup ((1 .. N) \ b) = 1 .. N
  BY <1>2
<1> QED BY <1>1, <1>6, <1>7, <1>8, <1>9

-----------------------------------------------------------------------------
(* The pops behind push_args() *)

LEMMA StandsIs ==
  ASSUME NEW m \in Seq(WordSet), NEW p \in Seq(WordSet)
  PROVE  Stands(m, p) <=> Len(p) <= Len(m) /\ SubSeq(m, 1, Len(p)) = p
<1>1. Len(p) \in Nat /\ Len(m) \in Nat /\ DOMAIN p = 1 .. Len(p) /\ DOMAIN m = 1 .. Len(m)
  OBVIOUS
<1> SUFFICES ASSUME Len(p) <= Len(m)
             PROVE  (\A j \in 1 .. Len(p) : m[j] = p[j]) <=> SubSeq(m, 1, Len(p)) = p
  BY DEF Stands
<1>2. PICK q : q = SubSeq(m, 1, Len(p))
  OBVIOUS
<1>3. q \in Seq(WordSet) /\ Len(q) = Len(p) /\ \A j \in 1 .. Len(p) : q[j] = m[j]
  <2>1. \A j \in 1 .. Len(p) : m[j] \in WordSet
    BY <1>1
  <2>2. 1 \in Int /\ Len(p) \in Int
    BY <1>1
  <2>3. /\ SubSeq(m, 1, Len(p)) \in Seq(WordSet)
        /\ Len(SubSeq(m, 1, Len(p))) = IF 1 <= Len(p) THEN Len(p) - 1 + 1 ELSE 0
        /\ \A j \in 1 .. Len(p) - 1 + 1 : SubSeq(m, 1, Len(p))[j] = m[1 + j - 1]
    BY <2>1, <2>2, SubSeqProperties
  <2> QED BY <1>1, <1>2, <2>3
<1>4. q = p <=> \A j \in 1 .. Len(p) : q[j] = p[j]
  BY <1>1, <1>3, SeqEqual
<1> QED BY <1>2, <1>3, <1>4

LEMMA StandsTransitive ==
  ASSUME NEW m \in Seq(WordSet), NEW p \in Seq(WordSet), NEW q \in Seq(WordSet),
         Stands(m, p), Stands(p, q)
  PROVE  Stands(m, q)
<1>1. Len(p) \in Nat /\ Len(m) \in Nat /\ Len(q) \in Nat
  OBVIOUS
<1> QED BY <1>1 DEF Stands

LEMMA FrontIs ==
  ASSUME NEW m \in Seq(WordSet), Len(m) > 0
  PROVE  /\ Front(m) \in Seq(WordSet) /\ Len(Front(m)) = Len(m) - 1 /\ Stands(m, Front(m))
         /\ Last(m) \in WordSet
<1>1. Len(m) \in Nat /\ 1 \in Int /\ Len(m) - 1 \in Int /\ DOMAIN m = 1 .. Len(m)
  OBVIOUS
<1>2. /\ SubSeq(m, 1, Len(m) - 1) \in Seq(WordSet)
      /\ Len(SubSeq(m, 1, Len(m) - 1)) = IF 1 <= Len(m) - 1 THEN Len(m) - 1 - 1 + 1 ELSE 0
      /\ \A j \in 1 .. Len(m) - 1 - 1 + 1 : SubSeq(m, 1, Len(m) - 1)[j] = m[1 + j - 1]
  <2>1. \A j \in 1 .. Len(m) - 1 : m[j] \in WordSet
    BY <1>1
  <2> QED BY <1>1, <2>1, SubSeqProperties
<1>3. Front(m) = SubSeq(m, 1, Len(m) - 1) /\ Last(m) = m[Len(m)]
  BY DEF Front, Last
<1> QED BY <1>1, <1>2, <1>3 DEF Stands

\* g and f words of the stack m are in registers.
PopSet(m, g, f) ==
  {r \in [mem : Seq(WordSet), a : Regs, fa : Regs, g : Nat, f : Nat] :
     r.g = g /\ r.f = f /\ Len(r.mem) = Len(m) - g - f /\ Stands(m, r.mem)}

\* Setting fields one by one.
Ps(m, A, B, g, f) == [mem |-> m, a |-> A, fa |-> B, g |-> g, f |-> f]

LEMMA Pop_mem ==
  ASSUME NEW m, NEW A, NEW B, NEW g, NEW f, NEW r, r = Ps(m, A, B, g, f), NEW x
  PROVE  [r EXCEPT !.mem = x] = Ps(x, A, B, g, f)
BY DEF Ps

LEMMA Pop_g ==
  ASSUME NEW m, NEW A, NEW B, NEW g, NEW f, NEW r, r = Ps(m, A, B, g, f), NEW x
  PROVE  [r EXCEPT !.g = x] = Ps(m, A, B, x, f)
BY DEF Ps

LEMMA Pop_f ==
  ASSUME NEW m, NEW A, NEW B, NEW g, NEW f, NEW r, r = Ps(m, A, B, g, f), NEW x
  PROVE  [r EXCEPT !.f = x] = Ps(m, A, B, g, x)
BY DEF Ps

Put(A, i, x) == [A EXCEPT ![i] = x]

PopInto(r, i, x, y, z) == [r EXCEPT !.a[i] = x, !.mem = y, !.g = z]

LEMMA PopSets ==
  ASSUME NEW m, NEW A, NEW B, NEW g, NEW f, NEW r, r = Ps(m, A, B, g, f), NEW i, NEW x, NEW y, NEW z
  PROVE  PopInto(r, i, x, y, z) = Ps(y, Put(A, i, x), B, z, f)
<1> SUFFICES ASSUME NEW C, C = Put(A, i, x)
             PROVE  [r EXCEPT !.a[i] = x, !.mem = y, !.g = z] = Ps(y, C, B, z, f)
  BY DEF PopInto
<1> SUFFICES ASSUME NEW s, s = [r EXCEPT !.a[i] = x], NEW t, t = [s EXCEPT !.mem = y]
             PROVE  [t EXCEPT !.g = z] = Ps(y, C, B, z, f)
  BY Zenon
<1>1. s = Ps(m, C, B, g, f)
  BY ONLY r = Ps(m, A, B, g, f), s = [r EXCEPT !.a[i] = x], C = Put(A, i, x) DEF Ps, Put
<1>2. t = Ps(y, C, B, g, f)
  BY ONLY <1>1, t = [s EXCEPT !.mem = y], Pop_mem
<1> QED BY ONLY <1>2, Pop_g

LEMMA PopIs ==
  ASSUME NEW m, NEW A, NEW B, NEW g, NEW f, NEW r, r = Ps(m, A, B, g, f)
  PROVE  Pop(r) = Ps(Front(m), Put(A, g + 1, Last(m)), B, g + 1, f)
<1>1. r.g = g /\ r.mem = m
  BY DEF Ps
<1>2. Pop(r) = PopInto(r, g + 1, Last(m), Front(m), g + 1)
  BY <1>1, Zenon DEF Pop, PopInto
<1> QED BY <1>2, PopSets

PopFloatInto(r, i, x, y, z) == [r EXCEPT !.fa[i] = x, !.mem = y, !.f = z]

LEMMA PopFloatSets ==
  ASSUME NEW m, NEW A, NEW B, NEW g, NEW f, NEW r, r = Ps(m, A, B, g, f), NEW i, NEW x, NEW y, NEW z
  PROVE  PopFloatInto(r, i, x, y, z) = Ps(y, A, Put(B, i, x), g, z)
<1> SUFFICES ASSUME NEW C, C = Put(B, i, x)
             PROVE  [r EXCEPT !.fa[i] = x, !.mem = y, !.f = z] = Ps(y, A, C, g, z)
  BY DEF PopFloatInto
<1> SUFFICES ASSUME NEW s, s = [r EXCEPT !.fa[i] = x], NEW t, t = [s EXCEPT !.mem = y]
             PROVE  [t EXCEPT !.f = z] = Ps(y, A, C, g, z)
  BY Zenon
<1>1. s = Ps(m, A, C, g, f)
  BY ONLY r = Ps(m, A, B, g, f), s = [r EXCEPT !.fa[i] = x], C = Put(B, i, x) DEF Ps, Put
<1>2. t = Ps(y, A, C, g, f)
  BY ONLY <1>1, t = [s EXCEPT !.mem = y], Pop_mem
<1> QED BY ONLY <1>2, Pop_f

LEMMA PopFloatIs ==
  ASSUME NEW m, NEW A, NEW B, NEW g, NEW f, NEW r, r = Ps(m, A, B, g, f)
  PROVE  PopFloat(r) = Ps(Front(m), A, Put(B, f + 1, Last(m)), g, f + 1)
<1>1. r.f = f /\ r.mem = m
  BY DEF Ps
<1>2. PopFloat(r) = PopFloatInto(r, f + 1, Last(m), Front(m), f + 1)
  BY <1>1, Zenon DEF PopFloat, PopFloatInto
<1> QED BY <1>2, PopFloatSets

LEMMA PopOne ==
  ASSUME NEW m \in Seq(WordSet), NEW g \in Nat, NEW f \in Nat, NEW r \in PopSet(m, g, f),
         g + f < Len(m)
  PROVE  /\ g < MAX_ARG_REGS => Pop(r) \in PopSet(m, g + 1, f)
         /\ f < MAX_ARG_REGS => PopFloat(r) \in PopSet(m, g, f + 1)
<1>1. PICK x \in Seq(WordSet), A \in Regs, B \in Regs :
        r = Ps(x, A, B, g, f)
  <2>1. /\ r = [mem |-> r.mem, a |-> r.a, fa |-> r.fa, g |-> r.g, f |-> r.f]
        /\ r.mem \in Seq(WordSet) /\ r.a \in Regs /\ r.fa \in Regs /\ r.g = g /\ r.f = f
    BY DEF PopSet
  <2> QED BY <2>1 DEF Ps
<1>2. Len(x) = Len(m) - g - f /\ Stands(m, x)
  BY <1>1 DEF PopSet, Ps
<1>3. Len(m) \in Nat /\ Len(x) \in Nat /\ Len(x) > 0
  BY <1>2
<1>4. /\ Front(x) \in Seq(WordSet) /\ Len(Front(x)) = Len(x) - 1 /\ Stands(x, Front(x))
      /\ Last(x) \in WordSet
  BY <1>3, FrontIs
<1>5. Stands(m, Front(x))
  BY <1>2, <1>4, StandsTransitive
<1>6. /\ Len(Front(x)) = Len(m) - (g + 1) - f
      /\ Len(Front(x)) = Len(m) - g - (f + 1)
  BY <1>2, <1>3, <1>4
<1>7. ASSUME g < MAX_ARG_REGS PROVE Pop(r) \in PopSet(m, g + 1, f)
  <2>1. Pop(r) = Ps(Front(x), Put(A, g + 1, Last(x)), B, g + 1, f)
    BY <1>1, PopIs
  <2>2. Put(A, g + 1, Last(x)) \in Regs
    BY <1>4 DEF Regs, Put
  <2> QED BY <1>4, <1>5, <1>6, <2>1, <2>2 DEF PopSet, Ps
<1>8. ASSUME f < MAX_ARG_REGS PROVE PopFloat(r) \in PopSet(m, g, f + 1)
  <2>1. PopFloat(r) = Ps(Front(x), A, Put(B, f + 1, Last(x)), g, f + 1)
    BY <1>1, PopFloatIs
  <2>2. Put(B, f + 1, Last(x)) \in Regs
    BY <1>4 DEF Regs, Put
  <2> QED BY <1>4, <1>5, <1>6, <2>1, <2>2 DEF PopSet, Ps
<1> QED BY <1>7, <1>8

PopIfFree(r) == IF r.g < MAX_ARG_REGS THEN Pop(r) ELSE r

LEMMA PopUpToIs ==
  ASSUME NEW r
  PROVE  PopUpTo(r, 1) = PopIfFree(r) /\ PopUpTo(r, 2) = PopIfFree(PopIfFree(r))
<1>1. PopUpTo(r, 1) = PopIfFree(r)
  <2> DEFINE R(k) == k = [i \in 0 .. 1 |-> IF i = 0 THEN r ELSE IF k[i - 1].g < MAX_ARG_REGS
                                                           THEN Pop(k[i - 1]) ELSE k[i - 1]]
             w == [i \in 0 .. 1 |-> IF i = 0 THEN r ELSE PopIfFree(r)]
             k == CHOOSE k : R(k)
  <2>1. PopUpTo(r, 1) = k[1]
    BY DEF PopUpTo, Through
  <2>2. R(w)
    BY DEF PopIfFree
  <2>3. R(k)
    BY <2>2
  <2> HIDE DEF k
  <2>4. k[0] = r /\ k[1] = PopIfFree(k[0])
    BY <2>3 DEF PopIfFree
  <2> QED BY <2>1, <2>4
<1>2. PopUpTo(r, 2) = PopIfFree(PopIfFree(r))
  <2> DEFINE R(k) == k = [i \in 0 .. 2 |-> IF i = 0 THEN r ELSE IF k[i - 1].g < MAX_ARG_REGS
                                                           THEN Pop(k[i - 1]) ELSE k[i - 1]]
             w == [i \in 0 .. 2 |-> IF i = 0 THEN r
                                    ELSE IF i = 1 THEN PopIfFree(r) ELSE PopIfFree(PopIfFree(r))]
             k == CHOOSE k : R(k)
  <2>1. PopUpTo(r, 2) = k[2]
    BY DEF PopUpTo, Through
  <2>2. R(w)
    BY DEF PopIfFree
  <2>3. R(k)
    BY <2>2
  <2> HIDE DEF k
  <2>4. k[0] = r /\ k[1] = PopIfFree(k[0]) /\ k[2] = PopIfFree(k[1])
    BY <2>3 DEF PopIfFree
  <2> QED BY <2>1, <2>4
<1> QED BY <1>1, <1>2

\* n words to registers, as long as there are any: one or two.
LEMMA PopTwo ==
  ASSUME NEW m \in Seq(WordSet), NEW g \in 0 .. MAX_ARG_REGS, NEW f \in Nat, NEW n \in 1 .. 2,
         NEW r \in PopSet(m, g, f), NEW j \in 0 .. 2,
         j = IF n <= MAX_ARG_REGS - g THEN n ELSE MAX_ARG_REGS - g, g + j + f <= Len(m)
  PROVE  PopUpTo(r, n) \in PopSet(m, g + j, f)
<1>1. /\ MAX_ARG_REGS \in Nat \ {0} /\ Len(m) \in Nat /\ g \in Nat
      /\ PopUpTo(r, 1) = PopIfFree(r) /\ PopUpTo(r, 2) = PopIfFree(PopIfFree(r))
  BY RegsAssumption, PopUpToIs
<1>2. ASSUME NEW h \in Nat, NEW s \in PopSet(m, h, f), h < MAX_ARG_REGS, h + f < Len(m)
      PROVE  PopIfFree(s) \in PopSet(m, h + 1, f)
  <2>1. s.g = h
    BY DEF PopSet
  <2>2. Pop(s) \in PopSet(m, h + 1, f)
    BY <1>2, PopOne
  <2> QED BY <1>2, <2>1, <2>2 DEF PopIfFree
<1>3. ASSUME NEW h \in Nat, NEW s \in PopSet(m, h, f), ~ (h < MAX_ARG_REGS)
      PROVE  PopIfFree(s) = s
  <2>1. s.g = h
    BY DEF PopSet
  <2> QED BY <1>3, <2>1 DEF PopIfFree
<1>4. CASE j = 0
  <2>1. ~ (g < MAX_ARG_REGS) /\ g + j = g
    BY <1>1, <1>4
  <2>2. PopIfFree(r) = r
    BY <1>1, <1>3, <2>1
  <2> QED BY <1>1, <2>1, <2>2
<1>5. CASE j = 1
  <2>1. g < MAX_ARG_REGS /\ g + f < Len(m) /\ g + 1 \in Nat
    BY <1>1, <1>5
  <2>2. PopIfFree(r) \in PopSet(m, g + 1, f)
    BY <1>1, <1>2, <2>1
  <2>3. CASE n = 1
    BY <1>1, <1>5, <2>2, <2>3
  <2>4. CASE n = 2
    <3>1. ~ (g + 1 < MAX_ARG_REGS)
      BY <1>1, <1>5, <2>4
    <3>2. PopIfFree(PopIfFree(r)) = PopIfFree(r)
      BY <1>3, <2>1, <2>2, <3>1
    <3> QED BY <1>1, <1>5, <2>2, <2>4, <3>2
  <2> QED BY <2>3, <2>4
<1>6. CASE j = 2
  <2>1. /\ n = 2 /\ g < MAX_ARG_REGS /\ g + f < Len(m) /\ g + 1 \in Nat
        /\ g + 1 < MAX_ARG_REGS /\ (g + 1) + f < Len(m) /\ g + 2 = (g + 1) + 1
    BY <1>1, <1>6
  <2>2. PopIfFree(r) \in PopSet(m, g + 1, f)
    BY <1>1, <1>2, <2>1
  <2>3. PopIfFree(PopIfFree(r)) \in PopSet(m, (g + 1) + 1, f)
    BY <1>2, <2>1, <2>2
  <2> QED BY <1>1, <1>6, <2>1, <2>3
<1> QED BY <1>4, <1>5, <1>6

\* What was counted for an argument is popped for it.
LEMMA PopArgIs ==
  ASSUME NEW c \in AllCalls, NEW i \in 1 .. Len(Args(c)), NEW s \in CountState,
         NEW m \in Seq(WordSet), NEW r \in PopSet(m, s.g, s.f),
         CountArg(s, c, i).g + CountArg(s, c, i).f <= Len(m)
  PROVE  PopArg(r, c, i) \in PopSet(m, CountArg(s, c, i).g, CountArg(s, c, i).f)
<1>1. /\ Args(c)[i] \in Kinds
      /\ IsVariable(c, i) => Args(c)[i] \in {"int", "double"}
  BY ArgsType
<1>2. /\ CountArg(s, c, i).f = s.f + IF InFloat(s, c, i) THEN 1 ELSE 0
      /\ CountArg(s, c, i).g = s.g + InInteger(s, c, i)
  BY CountStep
<1>3. /\ s.g \in 0 .. MAX_ARG_REGS /\ s.f \in 0 .. MAX_ARG_REGS
      /\ MAX_ARG_REGS \in Nat \ {0} /\ Len(m) \in Nat /\ s.g \in Nat /\ s.f \in Nat
  BY CountStateType, RegsAssumption
<1> DEFINE k == Args(c)[i]
<1>4. Pushes(c)[i] = (IF Large(k) THEN 1 ELSE Words(k)) /\ Pushes(c)[i] \in 1 .. 2
  BY WordsOfArgs
<1>5. /\ Large(k) => IsStruct(k)
      /\ k \in {"int", "double"} => Words(k) = 1 /\ ~ IsStruct(k)
      /\ k = "ldouble" => Words(k) = 2 /\ ~ IsStruct(k)
      /\ ~ IsStruct(k) => k \in {"int", "double", "ldouble"}
      /\ Large(k) <=> Words(k) = 3
  BY <1>1, WordsOfKinds
<1>6. r.f = s.f
  BY DEF PopSet
<1>7. CASE InFloat(s, c, i)
  <2>1. PopArg(r, c, i) = PopFloat(r) /\ InInteger(s, c, i) = 0 /\ s.f < MAX_ARG_REGS
    BY <1>5, <1>6, <1>7 DEF PopArg, InFloat, InInteger
  <2>2. CountArg(s, c, i).f = s.f + 1 /\ CountArg(s, c, i).g = s.g /\ s.g + s.f < Len(m)
    BY <1>2, <1>3, <1>7, <2>1
  <2>3. PopFloat(r) \in PopSet(m, s.g, s.f + 1)
    BY <1>3, <2>1, <2>2, PopOne
  <2> QED BY <2>1, <2>2, <2>3
<1>8. CASE ~ InFloat(s, c, i)
  <2>1. PICK n \in 1 .. 2 : n = Pushes(c)[i]
    BY <1>4
  <2>2. PopArg(r, c, i) = PopUpTo(r, n)
    <3>1. CASE IsVariable(c, i)
      BY <1>1, <1>4, <1>5, <2>1, <3>1 DEF PopArg
    <3>2. CASE ~ IsVariable(c, i) /\ IsStruct(k) /\ ~ Large(k)
      BY <1>4, <2>1, <3>2 DEF PopArg
    <3>3. CASE ~ IsVariable(c, i) /\ ~ (IsStruct(k) /\ ~ Large(k))
      <4>1. n = IF k = "ldouble" THEN 2 ELSE 1
        BY <1>4, <1>5, <2>1, <3>3
      <4>2. ~ (k = "double" /\ r.f < MAX_ARG_REGS)
        BY <1>6, <1>8, <3>3 DEF InFloat
      <4> QED BY <3>3, <4>1, <4>2 DEF PopArg
    <3> QED BY <3>1, <3>2, <3>3
  <2>3. PICK j \in 0 .. 2 : j = InInteger(s, c, i)
    BY <1>3, <1>8, <2>1 DEF InInteger
  <2>4. j = IF n <= MAX_ARG_REGS - s.g THEN n ELSE MAX_ARG_REGS - s.g
    BY <1>8, <2>1, <2>3 DEF InInteger
  <2>5. CountArg(s, c, i).f = s.f /\ CountArg(s, c, i).g = s.g + j
    BY <1>2, <1>3, <1>8, <2>3
  <2>6. s.g + j + s.f <= Len(m)
    BY <2>5
  <2>7. PopUpTo(r, n) \in PopSet(m, s.g + j, s.f)
    BY <1>3, <2>4, <2>6, PopTwo
  <2> QED BY <2>2, <2>5, <2>7
<1> QED BY <1>7, <1>8

\* The pops of a call whose stack is m.
Loaded(c, base) == Through(LAMBDA r, i : PopArg(r, c, i), base, Len(Args(c)))

LEMMA LoadedIs ==
  ASSUME NEW c \in AllCalls, NEW m \in Seq(WordSet),
         Len(m) >= Total(Pushes(c), 1 .. Len(Args(c))) + FirstReg(c),
         NEW base \in PopSet(m, FirstReg(c), 0)
  PROVE  Loaded(c, base) \in PopSet(m, Counts(c).g, Counts(c).f)
<1>1. PICK N \in Nat : N = Len(Args(c))
  BY ArgsType
<1>2. PICK k : /\ CountRounds(k, c, N)
               /\ Counts(c) = k[N]
               /\ \A i \in 0 .. N : k[i] \in CountsUpTo(c, i)
  BY <1>1, CountsAre
<1>3. /\ k[0] = CountStart(c)
      /\ \A i \in 1 .. N : k[i] = CountArg(k[i - 1], c, i)
  BY <1>2 DEF CountRounds
<1>4. ASSUME NEW i \in 0 .. N PROVE k[i].g + k[i].f <= Len(m)
  <2>1. PICK s : s = k[i] /\ s \in CountsUpTo(c, i)
    BY <1>2
  <2>2. /\ s.g \in Nat /\ s.f \in Nat /\ s.stack \in Nat /\ s.struct_stack \in Nat
        /\ s.struct_stack <= s.stack
        /\ s.stack + s.g + s.f = s.struct_stack + Total(Pushes(c), 1 .. i) + FirstReg(c)
    <3>1. s \in CountState
      BY <2>1 DEF CountsUpTo
    <3>2. s.g \in 0 .. MAX_ARG_REGS /\ s.f \in 0 .. MAX_ARG_REGS
      BY <3>1, CountStateType
    <3> QED BY <2>1, <3>1, <3>2, CountStateType, RegsAssumption DEF CountsUpTo
  <2>3. 1 .. i \in SUBSET (1 .. N) /\ 1 .. N \in SUBSET (1 .. N)
    OBVIOUS
  <2>4. PICK p \in Nat, q \in Nat : p = Total(Pushes(c), 1 .. i) /\ q = Total(Pushes(c), 1 .. N)
    BY <2>3, TotalType
  <2>5. p <= q
    BY <2>3, <2>4, TotalMonotone
  <2>6. PICK e \in Nat : e = FirstReg(c)
    BY DEF FirstReg
  <2>7. s.stack + s.g + s.f = s.struct_stack + p + e /\ Len(m) >= q + e /\ Len(m) \in Nat
    BY <1>1, <2>2, <2>4, <2>6
  <2>8. s.g + s.f <= Len(m)
    BY <2>2, <2>5, <2>7
  <2> QED BY <2>1, <2>8
<1> DEFINE S == [i \in 0 .. N |-> PopSet(m, k[i].g, k[i].f)]
           F == [i \in 1 .. N |-> [r \in PopSet(m, k[i - 1].g, k[i - 1].f) |-> PopArg(r, c, i)]]
           R(l) == l = [i \in 0 .. N |-> IF i = 0 THEN base ELSE PopArg(l[i - 1], c, i)]
<1>5. base \in S[0]
  <2>1. k[0].g = FirstReg(c) /\ k[0].f = 0
    BY <1>3 DEF CountStart
  <2>2. 0 \in 0 .. N
    OBVIOUS
  <2> QED BY <2>1, <2>2
<1>6. ASSUME NEW i \in 1 .. N, NEW r \in S[i - 1]
      PROVE  PopArg(r, c, i) \in S[i] /\ F[i][r] = PopArg(r, c, i)
  <2>1. i - 1 \in 0 .. N /\ i \in 0 .. N
    OBVIOUS
  <2>2. PICK s \in CountState : s = k[i - 1]
    BY <1>2, <2>1 DEF CountsUpTo
  <2>3. k[i] = CountArg(s, c, i)
    BY <1>3, <2>2
  <2>4. k[i].g + k[i].f <= Len(m)
    BY <1>4, <2>1
  <2>5. S[i] = PopSet(m, k[i].g, k[i].f) /\ S[i - 1] = PopSet(m, k[i - 1].g, k[i - 1].f)
    BY <2>1
  <2>6. r \in PopSet(m, s.g, s.f)
    BY <2>2, <2>5
  <2>7. PopArg(r, c, i) \in PopSet(m, CountArg(s, c, i).g, CountArg(s, c, i).f)
    BY <1>1, <2>3, <2>4, <2>6, PopArgIs
  <2>8. F[i][r] = PopArg(r, c, i)
    BY <2>2, <2>6
  <2> QED BY <2>3, <2>5, <2>7, <2>8
<1> HIDE DEF F
<1>7. PICK f : Rounds(f, base, F, N) /\ \A i \in 0 .. N : f[i] \in S[i]
  <2>1. \A i \in 1 .. N : \A r \in S[i - 1] : F[i][r] \in S[i]
    BY <1>6
  <2> HIDE DEF S, R
  <2> QED BY <1>5, <2>1, RoundsClimb
<1>8. R(f)
  <2>1. f = [i \in 0 .. N |-> IF i = 0 THEN base ELSE F[i][f[i - 1]]]
    BY <1>7 DEF Rounds
  <2>2. \A i \in 0 .. N : i # 0 => F[i][f[i - 1]] = PopArg(f[i - 1], c, i)
    <3> SUFFICES ASSUME NEW i \in 0 .. N, i # 0 PROVE F[i][f[i - 1]] = PopArg(f[i - 1], c, i)
      OBVIOUS
    <3>1. i \in 1 .. N /\ i - 1 \in 0 .. N
      OBVIOUS
    <3>2. f[i - 1] \in S[i - 1]
      BY <1>7, <3>1
    <3> QED BY <1>6, <3>1, <3>2
  <2> HIDE DEF S
  <2> QED BY <2>1, <2>2
<1> DEFINE l == CHOOSE l : R(l)
<1>9. R(l)
  BY <1>8
<1>10. Loaded(c, base) = l[N]
  BY <1>1 DEF Loaded, Through
<1> HIDE DEF l
<1>11. l[0] = base /\ \A i \in 1 .. N : l[i] = PopArg(l[i - 1], c, i)
  <2>1. l = [i \in 0 .. N |-> IF i = 0 THEN base ELSE PopArg(l[i - 1], c, i)]
    BY <1>9
  <2>2. 0 \in 0 .. N /\ \A i \in 1 .. N : i \in 0 .. N /\ i # 0
    OBVIOUS
  <2> HIDE DEF R, S
  <2> QED BY ONLY <2>1, <2>2
<1> HIDE DEF R, S
<1>12. l[0] \in S[0]
  BY <1>5, <1>11
<1>13. ASSUME NEW i \in 1 .. N, l[i - 1] \in S[i - 1] PROVE l[i] \in S[i]
  <2>1. PopArg(l[i - 1], c, i) \in S[i]
    BY <1>6, <1>13
  <2> QED BY <1>11, <2>1
<1>14. \A i \in 0 .. N : l[i] \in S[i]
  BY <1>12, <1>13, Climb
<1>15. N \in 0 .. N
  OBVIOUS
<1>16. l[N] \in PopSet(m, k[N].g, k[N].f)
  BY <1>14, <1>15 DEF S
<1> QED BY <1>2, <1>10, <1>16

-----------------------------------------------------------------------------
(* What is left of the arguments *)

LEMMA Sums ==
  ASSUME NEW c \in AllCalls, NEW S \in SUBSET (1 .. Len(Args(c)))
  PROVE  /\ Total(Pushes(c), S) \in Nat /\ Total(Copies(c), S) \in Nat
         /\ Total(Pushes(c), S) <= Total(Pushes(c), 1 .. Len(Args(c)))
         /\ Total(Copies(c), S) <= Total(Copies(c), 1 .. Len(Args(c)))
<1>1. PICK N \in Nat : N = Len(Args(c))
  BY ArgsType
<1>2. S \in SUBSET (1 .. N) /\ 1 .. N \in SUBSET (1 .. N)
  BY <1>1
<1>3. ASSUME NEW h PROVE Total(h, S) \in Nat /\ Total(h, S) <= Total(h, 1 .. N)
  BY <1>2, TotalType, TotalMonotone
<1> QED BY <1>1, <1>3

LEMMA CountsSums ==
  ASSUME NEW c \in AllCalls
  PROVE  /\ Counts(c).g \in Nat /\ Counts(c).f \in Nat
         /\ Counts(c).stack \in Nat /\ Counts(c).struct_stack \in Nat
         /\ FirstReg(c) \in 0 .. 1 /\ FirstReg(c) <= Counts(c).g
         /\ Counts(c).struct_stack = Total(Copies(c), 1 .. Len(Args(c)))
         /\ Counts(c).struct_stack <= Counts(c).stack
         /\ Counts(c).stack + Counts(c).g + Counts(c).f
              = Counts(c).struct_stack + Total(Pushes(c), 1 .. Len(Args(c))) + FirstReg(c)
<1>1. PICK s \in CountsUpTo(c, Len(Args(c))) : s = Counts(c)
  BY CountsType
<1>2. s \in CountState
  BY DEF CountsUpTo
<1>3. s.g \in 0 .. MAX_ARG_REGS /\ s.f \in 0 .. MAX_ARG_REGS /\ s.stack \in Nat /\ s.struct_stack \in Nat
  BY <1>2, CountStateType
<1>4. s.g \in Nat /\ s.f \in Nat
  BY <1>3, RegsAssumption
<1>5. FirstReg(c) \in 0 .. 1
  BY DEF FirstReg
<1>6. /\ FirstReg(c) <= s.g
      /\ s.struct_stack = Total(Copies(c), 1 .. Len(Args(c)))
      /\ s.struct_stack <= s.stack
      /\ s.stack + s.g + s.f = s.struct_stack + Total(Pushes(c), 1 .. Len(Args(c))) + FirstReg(c)
  BY DEF CountsUpTo
<1> QED BY <1>1, <1>3, <1>4, <1>5, <1>6

LEMMA TakeOne ==
  ASSUME NEW q \in Seq(Nat), q # <<>>, Distinct(q)
  PROVE  /\ Tail(q) \in Seq(Nat) /\ Distinct(Tail(q)) /\ Head(q) \in Nat
         /\ Head(q) \notin Range(Tail(q))
         /\ Range(q) = Range(Tail(q)) \cup {Head(q)}
<1>1. /\ Tail(q) \in Seq(Nat) /\ Head(q) \in Nat
      /\ Len(q) \in Nat \ {0} /\ Len(Tail(q)) = Len(q) - 1
      /\ \A i \in 1 .. Len(q) - 1 : Tail(q)[i] = q[i + 1]
      /\ Head(q) = q[1]
  BY HeadTailProperties
<1>2. PICK r : r = Tail(q)
  OBVIOUS
<1>3. PICK n \in Nat \ {0} : n = Len(q)
  BY <1>1
<1>4. /\ DOMAIN q = 1 .. n /\ DOMAIN r = 1 .. n - 1
      /\ \A i \in 1 .. n - 1 : r[i] = q[i + 1] /\ i + 1 \in 1 .. n
  BY <1>1, <1>2, <1>3
<1>5. \A i, j \in 1 .. n : q[i] = q[j] => i = j
  BY <1>4 DEF Distinct
<1>6. Distinct(r)
  <2> SUFFICES ASSUME NEW i \in 1 .. n - 1, NEW j \in 1 .. n - 1, r[i] = r[j] PROVE i = j
    BY <1>4 DEF Distinct
  <2>1. i + 1 = j + 1
    BY <1>4, <1>5
  <2> QED BY <2>1
<1>7. q[1] \notin Range(r)
  <2> SUFFICES ASSUME NEW i \in 1 .. n - 1, r[i] = q[1] PROVE FALSE
    BY <1>4 DEF Range
  <2>1. i + 1 = 1
    BY <1>4, <1>5
  <2> QED BY <2>1
<1>8. Range(q) = Range(r) \cup {q[1]}
  <2>1. ASSUME NEW i \in 1 .. n PROVE q[i] \in Range(r) \cup {q[1]}
    <3>1. CASE i = 1
      BY <3>1
    <3>2. CASE i # 1
      <4>1. i - 1 \in 1 .. n - 1 /\ (i - 1) + 1 = i
        BY <3>2
      <4>2. r[i - 1] = q[i]
        BY <1>4, <4>1
      <4> QED BY <1>4, <4>1, <4>2 DEF Range
    <3> QED BY <3>1, <3>2
  <2>2. ASSUME NEW i \in 1 .. n - 1 PROVE r[i] \in Range(q)
    BY <1>4 DEF Range
  <2>3. q[1] \in Range(q)
    BY <1>3, <1>4 DEF Range
  <2> QED BY <1>4, <2>1, <2>2, <2>3 DEF Range
<1> QED BY <1>1, <1>2, <1>6, <1>7, <1>8

LEMMA TakeSums ==
  ASSUME NEW c \in AllCalls, NEW S, NEW i \in 1 .. Len(Args(c)), i \notin S,
         S \subseteq 1 .. Len(Args(c))
  PROVE  /\ Total(Pushes(c), S \cup {i}) = Total(Pushes(c), S) + Pushes(c)[i]
         /\ Total(Copies(c), S \cup {i}) = Total(Copies(c), S) + Copies(c)[i]
<1>1. PICK N \in Nat : N = Len(Args(c))
  BY ArgsType
<1>2. Pushes(c)[i] \in 0 .. 3 /\ Copies(c)[i] \in 0 .. 3
  BY WordsOfArgs
<1>3. ASSUME NEW h, h[i] \in 0 .. 3 PROVE Total(h, S \cup {i}) = Total(h, S) + h[i]
  <2>1. S \in SUBSET (1 .. N) /\ i \in (1 .. N) \ S
    BY <1>1
  <2> QED BY <1>3, <2>1, TotalMore
<1> QED BY <1>2, <1>3

\* No copy is left without a large struct.
LEMMA NoneToCopy ==
  ASSUME NEW f \in FrameSet, Range(f.todo) \subseteq DOMAIN Args(f.call), ~ LargeLeft(f)
  PROVE  Total(Copies(f.call), Range(f.todo)) = 0
<1>1. f.call \in AllCalls
  BY DEF FrameSet
<1>2. ASSUME NEW i \in Range(f.todo) PROVE Copies(f.call)[i] = 0
  <2>1. ~ Large(Args(f.call)[i])
    BY DEF LargeLeft, Range
  <2>2. i \in 1 .. Len(Args(f.call))
    BY <1>1, ArgsType
  <2> QED BY <1>1, <2>1, <2>2, WordsOfArgs
<1>3. PICK h : h = Copies(f.call)
  OBVIOUS
<1>4. \A i \in Range(f.todo) : h[i] = 0
  BY <1>2, <1>3
<1> QED BY <1>3, <1>4, TotalOfNone

-----------------------------------------------------------------------------
(* A call begins *)

LEMMA Parity ==
  ASSUME NEW d \in Nat, NEW n \in Nat, NEW p, p = (d + n) % 2
  PROVE  p \in 0 .. 1 /\ (d + (n + p)) % 2 = 0
OBVIOUS

LEMMA BlankType ==
  ASSUME NEW n \in Nat
  PROVE  Blank(n) \in Seq(WordSet) /\ Len(Blank(n)) = n
<1>1. \A i \in 1 .. n : Junk \in WordSet
  BY DEF WordSet
<1>2. DOMAIN Blank(n) = 1 .. n /\ Blank(n) \in [1 .. n -> WordSet]
  BY <1>1 DEF Blank
<1> QED BY <1>2

LEMMA StandsOnConcat ==
  ASSUME NEW m \in Seq(WordSet), NEW w \in Seq(WordSet)
  PROVE  m \o w \in Seq(WordSet) /\ Len(m \o w) = Len(m) + Len(w) /\ Stands(m \o w, m)
<1>1. /\ m \o w \in Seq(WordSet)
      /\ Len(m \o w) = Len(m) + Len(w)
      /\ \A i \in 1 .. Len(m) + Len(w) : (m \o w)[i] = IF i <= Len(m) THEN m[i] ELSE w[i - Len(m)]
  BY ConcatProperties
<1>2. Len(m) \in Nat /\ Len(w) \in Nat
  OBVIOUS
<1> QED BY <1>1, <1>2 DEF Stands

LEMMA BeginBalances ==
  ASSUME Typed, NEW c \in AllCalls, Begin(c)
  PROVE  \E F \in FrameSet :
           /\ calls' = Append(calls, F)
           /\ F.mem = mem /\ F.depth = depth /\ F.loaded = FALSE
           /\ mem' \in Seq(WordSet) /\ depth' \in Nat
           /\ t1' \in Nat /\ Len(mem) <= t1'
           /\ a' \in Regs /\ fa' \in Regs
           /\ Balanced(F, mem', depth')
<1>1. mem \in Seq(WordSet) /\ depth \in Nat /\ Len(mem) \in Nat /\ a \in Regs /\ fa \in Regs
  BY DEF Typed
<1>2. PICK n \in Nat, w \in Nat : n = Counts(c).stack /\ w = Counts(c).struct_stack
  BY CountsSums
<1>3. PICK p : p = Padding(Counts(c))
  OBVIOUS
<1>4. p \in 0 .. 1 /\ (depth + (n + p)) % 2 = 0
  <2>1. p = (depth + n) % 2
    BY <1>2, <1>3 DEF Padding
  <2> QED BY <1>1, <2>1, Parity
<1>5. PICK F : F = Frame(c, n + p)
  OBVIOUS
<1>6. /\ calls' = Append(calls, F)
      /\ mem' = mem \o Blank(p + w)
      /\ depth' = depth + p
      /\ t1' = Len(mem) + p
      /\ a' = a /\ fa' = fa
  BY <1>2, <1>3, <1>5 DEF Begin
<1>7. PICK N \in Nat : N = Len(Args(c)) /\ DOMAIN Args(c) = 1 .. N
  BY ArgsType
<1>8. /\ Order(c) \in Seq(Nat) /\ Distinct(Order(c)) /\ Range(Order(c)) = 1 .. N
  <2>1. Order(c) \in Seq(1 .. N)
    BY <1>7, OrderIs
  <2>2. 1 .. N \subseteq Nat
    OBVIOUS
  <2>3. Order(c) \in Seq(Nat)
    BY <2>1, <2>2
  <2> QED BY <1>7, <2>3, OrderIs
<1>9. /\ F.call = c /\ F.todo = Order(c) /\ F.loaded = FALSE
      /\ F.stack_args = n + p /\ F.mem = mem /\ F.depth = depth
  BY <1>5 DEF Frame
<1>10. F \in FrameSet
  <2>1. n + p \in Nat
    BY <1>4
  <2> QED BY <1>1, <1>5, <1>8, <2>1 DEF Frame, FrameSet
<1>11. /\ mem' \in Seq(WordSet) /\ Len(mem') = Len(mem) + (p + w) /\ Stands(mem', mem)
  <2>1. p + w \in Nat
    BY <1>4
  <2> QED BY <1>1, <1>6, <2>1, BlankType, StandsOnConcat
<1>12. PushedOf(F) = 0 /\ CopiedOf(F) = 0
  <2>1. PICK x \in Nat, y \in Nat : x = Total(Pushes(c), 1 .. N) /\ y = Total(Copies(c), 1 .. N)
    <3>1. 1 .. N \in SUBSET (1 .. N)
      OBVIOUS
    <3> QED BY <1>7, <3>1, Sums
  <2>2. PushedOf(F) = x - x /\ CopiedOf(F) = y - y
    BY <1>7, <1>8, <1>9, <2>1 DEF PushedOf, CopiedOf
  <2> QED BY <2>2
<1>13. PadOf(F) = p
  <2>1. PadOf(F) = (n + p) - n
    BY <1>2, <1>9 DEF PadOf
  <2> QED BY <1>4, <2>1
<1>14. Balanced(F, mem', depth')
  <2>1. Range(F.todo) \subseteq DOMAIN Args(F.call) /\ Distinct(F.todo)
    BY <1>7, <1>8, <1>9
  <2>2. PadOf(F) \in 0 .. 1 /\ (F.depth + F.stack_args) % 2 = 0
    BY <1>4, <1>9, <1>13
  <2>3. Stands(mem', F.mem)
    BY <1>9, <1>11
  <2>4. Len(mem') = Len(F.mem) + PadOf(F) + Counts(F.call).struct_stack + PushedOf(F)
    <3>1. Len(mem') = Len(mem) + p + w + 0
      BY <1>1, <1>4, <1>11
    <3> QED BY <1>2, <1>9, <1>12, <1>13, <3>1
  <2>5. depth' = F.depth + PadOf(F) + PushedOf(F) + CopiedOf(F)
    <3>1. depth' = depth + p + 0 + 0
      BY <1>1, <1>4, <1>6
    <3> QED BY <1>9, <1>12, <1>13, <3>1
  <2> QED BY <1>9, <2>1, <2>2, <2>3, <2>4, <2>5 DEF Balanced
<1>15. depth' \in Nat /\ t1' \in Nat /\ Len(mem) <= t1' /\ a' \in Regs /\ fa' \in Regs
  BY <1>1, <1>4, <1>6
<1> QED BY <1>6, <1>9, <1>10, <1>11, <1>14, <1>15

\* Where nothing is left to be copied, the compiler's depth is right.
LEMMA KnownOnTop ==
  ASSUME NEW f \in FrameSet, NEW m \in Seq(WordSet), NEW d \in Nat,
         Balanced(f, m, d), ~ f.loaded, ~ LargeLeft(f), Len(f.mem) = f.depth
  PROVE  Len(m) = d
<1>1. f.call \in AllCalls /\ f.depth \in Nat
  BY DEF FrameSet
<1>2. Total(Copies(f.call), Range(f.todo)) = 0
  BY NoneToCopy DEF Balanced
<1>3. PICK w \in Nat : w = Counts(f.call).struct_stack /\ w = Total(Copies(f.call), DOMAIN Args(f.call))
  BY <1>1, CountsSums, ArgsType
<1>4. CopiedOf(f) = w
  <2>1. CopiedOf(f) = w - 0
    BY <1>2, <1>3 DEF CopiedOf
  <2> QED BY <2>1
<1>5. PICK p \in 0 .. 1 : p = PadOf(f)
  BY DEF Balanced
<1>6. PICK x \in Int : x = PushedOf(f)
  <2>1. DOMAIN Args(f.call) \in SUBSET (1 .. Len(Args(f.call)))
    BY <1>1, ArgsType
  <2>2. Range(f.todo) \in SUBSET (1 .. Len(Args(f.call)))
    BY <2>1 DEF Balanced
  <2>3. Total(Pushes(f.call), DOMAIN Args(f.call)) \in Nat /\ Total(Pushes(f.call), Range(f.todo)) \in Nat
    BY <1>1, <2>1, <2>2, Sums
  <2> QED BY <2>3 DEF PushedOf
<1>7. Len(m) = f.depth + p + w + x /\ d = f.depth + p + x + w
  BY <1>3, <1>4, <1>5, <1>6 DEF Balanced
<1> QED BY <1>1, <1>7

LEMMA BeginKeeps ==
  ASSUME IInv, NEW c \in AllCalls, Begin(c), Len(calls) < MaxLevel,
         calls # <<>> => Top.todo # <<>>
  PROVE  IInv'
<1>1. Typed
  BY DEF IInv
<1>2. PICK F \in FrameSet :
        /\ calls' = Append(calls, F)
        /\ F.mem = mem /\ F.depth = depth /\ F.loaded = FALSE
        /\ mem' \in Seq(WordSet) /\ depth' \in Nat
        /\ t1' \in Nat /\ Len(mem) <= t1'
        /\ a' \in Regs /\ fa' \in Regs
        /\ Balanced(F, mem', depth')
  BY <1>1, BeginBalances
<1>3. calls \in Seq(FrameSet) /\ mem \in Seq(WordSet) /\ depth \in Nat
  BY <1>1 DEF Typed
<1>4. PICK n \in Nat : n = Len(calls)
  BY <1>3
<1>5. /\ calls' \in Seq(FrameSet) /\ Len(calls') = n + 1
      /\ \A l \in 1 .. n : calls'[l] = calls[l]
      /\ calls'[n + 1] = F /\ calls' # <<>> /\ (calls = <<>> <=> n = 0)
  BY <1>2, <1>3, <1>4
<1>6. Top' = F
  BY <1>5 DEF Top, Last
<1>7. Typed'
  <2>1. n + 1 <= MaxLevel
    BY <1>4, LevelAssumption
  <2> QED BY <1>2, <1>5, <2>1 DEF Typed
<1>8. Base'
  <2> SUFFICES calls'[1].mem = <<>> /\ calls'[1].depth = 0
    BY <1>5 DEF Base
  <2>1. CASE n = 0
    BY <1>2, <1>5, <2>1 DEF IInv, Base, Levels
  <2>2. CASE n # 0
    <3>1. 1 \in 1 .. n
      BY <2>2
    <3> QED BY <1>5, <2>2, <3>1 DEF IInv, Base, Levels
  <2> QED BY <2>1, <2>2
<1>9. ASSUME NEW l \in 1 .. n
      PROVE  /\ MemOf(l)' = MemOf(l) /\ DepthOf(l)' = DepthOf(l)
             /\ Balanced(calls'[l], MemOf(l)', DepthOf(l)')
             /\ ~ calls'[l].loaded
  <2>1. MemOf(l)' = MemOf(l) /\ DepthOf(l)' = DepthOf(l)
    <3>1. MemOf(l)' = calls'[l + 1].mem /\ DepthOf(l)' = calls'[l + 1].depth
      BY <1>5 DEF MemOf, DepthOf
    <3>2. CASE l = n
      BY <1>2, <1>4, <1>5, <3>1, <3>2 DEF MemOf, DepthOf
    <3>3. CASE l # n
      <4>1. l + 1 \in 1 .. n
        BY <3>3
      <4> QED BY <1>4, <1>5, <3>1, <3>3, <4>1 DEF MemOf, DepthOf
    <3> QED BY <3>2, <3>3
  <2>2. Balanced(calls[l], MemOf(l), DepthOf(l)) /\ (calls[l].loaded => l = n)
    BY <1>4 DEF IInv, Base, Levels
  <2>3. ~ calls[n].loaded
    <3>1. n \in 1 .. n /\ calls # <<>>
      BY <1>5
    <3>2. Top = calls[n]
      BY <1>4 DEF Top, Last
    <3>3. Balanced(calls[n], MemOf(n), DepthOf(n))
      BY <1>4, <3>1 DEF IInv, Base, Levels
    <3> QED BY <3>1, <3>2, <3>3 DEF Balanced
  <2> QED BY <1>5, <2>1, <2>2, <2>3
<1>10. MemOf(n + 1)' = mem' /\ DepthOf(n + 1)' = depth'
  BY <1>5 DEF MemOf, DepthOf
<1>11. Levels'
  <2> SUFFICES ASSUME NEW l \in 1 .. n + 1
               PROVE  /\ Balanced(calls'[l], MemOf(l)', DepthOf(l)')
                      /\ calls'[l].loaded => l = n + 1
    BY <1>5 DEF Levels
  <2>1. CASE l = n + 1
    BY <1>2, <1>5, <1>10, <2>1
  <2>2. CASE l # n + 1
    <3>1. l \in 1 .. n
      BY <2>2
    <3> QED BY <1>9, <3>1
  <2> QED BY <2>1, <2>2
<1>12. Known'
  <2> SUFFICES ASSUME NEW l \in 1 .. n + 1, \A k \in 1 .. l - 1 : ~ LargeLeft(calls'[k])
               PROVE  Len(calls'[l].mem) = calls'[l].depth
    BY <1>5 DEF Known
  <2>1. \A k \in 1 .. l - 1 : ~ LargeLeft(calls[k])
    <3> SUFFICES ASSUME NEW k \in 1 .. l - 1 PROVE ~ LargeLeft(calls[k])
      OBVIOUS
    <3>1. k \in 1 .. n
      OBVIOUS
    <3> QED BY <1>5, <3>1
  <2>2. CASE l \in 1 .. n
    BY <1>4, <1>5, <2>1, <2>2 DEF IInv, Known
  <2>3. CASE l = n + 1 /\ n = 0
    <3>1. mem = <<>> /\ depth = 0
      BY <1>5, <2>3 DEF IInv, Base, Levels
    <3>2. Len(mem) = depth
      BY <3>1
    <3> QED BY <1>2, <1>5, <2>3, <3>2
  <2>4. CASE l = n + 1 /\ n # 0
    <3>1. n \in 1 .. n /\ n \in 1 .. l - 1
      BY <2>4
    <3>2. \A k \in 1 .. n - 1 : ~ LargeLeft(calls[k])
      <4>1. \A k \in 1 .. n - 1 : k \in 1 .. l - 1
        BY <2>4
      <4> QED BY <2>1, <4>1
    <3>3. Len(calls[n].mem) = calls[n].depth
      BY <1>4, <3>1, <3>2 DEF IInv, Known
    <3>4. MemOf(n) = mem /\ DepthOf(n) = depth
      BY <1>4 DEF MemOf, DepthOf
    <3>5. Balanced(calls[n], mem, depth) /\ ~ calls[n].loaded
      <4>1. Balanced(calls[n], MemOf(n), DepthOf(n))
        BY <1>4, <3>1 DEF IInv, Base, Levels
      <4>2. ~ calls[n].loaded
        BY <1>5, <1>9, <3>1
      <4> QED BY <3>4, <4>1, <4>2
    <3>6. calls[n] \in FrameSet /\ ~ LargeLeft(calls[n])
      BY <1>3, <1>4, <2>1, <3>1
    <3>7. Len(mem) = depth
      BY <1>3, <3>3, <3>5, <3>6, KnownOnTop
    <3> QED BY <1>2, <1>5, <2>4, <3>7
  <2> QED BY <2>2, <2>3, <2>4
<1>13. Above'
  BY <1>2, <1>6 DEF Above
<1> QED BY <1>7, <1>8, <1>11, <1>12, <1>13 DEF IInv

-----------------------------------------------------------------------------
(* Steps of the innermost call *)

LEMMA TopChanges ==
  ASSUME IInv, calls # <<>>, calls' \in Seq(FrameSet), Len(calls') = Len(calls),
         \A l \in 1 .. Len(calls) - 1 : calls'[l] = calls[l],
         NEW f, f = calls'[Len(calls)], f.mem = Top.mem, f.depth = Top.depth,
         mem' \in Seq(WordSet), depth' \in Nat, t1' \in Nat \cup {Unknown},
         a' \in Regs, fa' \in Regs,
         Balanced(f, mem', depth'), t1' # Unknown => Len(f.mem) <= t1'
  PROVE  IInv'
<1>1. Typed /\ Base /\ Levels /\ Known
  BY DEF IInv
<1>2. calls \in Seq(FrameSet) /\ Len(calls) <= MaxLevel
  BY <1>1 DEF Typed
<1>3. PICK n \in Nat \ {0} : n = Len(calls)
  BY <1>2
<1>4. /\ Len(calls') = n /\ n \in 1 .. n /\ calls'[n] = f /\ calls' # <<>>
      /\ \A l \in 1 .. n - 1 : calls'[l] = calls[l]
      /\ Top = calls[n] /\ Top' = f
  BY <1>3 DEF Top, Last
<1>5. Typed'
  BY <1>2 DEF Typed
<1>6. \A l \in 1 .. n : calls'[l].mem = calls[l].mem /\ calls'[l].depth = calls[l].depth
  <2> SUFFICES ASSUME NEW l \in 1 .. n
               PROVE  calls'[l].mem = calls[l].mem /\ calls'[l].depth = calls[l].depth
    OBVIOUS
  <2>1. CASE l = n
    BY <1>4, <2>1
  <2>2. CASE l # n
    <3>1. l \in 1 .. n - 1
      BY <2>2
    <3> QED BY <1>4, <3>1
  <2> QED BY <2>1, <2>2
<1>7. Base'
  <2>1. 1 \in 1 .. n
    OBVIOUS
  <2> QED BY <1>1, <1>4, <1>6, <2>1 DEF Base
<1>8. Levels'
  <2> SUFFICES ASSUME NEW l \in 1 .. n
               PROVE  /\ Balanced(calls'[l], MemOf(l)', DepthOf(l)')
                      /\ calls'[l].loaded => l = n
    BY <1>4 DEF Levels
  <2>1. CASE l = n
    <3>1. MemOf(n)' = mem' /\ DepthOf(n)' = depth'
      BY <1>4 DEF MemOf, DepthOf
    <3> QED BY <1>4, <2>1, <3>1
  <2>2. CASE l # n
    <3>1. l \in 1 .. n - 1 /\ l + 1 \in 1 .. n
      BY <2>2
    <3>2. MemOf(l)' = MemOf(l) /\ DepthOf(l)' = DepthOf(l)
      BY <1>3, <1>4, <1>6, <2>2, <3>1 DEF MemOf, DepthOf
    <3>3. Balanced(calls[l], MemOf(l), DepthOf(l)) /\ (calls[l].loaded => l = n)
      BY <1>1, <1>3 DEF Levels
    <3> QED BY <1>4, <3>1, <3>2, <3>3
  <2> QED BY <2>1, <2>2
<1>9. Above'
  BY <1>4 DEF Above
<1>10. Known'
  <2> SUFFICES ASSUME NEW l \in 1 .. n, \A k \in 1 .. l - 1 : ~ LargeLeft(calls'[k])
               PROVE  Len(calls'[l].mem) = calls'[l].depth
    BY <1>4 DEF Known
  <2>1. \A k \in 1 .. l - 1 : ~ LargeLeft(calls[k])
    <3> SUFFICES ASSUME NEW k \in 1 .. l - 1 PROVE ~ LargeLeft(calls[k])
      OBVIOUS
    <3>1. k \in 1 .. n - 1
      OBVIOUS
    <3> QED BY <1>4, <3>1
  <2> QED BY <1>1, <1>3, <1>6, <2>1 DEF Known
<1> QED BY <1>5, <1>7, <1>8, <1>9, <1>10 DEF IInv

LEMMA SetOne ==
  ASSUME NEW S, NEW s \in Seq(S), NEW n \in 1 .. Len(s), NEW v \in S,
         NEW r, r = [s EXCEPT ![n] = v]
  PROVE  /\ r \in Seq(S) /\ Len(r) = Len(s) /\ r[n] = v
         /\ \A l \in 1 .. Len(s) : l # n => r[l] = s[l]
OBVIOUS

\* One argument of the call s[n] is done.
Done(s, n, x) == [s EXCEPT ![n].todo = x, ![n].evaluated = FALSE]

LEMMA SetFrame ==
  ASSUME NEW s \in Seq(FrameSet), NEW n \in 1 .. Len(s), NEW x \in Seq(Nat),
         NEW r, r = Done(s, n, x)
  PROVE  /\ r \in Seq(FrameSet) /\ Len(r) = Len(s)
         /\ \A l \in 1 .. Len(s) : l # n => r[l] = s[l]
         /\ r[n] \in FrameSet
         /\ r[n].call = s[n].call /\ r[n].todo = x /\ r[n].loaded = s[n].loaded
         /\ r[n].stack_args = s[n].stack_args /\ r[n].mem = s[n].mem /\ r[n].depth = s[n].depth
<1>1. PICK u : u = [s EXCEPT ![n].todo = x]
  OBVIOUS
<1>3. r = [u EXCEPT ![n].evaluated = FALSE]
  BY <1>1, Zenon DEF Done
<1>4. s[n] \in FrameSet
  OBVIOUS
<1>5. PICK v : v = [s[n] EXCEPT !.todo = x]
  OBVIOUS
<1>6. /\ v \in FrameSet /\ v.call = s[n].call /\ v.todo = x /\ v.loaded = s[n].loaded
      /\ v.stack_args = s[n].stack_args /\ v.mem = s[n].mem /\ v.depth = s[n].depth
  BY <1>4, <1>5 DEF FrameSet
<1>7. u = [s EXCEPT ![n] = v]
  BY <1>1, <1>5
<1>8. u \in Seq(FrameSet) /\ Len(u) = Len(s) /\ u[n] = v
      /\ \A l \in 1 .. Len(s) : l # n => u[l] = s[l]
  BY <1>6, <1>7, SetOne
<1>9. PICK w : w = [v EXCEPT !.evaluated = FALSE]
  OBVIOUS
<1>10. /\ w \in FrameSet /\ w.call = s[n].call /\ w.todo = x /\ w.loaded = s[n].loaded
       /\ w.stack_args = s[n].stack_args /\ w.mem = s[n].mem /\ w.depth = s[n].depth
  BY <1>6, <1>9 DEF FrameSet
<1>11. r = [u EXCEPT ![n] = w]
  BY <1>3, <1>8, <1>9
<1>12. r \in Seq(FrameSet) /\ Len(r) = Len(u) /\ r[n] = w
      /\ \A l \in 1 .. Len(u) : l # n => r[l] = u[l]
  <2>1. n \in 1 .. Len(u)
    BY <1>8
  <2> QED BY ONLY <1>8, <1>10, <1>11, <2>1, SetOne
<1> QED BY <1>8, <1>10, <1>12

LEMMA ArgDoneIs ==
  ASSUME Typed, Waiting, ArgDone
  PROVE  \E f \in FrameSet :
           /\ calls' \in Seq(FrameSet) /\ Len(calls') = Len(calls)
           /\ \A l \in 1 .. Len(calls) - 1 : calls'[l] = calls[l]
           /\ f = calls'[Len(calls)]
           /\ f.call = Top.call /\ f.todo = Tail(Top.todo) /\ f.loaded = Top.loaded
           /\ f.stack_args = Top.stack_args /\ f.mem = Top.mem /\ f.depth = Top.depth
           /\ a' \in Regs /\ fa' \in Regs
<1>1. calls \in Seq(FrameSet) /\ calls # <<>> /\ a \in Regs /\ fa \in Regs
  BY DEF Typed, Waiting
<1>2. PICK n \in 1 .. Len(calls) : n = Len(calls) /\ Top = calls[n] /\ n \in Nat \ {0}
  BY <1>1 DEF Top, Last
<1>3. Top \in FrameSet /\ Top.todo # <<>>
  BY <1>1, <1>2 DEF Waiting
<1>4. PICK x \in Seq(Nat) : x = Tail(Top.todo)
  <2>1. Top.todo \in Seq(Nat)
    BY <1>3 DEF FrameSet
  <2> QED BY <1>3, <2>1, HeadTailProperties
<1>5. calls' = Done(calls, n, x)
  BY <1>2, <1>4 DEF ArgDone, Done, Top, Last
<1>5a. PICK r : r = calls'
  OBVIOUS
<1>5b. /\ r \in Seq(FrameSet) /\ Len(r) = Len(calls)
       /\ \A l \in 1 .. Len(calls) : l # n => r[l] = calls[l]
       /\ r[n] \in FrameSet
       /\ r[n].call = calls[n].call /\ r[n].todo = x /\ r[n].loaded = calls[n].loaded
       /\ r[n].stack_args = calls[n].stack_args /\ r[n].mem = calls[n].mem
       /\ r[n].depth = calls[n].depth
  <2>1. r = Done(calls, n, x)
    BY <1>5, <1>5a
  <2>2. n \in 1 .. Len(calls) /\ x \in Seq(Nat) /\ calls \in Seq(FrameSet)
    BY <1>1
  <2> QED BY ONLY <2>1, <2>2, SetFrame
<1>6. /\ calls' \in Seq(FrameSet) /\ Len(calls') = Len(calls)
      /\ \A l \in 1 .. Len(calls) : l # n => calls'[l] = calls[l]
      /\ calls'[n] \in FrameSet
      /\ calls'[n].call = calls[n].call /\ calls'[n].todo = x /\ calls'[n].loaded = calls[n].loaded
      /\ calls'[n].stack_args = calls[n].stack_args /\ calls'[n].mem = calls[n].mem
      /\ calls'[n].depth = calls[n].depth
  BY <1>5a, <1>5b
<1>7. a' \in Regs /\ fa' \in Regs
  BY <1>1 DEF ArgDone
<1>8. \A l \in 1 .. Len(calls) - 1 : calls'[l] = calls[l]
  BY <1>2, <1>6
<1> QED BY <1>2, <1>4, <1>6, <1>7, <1>8

LEMMA Taken ==
  ASSUME NEW e \in FrameSet, NEW f \in FrameSet, NEW m \in Seq(WordSet), NEW n \in Seq(WordSet),
         NEW d \in Nat, NEW b \in Nat, e.todo # <<>>, Balanced(e, m, d),
         f.call = e.call, f.todo = Tail(e.todo), f.loaded = e.loaded,
         f.stack_args = e.stack_args, f.mem = e.mem, f.depth = e.depth,
         Len(n) = Len(m) + Pushes(e.call)[Head(e.todo)],
         b = d + Pushes(e.call)[Head(e.todo)] + Copies(e.call)[Head(e.todo)],
         Stands(n, e.mem)
  PROVE  Balanced(f, n, b)
<1>1. e.call \in AllCalls /\ e.todo \in Seq(Nat) /\ e.depth \in Nat /\ e.mem \in Seq(WordSet)
  BY DEF FrameSet
<1>2. /\ Range(e.todo) \subseteq DOMAIN Args(e.call) /\ Distinct(e.todo)
      /\ PadOf(e) \in 0 .. 1 /\ (e.depth + e.stack_args) % 2 = 0
      /\ ~ e.loaded
      /\ Len(m) = Len(e.mem) + PadOf(e) + Counts(e.call).struct_stack + PushedOf(e)
      /\ d = e.depth + PadOf(e) + PushedOf(e) + CopiedOf(e)
  BY DEF Balanced
<1>3. PICK c \in AllCalls : c = e.call /\ DOMAIN Args(c) = 1 .. Len(Args(c))
  BY <1>1, ArgsType
<1>4. PICK i, S : i = Head(e.todo) /\ S = Range(f.todo)
  OBVIOUS
<1>5. /\ Distinct(f.todo) /\ i \notin S /\ Range(e.todo) = S \cup {i}
  BY <1>1, <1>2, <1>4, TakeOne
<1>6. i \in 1 .. Len(Args(c)) /\ S \in SUBSET (1 .. Len(Args(c))) /\ 1 .. Len(Args(c)) \in SUBSET (1 .. Len(Args(c)))
  BY <1>2, <1>3, <1>5
<1>7. PICK x \in Nat, y \in Nat : x = Pushes(c)[i] /\ y = Copies(c)[i]
  BY <1>6, WordsOfArgs
<1>8. PICK p \in Nat, q \in Nat :
        p = Total(Pushes(c), 1 .. Len(Args(c))) /\ q = Total(Copies(c), 1 .. Len(Args(c)))
  BY <1>6, Sums
<1>9. PICK r \in Nat, s \in Nat : r = Total(Pushes(c), S) /\ s = Total(Copies(c), S)
  BY <1>6, Sums
<1>10. Total(Pushes(c), S \cup {i}) = r + x /\ Total(Copies(c), S \cup {i}) = s + y
  BY <1>5, <1>6, <1>7, <1>9, TakeSums
<1>11. /\ PushedOf(e) = p - (r + x) /\ CopiedOf(e) = q - (s + y)
       /\ PushedOf(f) = p - r /\ CopiedOf(f) = q - s
  BY <1>3, <1>4, <1>5, <1>8, <1>9, <1>10 DEF PushedOf, CopiedOf
<1>12. PICK l \in 0 .. 1 : l = PadOf(e) /\ l = PadOf(f)
  BY <1>2 DEF PadOf
<1>13. PICK w \in Nat : w = Counts(c).struct_stack
  BY CountsSums
<1>14. PICK z \in Nat : z = Len(e.mem)
  BY <1>1
<1>15. Len(n) = z + l + w + (p - r)
  <2>1. Len(m) = z + l + w + (p - (r + x)) /\ Len(n) = Len(m) + x
    BY <1>2, <1>3, <1>4, <1>7, <1>11, <1>12, <1>13, <1>14
  <2>2. PICK u, v : u = Len(m) /\ v = Len(n)
    OBVIOUS
  <2>3. u = z + l + w + (p - (r + x)) /\ v = u + x
    BY <2>1, <2>2
  <2>4. v = z + l + w + (p - r)
    BY <2>3
  <2> QED BY <2>2, <2>4
<1>16. b = e.depth + l + (p - r) + (q - s)
  <2>1. d = e.depth + l + (p - (r + x)) + (q - (s + y)) /\ b = d + x + y
    BY <1>2, <1>3, <1>4, <1>7, <1>11, <1>12
  <2>2. PICK D \in Nat : D = e.depth
    BY <1>1
  <2>3. d = D + l + (p - (r + x)) + (q - (s + y)) /\ b = d + x + y
    BY <2>1, <2>2
  <2>4. b = D + l + (p - r) + (q - s)
    BY <2>3
  <2> QED BY <2>2, <2>4
<1>17. Len(n) = Len(f.mem) + PadOf(f) + Counts(f.call).struct_stack + PushedOf(f)
  BY <1>3, <1>11, <1>12, <1>13, <1>14, <1>15
<1>18. b = f.depth + PadOf(f) + PushedOf(f) + CopiedOf(f)
  BY <1>11, <1>12, <1>16
<1>19. Range(f.todo) \subseteq DOMAIN Args(f.call) /\ PadOf(f) \in 0 .. 1
  BY <1>3, <1>4, <1>6, <1>12
<1> QED BY <1>2, <1>5, <1>17, <1>18, <1>19 DEF Balanced

\* The call whose argument is pushed.
LEMMA WaitingIs ==
  ASSUME IInv, Waiting
  PROVE  /\ Top \in FrameSet /\ Top.todo # <<>> /\ ~ Top.loaded /\ Balanced(Top, mem, depth)
         /\ Top.mem \in Seq(WordSet) /\ Stands(mem, Top.mem) /\ Len(Top.mem) \in Nat
         /\ Top.call \in AllCalls
         /\ mem \in Seq(WordSet) /\ depth \in Nat /\ t1 \in Nat \cup {Unknown}
         /\ t1 # Unknown => Len(Top.mem) <= t1
         /\ Arg \in 1 .. Len(Args(Top.call)) /\ Arg \in Nat
         /\ Kind = Args(Top.call)[Arg]
         /\ \A j \in Nat : Word(j) \in WordSet
<1>1. Typed /\ Levels /\ Above
  BY DEF IInv
<1>2. /\ calls \in Seq(FrameSet) /\ calls # <<>> /\ mem \in Seq(WordSet) /\ depth \in Nat
      /\ t1 \in Nat \cup {Unknown} /\ Top.todo # <<>> /\ Len(calls) <= MaxLevel
  BY <1>1 DEF Typed, Waiting
<1>3. PICK n \in Nat \ {0} : n = Len(calls) /\ n \in 1 .. Len(calls) /\ Top = calls[n]
  BY <1>2 DEF Top, Last
<1>4. Top \in FrameSet
  BY <1>2, <1>3
<1>5. Balanced(Top, mem, depth)
  BY <1>1, <1>3 DEF Levels, MemOf, DepthOf
<1>6. ~ Top.loaded /\ Stands(mem, Top.mem) /\ Distinct(Top.todo)
      /\ Range(Top.todo) \subseteq DOMAIN Args(Top.call)
  BY <1>2, <1>5 DEF Balanced
<1>7. Top.mem \in Seq(WordSet) /\ Top.todo \in Seq(Nat) /\ Top.call \in AllCalls
  BY <1>4 DEF FrameSet
<1>8. Arg \in Range(Top.todo) /\ Arg \in Nat
  BY <1>2, <1>6, <1>7, TakeOne DEF Arg
<1>9. Arg \in 1 .. Len(Args(Top.call))
  BY <1>6, <1>7, <1>8, ArgsType
<1>10. \A j \in Nat : Word(j) \in WordSet
  <2>1. Len(calls) \in 1 .. MaxLevel
    BY <1>2, <1>3, LevelAssumption
  <2> QED BY <1>8, <2>1 DEF Word, WordSet
<1> QED BY <1>1, <1>2, <1>4, <1>5, <1>6, <1>7, <1>8, <1>9, <1>10 DEF Above, Kind

\* t1 is written, and the call may have lost where its large structs go.
LEMMA OverwriteKeeps ==
  ASSUME IInv, OverwriteT1
  PROVE  IInv'
<1>1. /\ Waiting /\ t1' = Unknown /\ mem' = mem /\ depth' = depth /\ a' = a /\ fa' = fa
      /\ calls' = [calls EXCEPT ![Len(calls)].lost = @ \/ LargeLeft(Top)]
  BY DEF OverwriteT1
<1>2. /\ calls \in Seq(FrameSet) /\ calls # <<>> /\ a \in Regs /\ fa \in Regs
      /\ mem \in Seq(WordSet) /\ depth \in Nat
  BY <1>1 DEF IInv, Typed, Waiting
<1>3. PICK n \in 1 .. Len(calls) : n = Len(calls) /\ Top = calls[n]
  BY <1>2 DEF Top, Last
<1>4. Top \in FrameSet /\ Balanced(Top, mem, depth)
  BY <1>1, WaitingIs
<1>5. PICK b \in BOOLEAN : b = (Top.lost \/ LargeLeft(Top))
  OBVIOUS
<1>6. PICK f : f = [Top EXCEPT !.lost = b]
  OBVIOUS
<1>7. /\ f \in FrameSet /\ f.call = Top.call /\ f.todo = Top.todo /\ f.loaded = Top.loaded
      /\ f.stack_args = Top.stack_args /\ f.mem = Top.mem /\ f.depth = Top.depth
  BY <1>4, <1>6 DEF FrameSet
<1>8. calls' = [calls EXCEPT ![n] = f]
  BY <1>1, <1>3, <1>5, <1>6, Zenon
<1>9. /\ calls' \in Seq(FrameSet) /\ Len(calls') = Len(calls) /\ calls'[n] = f
      /\ \A l \in 1 .. Len(calls) : l # n => calls'[l] = calls[l]
  BY <1>2, <1>7, <1>8, SetOne
<1>10. \A l \in 1 .. Len(calls) - 1 : calls'[l] = calls[l]
  BY <1>2, <1>3, <1>9
<1>11. Balanced(f, mem', depth')
  BY <1>1, <1>4, <1>7 DEF Balanced, PadOf, PushedOf, CopiedOf
<1> QED BY <1>1, <1>2, <1>3, <1>7, <1>9, <1>10, <1>11, TopChanges

LEMMA PushArgKeeps ==
  ASSUME IInv, PushArg
  PROVE  IInv'
<1>1. Waiting /\ ArgDone /\ ~ Large(Kind) /\ t1' = t1
  BY DEF PushArg
<1>2. Typed
  BY DEF IInv
<1>3. /\ Top \in FrameSet /\ Top.todo # <<>> /\ Balanced(Top, mem, depth)
      /\ Top.mem \in Seq(WordSet) /\ Stands(mem, Top.mem)
      /\ Top.call \in AllCalls
      /\ mem \in Seq(WordSet) /\ depth \in Nat /\ t1 \in Nat \cup {Unknown}
      /\ t1 # Unknown => Len(Top.mem) <= t1
      /\ Arg \in 1 .. Len(Args(Top.call))
      /\ Kind = Args(Top.call)[Arg]
      /\ \A j \in Nat : Word(j) \in WordSet
  BY <1>1, WaitingIs
<1>4. PICK W \in 1 .. 2 : W = Words(Kind) /\ W = Pushes(Top.call)[Arg] /\ Copies(Top.call)[Arg] = 0
  BY <1>1, <1>3, WordsOfArgs
<1>5. PICK words \in Seq(WordSet) : words = [j \in 1 .. W |-> Word(W + 1 - j)] /\ Len(words) = W
  <2>1. \A j \in 1 .. W : Word(W + 1 - j) \in WordSet
    <3>1. \A j \in 1 .. W : W + 1 - j \in Nat
      OBVIOUS
    <3> QED BY <1>3, <3>1
  <2>2. [j \in 1 .. W |-> Word(W + 1 - j)] \in [1 .. W -> WordSet]
    BY <2>1
  <2>3. PICK words : words = [j \in 1 .. W |-> Word(W + 1 - j)]
    OBVIOUS
  <2>4. words \in Seq(WordSet) /\ Len(words) = W
    <3>1. words \in [1 .. W -> WordSet]
      BY <2>2, <2>3
    <3> QED BY <3>1
  <2> QED BY <2>3, <2>4
<1>6. mem' = mem \o words /\ depth' = depth + W
  <2>1. Pushed([j \in 1 .. W |-> Word(W + 1 - j)])
    BY <1>4 DEF PushArg
  <2> QED BY <1>5, <2>1 DEF Pushed
<1>7. /\ mem' \in Seq(WordSet) /\ Len(mem') = Len(mem) + W /\ Stands(mem', mem)
      /\ depth' \in Nat
  <2>1. depth' \in Nat
    BY <1>3, <1>6
  <2>2. /\ mem \o words \in Seq(WordSet) /\ Len(mem \o words) = Len(mem) + Len(words)
        /\ Stands(mem \o words, mem)
    BY <1>3, StandsOnConcat
  <2> QED BY <1>5, <1>6, <2>1, <2>2
<1>8. Stands(mem', Top.mem)
  BY <1>3, <1>7, StandsTransitive
<1>9. PICK f \in FrameSet :
        /\ calls' \in Seq(FrameSet) /\ Len(calls') = Len(calls)
        /\ \A l \in 1 .. Len(calls) - 1 : calls'[l] = calls[l]
        /\ f = calls'[Len(calls)]
        /\ f.call = Top.call /\ f.todo = Tail(Top.todo) /\ f.loaded = Top.loaded
        /\ f.stack_args = Top.stack_args /\ f.mem = Top.mem /\ f.depth = Top.depth
        /\ a' \in Regs /\ fa' \in Regs
  BY <1>1, <1>2, ArgDoneIs
<1>10. Balanced(f, mem', depth')
  <2>1. PICK e \in FrameSet : e = Top
    BY <1>3
  <2>2. PICK m \in Seq(WordSet), n \in Seq(WordSet), d \in Nat, b \in Nat :
          m = mem /\ n = mem' /\ d = depth /\ b = depth'
    BY <1>3, <1>7
  <2>3. /\ e.todo # <<>> /\ Balanced(e, m, d)
        /\ f.call = e.call /\ f.todo = Tail(e.todo) /\ f.loaded = e.loaded
        /\ f.stack_args = e.stack_args /\ f.mem = e.mem /\ f.depth = e.depth
        /\ Stands(n, e.mem)
    BY <1>3, <1>8, <1>9, <2>1, <2>2
  <2>4. /\ Len(n) = Len(m) + Pushes(e.call)[Head(e.todo)]
        /\ b = d + Pushes(e.call)[Head(e.todo)] + Copies(e.call)[Head(e.todo)]
    <3>1. Pushes(e.call)[Head(e.todo)] = W /\ Copies(e.call)[Head(e.todo)] = 0
      BY <1>4, <2>1 DEF Arg
    <3>2. Len(n) = Len(m) + W /\ b = d + W + 0
      BY <1>6, <1>7, <2>2
    <3> QED BY <3>1, <3>2
  <2>5. Balanced(f, n, b)
    BY <2>3, <2>4, Taken
  <2> QED BY <2>2, <2>5
<1>11. t1' \in Nat \cup {Unknown} /\ (t1' # Unknown => Len(f.mem) <= t1')
  BY <1>1, <1>3, <1>9
<1> QED BY <1>1, <1>7, <1>9, <1>10, <1>11, TopChanges DEF Waiting

\* What a copy to t1 leaves of the stack.
CopyTo(W) == IF t1 = Unknown THEN mem
             ELSE [p \in DOMAIN mem |-> IF p \in t1 + 1 .. t1 + W THEN Word(t1 + W + 1 - p)
                                        ELSE mem[p]]

LEMMA CopyKeeps ==
  ASSUME mem \in Seq(WordSet), t1 \in Nat \cup {Unknown}, NEW W \in Nat, NEW q \in Seq(WordSet),
         Stands(mem, q), t1 # Unknown => Len(q) <= t1, \A j \in Nat : Word(j) \in WordSet
  PROVE  CopyTo(W) \in Seq(WordSet) /\ Len(CopyTo(W)) = Len(mem) /\ Stands(CopyTo(W), q)
<1>1. CASE t1 = Unknown
  BY <1>1 DEF CopyTo
<1>2. CASE t1 # Unknown
  <2>1. PICK t \in Nat : t = t1 /\ Len(q) <= t
    BY <1>2
  <2>2. PICK N \in Nat : N = Len(mem) /\ DOMAIN mem = 1 .. N
    OBVIOUS
  <2>3. PICK r : r = CopyTo(W)
    OBVIOUS
  <2>4. r = [p \in 1 .. N |-> IF p \in t + 1 .. t + W THEN Word(t + W + 1 - p) ELSE mem[p]]
    BY <1>2, <2>1, <2>2, <2>3 DEF CopyTo
  <2>5. \A p \in 1 .. N : (IF p \in t + 1 .. t + W THEN Word(t + W + 1 - p) ELSE mem[p]) \in WordSet
    <3> SUFFICES ASSUME NEW p \in 1 .. N
                 PROVE  (IF p \in t + 1 .. t + W THEN Word(t + W + 1 - p) ELSE mem[p]) \in WordSet
      OBVIOUS
    <3>1. CASE p \in t + 1 .. t + W
      <4>1. t + W + 1 - p \in Nat
        BY <3>1
      <4> QED BY <3>1, <4>1
    <3>2. CASE p \notin t + 1 .. t + W
      <4>1. mem[p] \in WordSet
        BY <2>2
      <4> QED BY <3>2, <4>1
    <3> QED BY <3>1, <3>2
  <2>6. r \in [1 .. N -> WordSet]
    BY <2>4, <2>5
  <2>7. r \in Seq(WordSet) /\ Len(r) = N
    BY <2>6
  <2>8. Stands(r, q)
    <3>1. Len(q) \in Nat /\ Len(q) <= N /\ \A j \in 1 .. Len(q) : mem[j] = q[j]
      BY <2>2 DEF Stands
    <3>2. ASSUME NEW j \in 1 .. Len(q) PROVE r[j] = q[j]
      <4>1. j \in 1 .. N /\ j \notin t + 1 .. t + W
        BY <2>1, <3>1
      <4> QED BY <2>4, <3>1, <4>1
    <3> QED BY <2>7, <3>1, <3>2 DEF Stands
  <2> QED BY <2>2, <2>3, <2>7, <2>8
<1> QED BY <1>1, <1>2

LEMMA PushLargeKeeps ==
  ASSUME IInv, PushLarge
  PROVE  IInv'
<1>1. Waiting /\ ArgDone /\ Large(Kind)
  BY DEF PushLarge
<1>2. Typed
  BY DEF IInv
<1>3. /\ Top \in FrameSet /\ Top.todo # <<>> /\ Balanced(Top, mem, depth)
      /\ Top.mem \in Seq(WordSet) /\ Stands(mem, Top.mem) /\ Len(Top.mem) \in Nat
      /\ Top.call \in AllCalls
      /\ mem \in Seq(WordSet) /\ depth \in Nat /\ t1 \in Nat \cup {Unknown}
      /\ t1 # Unknown => Len(Top.mem) <= t1
      /\ Arg \in 1 .. Len(Args(Top.call))
      /\ Kind = Args(Top.call)[Arg]
      /\ \A j \in Nat : Word(j) \in WordSet
  BY <1>1, WaitingIs
<1>4. PICK W \in Nat : W = Words(Kind) /\ Pushes(Top.call)[Arg] = 1 /\ Copies(Top.call)[Arg] = W
  <2>1. Copies(Top.call)[Arg] \in 0 .. 3
    BY <1>3, WordsOfArgs
  <2> QED BY <1>1, <1>3, <2>1, WordsOfArgs
<1>5. PICK M \in Seq(WordSet) : M = CopyTo(W) /\ Len(M) = Len(mem) /\ Stands(M, Top.mem)
  BY <1>3, CopyKeeps
<1>6. PICK top \in Seq(WordSet) : top = <<Pointer>> /\ Len(top) = 1
  <2>1. Pointer \in WordSet
    BY DEF WordSet
  <2>2. PICK v \in WordSet : v = Pointer
    BY <2>1
  <2>3. <<v>> \in Seq(WordSet) /\ Len(<<v>>) = 1
    OBVIOUS
  <2> QED BY <2>2, <2>3
<1>7. mem' = M \o top /\ depth' = depth + W + 1 /\ t1' = IF t1 = Unknown THEN t1 ELSE t1 + W
  BY <1>4, <1>5, <1>6 DEF PushLarge, CopyTo
<1>8. /\ mem' \in Seq(WordSet) /\ Len(mem') = Len(M) + 1 /\ Stands(mem', M)
      /\ depth' \in Nat
  <2>1. depth' \in Nat
    BY <1>3, <1>7
  <2>2. M \o top \in Seq(WordSet) /\ Len(M \o top) = Len(M) + Len(top) /\ Stands(M \o top, M)
    BY StandsOnConcat
  <2> QED BY <1>6, <1>7, <2>1, <2>2
<1>9. Stands(mem', Top.mem)
  BY <1>3, <1>5, <1>8, StandsTransitive
<1>10. PICK f \in FrameSet :
         /\ calls' \in Seq(FrameSet) /\ Len(calls') = Len(calls)
         /\ \A l \in 1 .. Len(calls) - 1 : calls'[l] = calls[l]
         /\ f = calls'[Len(calls)]
         /\ f.call = Top.call /\ f.todo = Tail(Top.todo) /\ f.loaded = Top.loaded
         /\ f.stack_args = Top.stack_args /\ f.mem = Top.mem /\ f.depth = Top.depth
         /\ a' \in Regs /\ fa' \in Regs
  BY <1>1, <1>2, ArgDoneIs
<1>11. Balanced(f, mem', depth')
  <2>1. PICK e \in FrameSet : e = Top
    BY <1>3
  <2>2. PICK m \in Seq(WordSet), n \in Seq(WordSet), d \in Nat, b \in Nat :
          m = mem /\ n = mem' /\ d = depth /\ b = depth'
    BY <1>3, <1>8
  <2>3. /\ e.todo # <<>> /\ Balanced(e, m, d)
        /\ f.call = e.call /\ f.todo = Tail(e.todo) /\ f.loaded = e.loaded
        /\ f.stack_args = e.stack_args /\ f.mem = e.mem /\ f.depth = e.depth
        /\ Stands(n, e.mem)
    BY <1>3, <1>9, <1>10, <2>1, <2>2
  <2>4. /\ Len(n) = Len(m) + Pushes(e.call)[Head(e.todo)]
        /\ b = d + Pushes(e.call)[Head(e.todo)] + Copies(e.call)[Head(e.todo)]
    <3>1. Pushes(e.call)[Head(e.todo)] = 1 /\ Copies(e.call)[Head(e.todo)] = W
      BY <1>4, <2>1 DEF Arg
    <3>2. Len(n) = Len(m) + 1 /\ b = d + 1 + W
      BY <1>5, <1>7, <1>8, <2>2
    <3> QED BY <3>1, <3>2
  <2>5. Balanced(f, n, b)
    BY <2>3, <2>4, Taken
  <2> QED BY <2>2, <2>5
<1>12. t1' \in Nat \cup {Unknown} /\ (t1' # Unknown => Len(f.mem) <= t1')
  <2>1. CASE t1 = Unknown
    BY <1>7, <2>1
  <2>2. CASE t1 # Unknown
    <3>1. PICK t \in Nat : t = t1 /\ Len(Top.mem) <= t
      BY <1>3, <2>2
    <3>2. t1' = t + W
      BY <1>7, <2>2, <3>1
    <3> QED BY <1>3, <1>10, <3>1, <3>2
  <2> QED BY <2>1, <2>2
<1> QED BY <1>1, <1>8, <1>10, <1>11, <1>12, TopChanges DEF Waiting

-----------------------------------------------------------------------------
(* The call itself *)

\* The innermost call.
LEMMA TopIs ==
  ASSUME IInv, calls # <<>>
  PROVE  /\ calls \in Seq(FrameSet) /\ Top = calls[Len(calls)] /\ Len(calls) \in Nat \ {0}
         /\ Top \in FrameSet /\ Balanced(Top, mem, depth)
         /\ Top.mem \in Seq(WordSet) /\ Top.call \in AllCalls
         /\ Top.depth \in Nat /\ Top.stack_args \in Nat
         /\ mem \in Seq(WordSet) /\ depth \in Nat /\ t1 \in Nat \cup {Unknown}
         /\ t1 # Unknown => Len(Top.mem) <= t1
<1>1. Typed /\ Levels /\ Above
  BY DEF IInv
<1>2. /\ calls \in Seq(FrameSet) /\ mem \in Seq(WordSet) /\ depth \in Nat
      /\ t1 \in Nat \cup {Unknown}
  BY <1>1 DEF Typed
<1>3. PICK n \in Nat \ {0} : n = Len(calls) /\ n \in 1 .. Len(calls) /\ Top = calls[n]
  BY <1>2 DEF Top, Last
<1>4. Balanced(Top, mem, depth)
  BY <1>1, <1>3 DEF Levels, MemOf, DepthOf
<1>5. Top \in FrameSet
  BY <1>2, <1>3
<1> QED BY <1>1, <1>2, <1>3, <1>4, <1>5 DEF Above, FrameSet

\* Registers are loaded from the words that were counted for them.
LEMMA LoadIs ==
  ASSUME Load, NEW c \in AllCalls, c = Top.call, mem \in Seq(WordSet), depth \in Nat,
         Len(mem) >= Total(Pushes(c), 1 .. Len(Args(c)))
  PROVE  /\ mem' \in Seq(WordSet) /\ a' \in Regs /\ fa' \in Regs
         /\ Len(mem') = Len(mem) + FirstReg(c) - Counts(c).g - Counts(c).f
         /\ depth' = depth - (Len(mem) - Len(mem'))
         /\ \A j \in 1 .. Len(mem') : j <= Len(mem) => mem'[j] = mem[j]
<1> DEFINE start == [mem |-> mem, a |-> Free, fa |-> Free, g |-> 0, f |-> 0]
           first(d) == IF d.buffer THEN Pop([start EXCEPT !.mem = Append(@, Pointer)]) ELSE start
<1>0. /\ mem' = Loaded(Top.call, first(Top.call)).mem
      /\ depth' = depth - (Len(mem) - Len(Loaded(Top.call, first(Top.call)).mem))
      /\ a' = Loaded(Top.call, first(Top.call)).a /\ fa' = Loaded(Top.call, first(Top.call)).fa
  BY Zenon DEF Load, Loaded
<1> DEFINE base == first(c)
<1>1. PICK s : /\ s = Loaded(c, base)
               /\ mem' = s.mem /\ depth' = depth - (Len(mem) - Len(s.mem)) /\ a' = s.a /\ fa' = s.fa
  <2> HIDE DEF first
  <2> QED BY <1>0
<1>2. PICK M : M = IF c.buffer THEN Append(mem, Pointer) ELSE mem
  OBVIOUS
<1>3. Pointer \in WordSet
  BY DEF WordSet
<1>4. /\ M \in Seq(WordSet) /\ Len(M) = Len(mem) + FirstReg(c) /\ Len(mem) \in Nat
      /\ \A j \in 1 .. Len(mem) : M[j] = mem[j]
  <2>1. CASE c.buffer
    <3>1. /\ Append(mem, Pointer) \in Seq(WordSet) /\ Len(Append(mem, Pointer)) = Len(mem) + 1
          /\ \A j \in 1 .. Len(mem) : Append(mem, Pointer)[j] = mem[j]
      <4> SUFFICES ASSUME NEW v \in WordSet
                   PROVE  /\ Append(mem, v) \in Seq(WordSet) /\ Len(Append(mem, v)) = Len(mem) + 1
                          /\ \A j \in 1 .. Len(mem) : Append(mem, v)[j] = mem[j]
        BY <1>3
      <4> QED OBVIOUS
    <3> QED BY <1>2, <2>1, <3>1 DEF FirstReg
  <2>2. CASE ~ c.buffer
    <3>1. FirstReg(c) = 0
      BY <2>2 DEF FirstReg
    <3> QED BY <1>2, <2>2, <3>1
  <2> QED BY <2>1, <2>2
<1>5. Free \in Regs /\ Stands(M, M) /\ Len(M) \in Nat
  <2>1. Junk \in WordSet
    BY DEF WordSet
  <2> QED BY <1>4, <2>1 DEF Free, Regs, Stands
<1>6. base \in PopSet(M, FirstReg(c), 0)
  <2>1. PICK r : r = [mem |-> M, a |-> Free, fa |-> Free, g |-> 0, f |-> 0]
    OBVIOUS
  <2>2. r \in PopSet(M, 0, 0)
    BY <1>4, <1>5, <2>1 DEF PopSet
  <2>3. CASE c.buffer
    <3>1. [start EXCEPT !.mem = Append(@, Pointer)] = r
      <4>1. PICK x : x = Append(mem, Pointer)
        OBVIOUS
      <4>2. [start EXCEPT !.mem = x] = [mem |-> x, a |-> Free, fa |-> Free, g |-> 0, f |-> 0]
        OBVIOUS
      <4>3. [start EXCEPT !.mem = Append(@, Pointer)] = [start EXCEPT !.mem = x]
        BY <4>1
      <4> HIDE DEF start
      <4> QED BY <1>2, <2>1, <2>3, <4>1, <4>2, <4>3
    <3>2. Pop(r) \in PopSet(M, 0 + 1, 0)
      <4>1. 0 < MAX_ARG_REGS /\ 0 + 0 < Len(M) /\ 0 \in Nat
        BY <1>4, <2>3, RegsAssumption DEF FirstReg
      <4> QED BY <1>4, <2>2, <4>1, PopOne
    <3>3. base = Pop(r) /\ FirstReg(c) = 0 + 1
      BY <2>3, <3>1 DEF FirstReg
    <3> HIDE DEF base
    <3> QED BY <3>2, <3>3
  <2>4. CASE ~ c.buffer
    <3>1. base = r /\ FirstReg(c) = 0
      BY <1>2, <2>1, <2>4 DEF FirstReg
    <3> HIDE DEF base
    <3> QED BY <2>2, <3>1
  <2> QED BY <2>3, <2>4
<1> HIDE DEF base, start, first
<1>7. s \in PopSet(M, Counts(c).g, Counts(c).f)
  <2>1. Len(M) >= Total(Pushes(c), 1 .. Len(Args(c))) + FirstReg(c)
    <3>1. PICK x \in Nat, y \in Nat, z \in Nat :
            /\ x = Total(Pushes(c), 1 .. Len(Args(c))) /\ y = FirstReg(c) /\ z = Len(mem)
      <4>1. 1 .. Len(Args(c)) \in SUBSET (1 .. Len(Args(c)))
        OBVIOUS
      <4>2. FirstReg(c) \in Nat
        BY DEF FirstReg
      <4> QED BY <1>4, <4>1, <4>2, Sums
    <3>2. Len(M) = z + y /\ z >= x
      BY <1>4, <3>1
    <3>3. z + y >= x + y
      BY <3>2
    <3> QED BY <3>1, <3>2, <3>3
  <2> QED BY <1>1, <1>4, <1>6, <2>1, LoadedIs
<1>8. /\ s.mem \in Seq(WordSet) /\ s.a \in Regs /\ s.fa \in Regs
      /\ Len(s.mem) = Len(M) - Counts(c).g - Counts(c).f /\ Stands(M, s.mem)
  BY <1>7 DEF PopSet
<1>9. \A j \in 1 .. Len(s.mem) : j <= Len(mem) => s.mem[j] = mem[j]
  <2> SUFFICES ASSUME NEW j \in 1 .. Len(s.mem), j <= Len(mem) PROVE s.mem[j] = mem[j]
    OBVIOUS
  <2>1. M[j] = s.mem[j]
    BY <1>8 DEF Stands
  <2>2. j \in 1 .. Len(mem)
    BY <1>4, <1>8
  <2> QED BY <1>4, <2>1, <2>2
<1>10. Len(s.mem) = Len(mem) + FirstReg(c) - Counts(c).g - Counts(c).f
  <2>1. PICK u \in Nat, v \in Nat : u = Len(mem) /\ v = FirstReg(c)
    BY <1>4 DEF FirstReg
  <2>2. PICK x \in Nat, y \in Nat : x = Counts(c).g /\ y = Counts(c).f
    BY CountsSums
  <2>3. Len(s.mem) = (u + v) - x - y
    BY <1>4, <1>8, <2>1, <2>2
  <2> QED BY <2>1, <2>2, <2>3
<1> QED BY <1>1, <1>8, <1>9, <1>10

LEMMA LoadKeeps ==
  ASSUME IInv, Load
  PROVE  IInv'
<1>1. /\ calls # <<>> /\ Top.todo = <<>> /\ ~ Top.loaded
      /\ calls' = [calls EXCEPT ![Len(calls)].loaded = TRUE] /\ t1' = t1
  BY DEF Load
<1>2. /\ calls \in Seq(FrameSet) /\ Top = calls[Len(calls)] /\ Len(calls) \in Nat \ {0}
      /\ Top \in FrameSet /\ Balanced(Top, mem, depth)
      /\ Top.mem \in Seq(WordSet) /\ Top.call \in AllCalls
      /\ Top.depth \in Nat /\ Top.stack_args \in Nat
      /\ mem \in Seq(WordSet) /\ depth \in Nat /\ t1 \in Nat \cup {Unknown}
      /\ t1 # Unknown => Len(Top.mem) <= t1
  BY <1>1, TopIs
<1>3. PICK c \in AllCalls : c = Top.call
  BY <1>2
<1>4. PICK p \in 0 .. 1, n \in Nat :
        /\ p = PadOf(Top) /\ n = Counts(c).stack /\ Top.stack_args = n + p
        /\ (Top.depth + Top.stack_args) % 2 = 0
  <2>1. PadOf(Top) \in 0 .. 1 /\ (Top.depth + Top.stack_args) % 2 = 0
    BY <1>2 DEF Balanced
  <2>2. Counts(c).stack \in Nat
    BY CountsSums
  <2>3. PadOf(Top) = Top.stack_args - Counts(c).stack
    BY <1>3 DEF PadOf
  <2>4. Top.stack_args = Counts(c).stack + PadOf(Top)
    BY <1>2, <2>1, <2>2, <2>3
  <2> QED BY <2>1, <2>2, <2>4
<1>5. PICK q \in Nat, w \in Nat, g \in Nat, f \in Nat, r \in Nat :
        /\ q = Total(Pushes(c), 1 .. Len(Args(c))) /\ w = Counts(c).struct_stack
        /\ w = Total(Copies(c), 1 .. Len(Args(c)))
        /\ g = Counts(c).g /\ f = Counts(c).f /\ r = FirstReg(c) /\ r <= g
        /\ w <= n /\ n + g + f = w + q + r
  <2>1. 1 .. Len(Args(c)) \in SUBSET (1 .. Len(Args(c)))
    OBVIOUS
  <2>2. Total(Pushes(c), 1 .. Len(Args(c))) \in Nat
    BY <2>1, Sums
  <2>3. FirstReg(c) \in Nat
    BY DEF FirstReg
  <2> QED BY <1>4, <2>2, <2>3, CountsSums
<1>6. PushedOf(Top) = q /\ CopiedOf(Top) = w
  <2>1. Range(Top.todo) = {}
    BY <1>1 DEF Range
  <2>2. DOMAIN Args(c) = 1 .. Len(Args(c))
    BY ArgsType
  <2>3. Total(Pushes(c), Range(Top.todo)) = 0 /\ Total(Copies(c), Range(Top.todo)) = 0
    BY <2>1, TotalEmpty
  <2>4. PushedOf(Top) = q - 0 /\ CopiedOf(Top) = w - 0
    BY <1>3, <1>5, <2>2, <2>3 DEF PushedOf, CopiedOf
  <2> QED BY <2>4
<1>7. PICK z \in Nat, e \in Nat, l \in Nat :
        /\ z = Len(Top.mem) /\ e = Top.depth /\ l = Len(mem)
        /\ l = z + p + w + q /\ depth = e + p + q + w
  <2>1. /\ Len(mem) = Len(Top.mem) + PadOf(Top) + Counts(Top.call).struct_stack + PushedOf(Top)
        /\ depth = Top.depth + PadOf(Top) + PushedOf(Top) + CopiedOf(Top)
    BY <1>1, <1>2 DEF Balanced
  <2>2. Len(Top.mem) \in Nat /\ Len(mem) \in Nat
    BY <1>2
  <2> QED BY <1>2, <1>3, <1>4, <1>5, <1>6, <2>1, <2>2
<1>8. /\ mem' \in Seq(WordSet) /\ a' \in Regs /\ fa' \in Regs
      /\ Len(mem') = Len(mem) + FirstReg(c) - Counts(c).g - Counts(c).f
      /\ depth' = depth - (Len(mem) - Len(mem'))
      /\ \A j \in 1 .. Len(mem') : j <= Len(mem) => mem'[j] = mem[j]
  <2>1. l >= q
    BY <1>7
  <2>2. Len(mem) >= Total(Pushes(c), 1 .. Len(Args(c)))
    BY <1>5, <1>7, <2>1
  <2> QED BY <1>2, <1>3, <2>2, LoadIs
<1>9. Len(mem') = z + n + p /\ depth' = e + n + p /\ Len(mem') <= l
  <2>1. PICK h : h = Len(mem')
    OBVIOUS
  <2>2. h = l + r - g - f /\ depth' = depth - (l - h)
    BY <1>5, <1>7, <1>8, <2>1
  <2>3. PICK d \in Nat : d = depth
    BY <1>2
  <2>4. l = z + p + w + q /\ n + g + f = w + q + r /\ r <= g /\ d = e + p + q + w
    BY <1>5, <1>7, <2>3
  <2>5. h = l + r - g - f /\ depth' = d - (l - h)
    BY <2>2, <2>3
  <2>6. h = z + n + p /\ h <= l
    BY <2>4, <2>5
  <2>7. d - (l - h) = e + n + p
    BY <2>4, <2>6
  <2> QED BY <2>1, <2>5, <2>6, <2>7
<1>10. Stands(mem', Top.mem)
  <2>1. Stands(mem, Top.mem)
    BY <1>2 DEF Balanced
  <2>2. z <= z + n + p /\ z <= l
    <3>1. l = z + p + w + q
      BY <1>7
    <3> QED BY <3>1
  <2>3. ASSUME NEW j \in 1 .. z PROVE mem'[j] = Top.mem[j]
    <3>1. j \in 1 .. Len(mem') /\ j <= Len(mem)
      <4>1. j <= z + n + p /\ j <= l
        BY <2>2
      <4> QED BY <1>7, <1>9, <4>1
    <3>2. mem'[j] = mem[j]
      BY <1>8, <3>1
    <3>3. mem[j] = Top.mem[j]
      BY <1>7, <2>1 DEF Stands
    <3> QED BY <3>2, <3>3
  <2> QED BY <1>7, <1>9, <2>2, <2>3 DEF Stands
<1>11. PICK v \in FrameSet :
         /\ v = [Top EXCEPT !.loaded = TRUE]
         /\ v.call = Top.call /\ v.todo = Top.todo /\ v.loaded = TRUE
         /\ v.stack_args = Top.stack_args /\ v.mem = Top.mem /\ v.depth = Top.depth
  <2>1. PICK t \in FrameSet : t = Top
    BY <1>2
  <2>2. PICK v : v = [t EXCEPT !.loaded = TRUE]
    OBVIOUS
  <2>3. /\ v \in FrameSet /\ v.call = t.call /\ v.todo = t.todo /\ v.loaded = TRUE
        /\ v.stack_args = t.stack_args /\ v.mem = t.mem /\ v.depth = t.depth
    BY <2>2 DEF FrameSet
  <2> QED BY <2>1, <2>2, <2>3
<1>12. /\ calls' \in Seq(FrameSet) /\ Len(calls') = Len(calls) /\ calls'[Len(calls)] = v
       /\ \A i \in 1 .. Len(calls) - 1 : calls'[i] = calls[i]
  <2>1. PICK k \in 1 .. Len(calls) : k = Len(calls)
    BY <1>2
  <2>2. PICK u : u = calls'
    OBVIOUS
  <2>3. u = [calls EXCEPT ![k] = v]
    BY <1>1, <1>2, <1>11, <2>1, <2>2
  <2>4. /\ u \in Seq(FrameSet) /\ Len(u) = Len(calls) /\ u[k] = v
        /\ \A i \in 1 .. Len(calls) : i # k => u[i] = calls[i]
    BY <1>2, <2>3, SetOne
  <2>5. \A i \in 1 .. Len(calls) - 1 : i \in 1 .. Len(calls) /\ i # k
    BY <1>2, <2>1
  <2> QED BY <2>1, <2>2, <2>4, <2>5
<1>13. Balanced(v, mem', depth')
  <2>1. Range(v.todo) \subseteq DOMAIN Args(v.call) /\ Distinct(v.todo)
    BY <1>2, <1>11 DEF Balanced
  <2>2. PadOf(v) \in 0 .. 1 /\ (v.depth + v.stack_args) % 2 = 0
    BY <1>4, <1>11 DEF PadOf
  <2>3. Len(mem') = Len(v.mem) + v.stack_args /\ depth' = v.depth + v.stack_args
    <3>1. z + n + p = z + (n + p) /\ e + n + p = e + (n + p)
      OBVIOUS
    <3> QED BY <1>4, <1>7, <1>9, <1>11, <3>1
  <2> QED BY <1>1, <1>10, <1>11, <2>1, <2>2, <2>3 DEF Balanced
<1>14. depth' \in Nat /\ t1' \in Nat \cup {Unknown} /\ (t1' # Unknown => Len(v.mem) <= t1')
  <2>1. e + n + p \in Nat
    OBVIOUS
  <2> QED BY <1>1, <1>2, <1>9, <1>11, <2>1
<1> QED BY <1>1, <1>8, <1>11, <1>12, <1>13, <1>14, TopChanges

\* The call goes on whose argument was a call.
Resume(f) == [f EXCEPT !.evaluated = TRUE, !.lost = @ \/ LargeLeft(f)]

LEMMA ResumeIs ==
  ASSUME NEW f \in FrameSet
  PROVE  /\ Resume(f) \in FrameSet
         /\ Resume(f).call = f.call /\ Resume(f).todo = f.todo /\ Resume(f).loaded = f.loaded
         /\ Resume(f).stack_args = f.stack_args /\ Resume(f).mem = f.mem
         /\ Resume(f).depth = f.depth
<1>1. PICK g : g = [f EXCEPT !.evaluated = TRUE]
  OBVIOUS
<1>2. /\ g \in FrameSet
      /\ g.call = f.call /\ g.todo = f.todo /\ g.loaded = f.loaded /\ g.lost = f.lost
      /\ g.stack_args = f.stack_args /\ g.mem = f.mem /\ g.depth = f.depth
  BY <1>1 DEF FrameSet
<1>3. PICK b \in BOOLEAN : b = (f.lost \/ LargeLeft(f))
  OBVIOUS
<1>4. Resume(f) = [g EXCEPT !.lost = b]
  <2>1. Resume(f) = [f EXCEPT !.evaluated = TRUE, !.lost = b]
    BY <1>3 DEF Resume
  <2> QED BY <1>1, <2>1, Zenon
<1>5. PICK r : r = [g EXCEPT !.lost = b]
  OBVIOUS
<1>6. /\ r \in FrameSet
      /\ r.call = g.call /\ r.todo = g.todo /\ r.loaded = g.loaded
      /\ r.stack_args = g.stack_args /\ r.mem = g.mem /\ r.depth = g.depth
  BY <1>2, <1>5 DEF FrameSet
<1> QED BY <1>2, <1>4, <1>5, <1>6

LEMMA SameFrame ==
  ASSUME NEW e, NEW f, NEW m, NEW d, Balanced(e, m, d),
         f.call = e.call, f.todo = e.todo, f.loaded = e.loaded,
         f.stack_args = e.stack_args, f.mem = e.mem, f.depth = e.depth
  PROVE  Balanced(f, m, d) /\ (LargeLeft(f) <=> LargeLeft(e))
<1>1. PadOf(f) = PadOf(e) /\ PushedOf(f) = PushedOf(e) /\ CopiedOf(f) = CopiedOf(e)
  BY DEF PadOf, PushedOf, CopiedOf
<1>2. LargeLeft(f) <=> LargeLeft(e)
  BY DEF LargeLeft
<1>3. Balanced(f, m, d)
  BY <1>1 DEF Balanced
<1> QED BY <1>2, <1>3

LEMMA ReturnIs ==
  ASSUME IInv, Return
  PROVE  mem' = Top.mem /\ depth' = Top.depth
<1>1. calls # <<>> /\ Top.loaded
  BY DEF Return
<1>2. /\ Balanced(Top, mem, depth) /\ Top.mem \in Seq(WordSet) /\ Top.depth \in Nat
      /\ Top.stack_args \in Nat /\ mem \in Seq(WordSet)
  BY <1>1, TopIs
<1>3. /\ Stands(mem, Top.mem) /\ Len(mem) = Len(Top.mem) + Top.stack_args
      /\ depth = Top.depth + Top.stack_args
  BY <1>1, <1>2 DEF Balanced
<1>4. PICK z \in Nat, s \in Nat, e \in Nat : z = Len(Top.mem) /\ s = Top.stack_args /\ e = Top.depth
  BY <1>2
<1>5. Len(mem) - Top.stack_args = z /\ depth - Top.stack_args = e
  <2>1. Len(mem) = z + s /\ depth = e + s
    BY <1>3, <1>4
  <2>2. (z + s) - s = z /\ (e + s) - s = e
    OBVIOUS
  <2> QED BY <1>4, <2>1, <2>2
<1>6. mem' = SubSeq(mem, 1, Len(Top.mem)) /\ depth' = Top.depth
  BY <1>4, <1>5 DEF Return
<1>7. SubSeq(mem, 1, Len(Top.mem)) = Top.mem
  BY <1>2, <1>3, StandsIs
<1> QED BY <1>6, <1>7

LEMMA ReturnKeeps ==
  ASSUME IInv, Return
  PROVE  IInv'
<1>1. mem' = Top.mem /\ depth' = Top.depth
  BY ReturnIs
<1>2. Typed /\ Base /\ Levels /\ Known
  BY DEF IInv
<1>3. calls # <<>>
  BY DEF Return
<1>4. /\ calls \in Seq(FrameSet) /\ Top = calls[Len(calls)] /\ Len(calls) \in Nat \ {0}
      /\ Top.mem \in Seq(WordSet) /\ Top.depth \in Nat /\ Len(calls) <= MaxLevel
  BY <1>2, <1>3, TopIs DEF Typed
<1>5. PICK n \in Nat \ {0} : n = Len(calls) /\ DOMAIN calls = 1 .. n
  BY <1>4
<1>6. calls' = [l \in 1 .. n - 1 |-> IF l = n - 1 THEN Resume(calls[l]) ELSE calls[l]]
  BY <1>5 DEF Return, Resume
<1>7. ASSUME NEW l \in 1 .. n - 1
      PROVE  /\ calls'[l] \in FrameSet
             /\ calls'[l].call = calls[l].call /\ calls'[l].todo = calls[l].todo
             /\ calls'[l].loaded = calls[l].loaded
             /\ calls'[l].stack_args = calls[l].stack_args /\ calls'[l].mem = calls[l].mem
             /\ calls'[l].depth = calls[l].depth
  <2>1. PICK f \in FrameSet : f = calls[l]
    BY <1>4, <1>5
  <2>2. calls'[l] = Resume(f) \/ calls'[l] = f
    BY <1>6, <2>1
  <2> QED BY <2>1, <2>2, ResumeIs
<1>8. calls' \in Seq(FrameSet) /\ Len(calls') = n - 1 /\ (calls' = <<>> <=> n = 1)
  <2>1. PICK r : r = calls'
    OBVIOUS
  <2>2. r \in [1 .. n - 1 -> FrameSet]
    BY <1>6, <1>7, <2>1
  <2>3. r \in Seq(FrameSet) /\ Len(r) = n - 1
    BY <2>2
  <2> QED BY <2>1, <2>3
<1>9. Typed'
  <2>1. Len(calls') <= MaxLevel
    BY <1>4, <1>5, <1>8, LevelAssumption
  <2>2. t1' = Unknown /\ a' = Free /\ fa' = Free
    BY DEF Return
  <2>3. Free \in Regs
    <3>1. Junk \in WordSet
      BY DEF WordSet
    <3> QED BY <3>1 DEF Free, Regs
  <2> QED BY <1>1, <1>4, <1>8, <2>1, <2>2, <2>3 DEF Typed
<1>10. Base'
  <2>1. calls[1].mem = <<>> /\ calls[1].depth = 0
    BY <1>2, <1>3 DEF Base
  <2>2. CASE n = 1
    BY <1>1, <1>4, <1>5, <1>8, <2>1, <2>2 DEF Base
  <2>3. CASE n # 1
    <3>1. 1 \in 1 .. n - 1
      BY <2>3
    <3>2. calls'[1].mem = <<>> /\ calls'[1].depth = 0
      BY <1>7, <2>1, <3>1
    <3> QED BY <1>8, <2>3, <3>2 DEF Base
  <2> QED BY <2>2, <2>3
<1>11. ASSUME NEW l \in 1 .. n - 1
       PROVE  /\ Balanced(calls'[l], MemOf(l), DepthOf(l))
              /\ LargeLeft(calls'[l]) <=> LargeLeft(calls[l])
              /\ ~ calls'[l].loaded
  <2>1. Balanced(calls[l], MemOf(l), DepthOf(l)) /\ (calls[l].loaded => l = n)
    BY <1>2, <1>5 DEF Levels
  <2>2. Balanced(calls'[l], MemOf(l), DepthOf(l)) /\ (LargeLeft(calls'[l]) <=> LargeLeft(calls[l]))
    BY <1>7, <2>1, SameFrame
  <2> QED BY <1>7, <2>1, <2>2
<1>12. Levels'
  <2> SUFFICES ASSUME NEW l \in 1 .. n - 1
               PROVE  /\ Balanced(calls'[l], MemOf(l)', DepthOf(l)')
                      /\ calls'[l].loaded => l = n - 1
    BY <1>8 DEF Levels
  <2>1. MemOf(l)' = MemOf(l) /\ DepthOf(l)' = DepthOf(l)
    <3>1. MemOf(l) = calls[l + 1].mem /\ DepthOf(l) = calls[l + 1].depth
      BY <1>5 DEF MemOf, DepthOf
    <3>2. CASE l = n - 1
      <4>1. MemOf(l)' = mem' /\ DepthOf(l)' = depth'
        BY <1>8, <3>2 DEF MemOf, DepthOf
      <4> QED BY <1>1, <1>4, <1>5, <3>1, <3>2, <4>1
    <3>3. CASE l # n - 1
      <4>1. l + 1 \in 1 .. n - 1
        BY <3>3
      <4>2. MemOf(l)' = calls'[l + 1].mem /\ DepthOf(l)' = calls'[l + 1].depth
        BY <1>8, <3>3 DEF MemOf, DepthOf
      <4> QED BY <1>7, <3>1, <4>1, <4>2
    <3> QED BY <3>2, <3>3
  <2> QED BY <1>11, <2>1
<1>13. Above'
  BY DEF Above, Return
<1>14. Known'
  <2> SUFFICES ASSUME NEW l \in 1 .. n - 1, \A k \in 1 .. l - 1 : ~ LargeLeft(calls'[k])
               PROVE  Len(calls'[l].mem) = calls'[l].depth
    BY <1>8 DEF Known
  <2>1. \A k \in 1 .. l - 1 : ~ LargeLeft(calls[k])
    <3> SUFFICES ASSUME NEW k \in 1 .. l - 1 PROVE ~ LargeLeft(calls[k])
      OBVIOUS
    <3>1. k \in 1 .. n - 1
      OBVIOUS
    <3> QED BY <1>11, <3>1
  <2>2. Len(calls[l].mem) = calls[l].depth
    BY <1>2, <1>5, <2>1 DEF Known
  <2> QED BY <1>7, <2>2
<1> QED BY <1>9, <1>10, <1>12, <1>13, <1>14 DEF IInv

-----------------------------------------------------------------------------
(* The theorems *)

\* Every step keeps the stack as the invariant describes it.
LEMMA StepKeeps ==
  ASSUME IInv, [Next]_vars
  PROVE  IInv'
<1>1. CASE MakeCall
  <2>1. PICK c \in Calls : Begin(c)
    BY <1>1 DEF MakeCall
  <2>2. calls = <<>> /\ Len(calls) < MaxLevel /\ c \in AllCalls
    BY <1>1, LevelAssumption DEF MakeCall, AllCalls
  <2> QED BY <2>1, <2>2, BeginKeeps
<1>2. CASE EvalCall
  <2>1. PICK c \in Inner : Begin(c)
    BY <1>2 DEF EvalCall
  <2>2. Top.todo # <<>> /\ Len(calls) < MaxLevel /\ c \in AllCalls
    BY <1>2 DEF EvalCall, Waiting, AllCalls
  <2> QED BY <2>1, <2>2, BeginKeeps
<1>8. CASE OverwriteT1
  BY <1>8, OverwriteKeeps
<1>3. CASE PushArg
  BY <1>3, PushArgKeeps
<1>4. CASE PushLarge
  BY <1>4, PushLargeKeeps
<1>5. CASE Load
  BY <1>5, LoadKeeps
<1>6. CASE Return
  BY <1>6, ReturnKeeps
<1>7. CASE UNCHANGED vars
  <2>1. calls' = calls /\ mem' = mem /\ depth' = depth /\ t1' = t1 /\ a' = a /\ fa' = fa
    BY <1>7 DEF vars
  <2>2. Top' = Top /\ \A l : MemOf(l)' = MemOf(l) /\ DepthOf(l)' = DepthOf(l)
    BY <2>1 DEF Top, MemOf, DepthOf
  <2>3. Typed'
    BY <2>1 DEF IInv, Typed
  <2>4. Base'
    BY <2>1 DEF IInv, Base
  <2>5. Levels'
    BY <2>1, <2>2 DEF IInv, Levels
  <2>6. Above'
    BY <2>1, <2>2 DEF IInv, Above
  <2>7. Known'
    BY <2>1 DEF IInv, Known
  <2> QED BY <2>3, <2>4, <2>5, <2>6, <2>7 DEF IInv
<1> QED BY <1>1, <1>2, <1>3, <1>4, <1>5, <1>6, <1>7, <1>8 DEF Next

LEMMA InitHolds ==
  ASSUME Init
  PROVE  IInv
<1>1. Len(calls) = 0 /\ calls = <<>> /\ mem = <<>> /\ depth = 0 /\ t1 = Unknown /\ a = Free /\ fa = Free
  BY DEF Init
<1>2. Typed
  <2>1. Junk \in WordSet
    BY DEF WordSet
  <2>2. Free \in Regs
    BY <2>1 DEF Free, Regs
  <2>3. <<>> \in Seq(FrameSet) /\ <<>> \in Seq(WordSet) /\ 0 <= MaxLevel
    BY LevelAssumption
  <2> QED BY <1>1, <2>2, <2>3 DEF Typed
<1>3. Base /\ Levels /\ Above /\ Known
  BY <1>1 DEF Base, Levels, Above, Known
<1> QED BY <1>2, <1>3 DEF IInv

\* Around every call, of the calls that are being made and of the ones around
\* them, the stack and what the compiler takes for its depth are what was
\* counted, pushed and copied for its arguments: push_args() and the pops of
\* gen_expr() agree, for any number of registers and any lists of arguments.
THEOREM CallConvInvariant == Spec => []IInv
<1>1. Init => IInv
  BY InitHolds
<1>2. IInv /\ [Next]_vars => IInv'
  BY StepKeeps
<1> QED BY <1>1, <1>2, PTL DEF Spec

\* The compiler's depth never goes below zero; stack and registers hold words
\* of arguments of the calls that are being made, or of earlier ones.
THEOREM CallConvTypeOK == Spec => []TypeOK
<1>1. IInv => TypeOK
  <2> SUFFICES ASSUME Typed PROVE TypeOK
    BY DEF IInv
  <2>1. \A w \in WordSet : w \in {Junk, Pointer} \/ (Len(w) = 3 /\ w[1] \in 1 .. MaxLevel)
    <3> SUFFICES ASSUME NEW w \in (1 .. MaxLevel) \X Nat \X Nat
                 PROVE  Len(w) = 3 /\ w[1] \in 1 .. MaxLevel
      BY DEF WordSet
    <3> QED OBVIOUS
  <2>2. \A i \in DOMAIN calls : IsCall(calls[i].call)
    <3> SUFFICES ASSUME NEW i \in DOMAIN calls PROVE IsCall(calls[i].call)
      OBVIOUS
    <3>1. calls[i] \in FrameSet
      BY DEF Typed
    <3>2. calls[i].call \in AllCalls
      BY <3>1 DEF FrameSet
    <3> QED BY <3>2, CallsAssumption DEF AllCalls
  <2>3. \A p \in DOMAIN mem : mem[p] \in WordSet
    BY DEF Typed
  <2>4. \A r \in 1 .. MAX_ARG_REGS : a[r] \in WordSet /\ fa[r] \in WordSet
    BY DEF Typed, Regs
  <2>5. t1 \in Int /\ depth \in Nat /\ Len(calls) <= MaxLevel
    BY DEF Typed, Unknown
  <2> QED BY <2>1, <2>2, <2>3, <2>4, <2>5 DEF TypeOK
<1> QED BY <1>1, CallConvInvariant, PTL

LEMMA EvenLeaves ==
  ASSUME NEW p \in Int, NEW m \in Int, m % 2 = 0
  PROVE  (p + m) % 2 = 0 <=> p % 2 = 0
OBVIOUS

LEMMA AlignedIs ==
  ASSUME NEW n \in Int, NEW align \in Nat \ {0}
  PROVE  align_to(n, align) \in Int
<1>1. PICK q \in Int : q = (n + align - 1) \div align
  OBVIOUS
<1>2. q * align \in Int
  OBVIOUS
<1> QED BY <1>1, <1>2 DEF align_to

\* The loop of assign_lvar_offsets() over the variables below fp.
LEMMA StackSizeIs ==
  ASSUME NEW f \in Functions
  PROVE  StackSize(f.locals) \in Int
<1>1. f.locals \in Seq([size : Nat, align : Nat \ {0}])
  BY FunctionsAssumption DEF IsFunction
<1>2. PICK v : v = f.locals
  OBVIOUS
<1>2b. PICK N \in Nat : N = Len(v)
  BY <1>1, <1>2
<1>2c. ASSUME NEW i \in 1 .. N
       PROVE  v[i].size \in Nat /\ v[i].align \in Nat \ {0}
  <2>1. PICK V : V = [size : Nat, align : Nat \ {0}]
    OBVIOUS
  <2>2. v \in Seq(V)
    BY <1>1, <1>2, <2>1
  <2>3. v[i] \in V
    BY <1>2b, <2>2
  <2> QED BY <2>1, <2>3
<1>2a. PICK Z : Z = Int
  OBVIOUS
<1> DEFINE S == [i \in 0 .. N |-> Z]
           F == [i \in 1 .. N |-> [x \in Z |-> align_to(x + v[i].size, v[i].align)]]
           R(l) == l = [i \in 0 .. N |-> IF i = 0 THEN 0
                                         ELSE align_to(l[i - 1] + v[i].size, v[i].align)]
<1>3. ASSUME NEW i \in 1 .. N, NEW x \in Z
      PROVE  align_to(x + v[i].size, v[i].align) \in Z
  <2>1. PICK z \in Nat, g \in Nat \ {0} : z = v[i].size /\ g = v[i].align
    BY <1>2c
  <2>2. x + z \in Int
    BY <1>2a
  <2> QED BY <1>2a, <2>1, <2>2, AlignedIs
<1>4. \A i \in 0 .. N : S[i] = Z
  OBVIOUS
<1>5. \A i \in 1 .. N : i - 1 \in 0 .. N /\ i \in 0 .. N
  OBVIOUS
<1>6. \A i \in 1 .. N : \A x \in S[i - 1] :
        F[i][x] \in S[i] /\ F[i][x] = align_to(x + v[i].size, v[i].align)
  <2> HIDE DEF S
  <2> QED BY <1>3, <1>4, <1>5
<1> HIDE DEF F
<1>7. PICK h : Rounds(h, 0, F, N) /\ \A i \in 0 .. N : h[i] \in S[i]
  <2>1. 0 \in S[0]
    BY <1>2a, <1>4
  <2> HIDE DEF S, R
  <2> QED BY <1>6, <2>1, RoundsClimb
<1>8. R(h)
  <2>1. h = [i \in 0 .. N |-> IF i = 0 THEN 0 ELSE F[i][h[i - 1]]]
    BY <1>7 DEF Rounds
  <2>2. \A i \in 0 .. N : i # 0 => F[i][h[i - 1]] = align_to(h[i - 1] + v[i].size, v[i].align)
    <3> SUFFICES ASSUME NEW i \in 0 .. N, i # 0
                 PROVE  F[i][h[i - 1]] = align_to(h[i - 1] + v[i].size, v[i].align)
      OBVIOUS
    <3>1. i \in 1 .. N /\ i - 1 \in 0 .. N
      OBVIOUS
    <3>2. h[i - 1] \in S[i - 1]
      BY <1>7, <3>1
    <3> QED BY <1>6, <3>1, <3>2
  <2> HIDE DEF S
  <2> QED BY <2>1, <2>2
<1> DEFINE l == CHOOSE l : R(l)
<1>9. R(l)
  BY <1>8
<1>10. StackSize(f.locals) = align_to(l[N], 8)
  BY <1>2, <1>2b DEF StackSize, Through
<1> HIDE DEF l
<1>11. l[0] = 0 /\ \A i \in 1 .. N : l[i] = align_to(l[i - 1] + v[i].size, v[i].align)
  <2>1. l = [i \in 0 .. N |-> IF i = 0 THEN 0 ELSE align_to(l[i - 1] + v[i].size, v[i].align)]
    BY <1>9
  <2>2. 0 \in 0 .. N /\ \A i \in 1 .. N : i \in 0 .. N /\ i # 0
    OBVIOUS
  <2> HIDE DEF R, S
  <2> QED BY ONLY <2>1, <2>2
<1> HIDE DEF R
<1>12. l[0] \in S[0]
  <2>1. 0 \in 0 .. N /\ 0 \in Z
    BY <1>2a
  <2> HIDE DEF S
  <2> QED BY <1>4, <1>11, <2>1
<1>13. \A i \in 1 .. N : l[i - 1] \in S[i - 1] => l[i] \in S[i]
  <2> HIDE DEF S
  <2> QED BY <1>3, <1>4, <1>5, <1>11
<1>14. \A i \in 0 .. N : l[i] \in S[i]
  <2> HIDE DEF S
  <2> QED BY <1>12, <1>13, Climb
<1>15. l[N] \in Int
  <2>1. N \in 0 .. N
    OBVIOUS
  <2> HIDE DEF S
  <2> QED BY <1>2a, <1>4, <1>14, <2>1
<1>16. 8 \in Nat \ {0}
  OBVIOUS
<1> QED BY <1>10, <1>15, <1>16, AlignedIs

LEMMA PrologueIs ==
  ASSUME NEW f \in Functions
  PROVE  PrologueWords(f) \in Int
<1>1. IsCall(f.sig)
  BY FunctionsAssumption DEF IsFunction
<1>2. PICK N \in Nat : N = Len(Params(f.sig)) /\ DOMAIN Params(f.sig) = 1 .. N
  <2>1. f.sig.params \in Seq(Kinds) /\ <<"int">> \in Seq(Kinds) /\ <<>> \in Seq(Kinds)
    BY <1>1 DEF IsCall, Kinds
  <2>2. Params(f.sig) \in Seq(Kinds)
    BY <2>1 DEF Params
  <2> QED BY <2>2
<1>3. PICK d \in Nat : d = Cardinality({i \in DOMAIN Params(f.sig) : Params(f.sig)[i] = "double"})
  <2>1. IsFiniteSet(1 .. N)
    <3>1. 1 \in Int /\ N \in Int
      OBVIOUS
    <3> QED BY <3>1, FS_Interval
  <2>2. {i \in 1 .. N : Params(f.sig)[i] = "double"} \in SUBSET (1 .. N)
    OBVIOUS
  <2> QED BY <1>2, <2>1, <2>2, FS_Subset, FS_CardinalityType
<1>4. VaSize(f.sig) \in Int
  BY <1>2, <1>3, RegsAssumption DEF VaSize
<1>5. StackSize(f.locals) \div 8 \in Int
  BY StackSizeIs
<1> QED BY <1>4, <1>5 DEF PrologueWords

Inside == fn \in Functions

\* What is pushed before and for a call, however deep calls are nested, leaves
\* sp at a call the multiple of 16, or the 8 bytes off one, that the prologue of
\* the calling function made it: for any signature and variables of that function,
\* and every call not made while space for a large struct is reserved.
THEOREM CallConvAlignedAtCall == Spec => []AlignedAtCall
<1>1. IInv /\ Inside => AlignedAtCall
  <2> SUFFICES ASSUME IInv, Inside, AtCall,
                      \A l \in 1 .. Len(calls) - 1 : ~ LargeLeft(calls[l])
               PROVE  SpWords % 2 = 0 <=> PrologueWords(fn) % 2 = 0
    BY DEF AlignedAtCall
  <2>1. calls # <<>> /\ Top.loaded
    BY DEF AtCall
  <2>2. /\ Top = calls[Len(calls)] /\ Len(calls) \in Nat \ {0}
        /\ Balanced(Top, mem, depth) /\ Top.depth \in Nat /\ Top.stack_args \in Nat
    BY <2>1, TopIs
  <2>3. Len(Top.mem) = Top.depth
    <3>1. Known
      BY DEF IInv
    <3>2. Len(calls) \in 1 .. Len(calls)
      BY <2>2
    <3> QED BY <2>2, <3>1, <3>2 DEF Known
  <2>4. Len(mem) = Top.depth + Top.stack_args /\ (Top.depth + Top.stack_args) % 2 = 0
    BY <2>1, <2>2, <2>3 DEF Balanced
  <2>5. PICK p \in Int : p = PrologueWords(fn)
    BY PrologueIs DEF Inside
  <2>6. PICK m \in Int : m = Len(mem) /\ m % 2 = 0
    BY <2>2, <2>4
  <2>7. (p + m) % 2 = 0 <=> p % 2 = 0
    BY <2>6, EvenLeaves
  <2> QED BY <2>5, <2>6, <2>7 DEF SpWords
<1>2. Init => Inside
  BY DEF Init, Inside
<1>3. Inside /\ [Next]_vars => Inside'
  BY DEF Inside, vars, Next, MakeCall, EvalCall, Begin, OverwriteT1, PushArg, PushLarge, ArgDone, Load,
         Return
<1> QED BY <1>1, <1>2, <1>3, CallConvInvariant, PTL DEF Spec

\* A call that returns leaves the stack of the calls around it word for word as
\* it found it, and the compiler's depth with it.
THEOREM CallConvStackRestored == Spec => StackRestored
<1>1. IInv /\ [Next]_vars => [Len(calls') < Len(calls) => mem' = Top.mem /\ depth' = Top.depth]_vars
  <2> SUFFICES ASSUME IInv, Next, Len(calls') < Len(calls)
               PROVE  mem' = Top.mem /\ depth' = Top.depth
    OBVIOUS
  <2>1. calls \in Seq(FrameSet) /\ Typed
    BY DEF IInv, Typed
  <2>2. ASSUME MakeCall \/ EvalCall PROVE FALSE
    <3>1. PICK F : calls' = Append(calls, F)
      BY <2>2 DEF MakeCall, EvalCall, Begin
    <3> QED BY <2>1, <3>1
  <2>3. ASSUME PushArg \/ PushLarge PROVE FALSE
    <3>1. Waiting /\ ArgDone
      BY <2>3 DEF PushArg, PushLarge
    <3>2. Len(calls') = Len(calls)
      BY <2>1, <3>1, ArgDoneIs
    <3> QED BY <2>1, <3>2
  <2>6. ASSUME OverwriteT1 PROVE FALSE
    <3>1. calls' = [calls EXCEPT ![Len(calls)].lost = @ \/ LargeLeft(Top)]
      BY <2>6 DEF OverwriteT1
    <3>2. Len(calls') = Len(calls)
      BY <2>1, <3>1
    <3> QED BY <2>1, <3>2
  <2>4. ASSUME Load PROVE FALSE
    <3>1. calls' = [calls EXCEPT ![Len(calls)].loaded = TRUE]
      BY <2>4 DEF Load
    <3>2. Len(calls') = Len(calls)
      BY <2>1, <3>1
    <3> QED BY <2>1, <3>2
  <2>5. CASE Return
    BY <2>5, ReturnIs
  <2> QED BY <2>2, <2>3, <2>4, <2>5, <2>6 DEF Next
<1> QED BY <1>1, CallConvInvariant, PTL DEF Spec, StackRestored
===============================================================================
