----------------------------- MODULE LinkageProofs -----------------------------
(***************************************************************************)
(* Which functions and variables are emitted, for translation units of any  *)
(* length over any names.                                                   *)
(***************************************************************************)
EXTENDS Linkage, FiniteSetTheorems, SequenceTheorems, WellFoundedInduction, TLAPS

-----------------------------------------------------------------------------
(* Lists linked from younger to older objects *)

\* A set of numbers has a smallest one: what inductions here rest on.
LEMMA Smallest ==
  ASSUME NEW T, T \subseteq Nat, T # {}
  PROVE  \E x \in T : \A y \in T : x <= y
<1> DEFINE R == {ss \in Nat \X Nat : ss[1] < ss[2]}
<1>1. IsWellFoundedOn(R, Nat)
  BY NatLessThanWellFounded DEF OpToRel
<1>2. PICK x \in T : \A y \in T : ~ (<<y, x>> \in R)
  <2> HIDE DEF R
  <2> QED BY <1>1, WFMin
<1>3. ASSUME NEW y \in T PROVE x <= y
  <2>1. <<y, x>> \in Nat \X Nat /\ <<y, x>>[1] = y /\ <<y, x>>[2] = x
    OBVIOUS
  <2>2. ~ (y < x)
    <3> SUFFICES ASSUME y < x PROVE FALSE
      OBVIOUS
    <3>1. <<y, x>> \in R
      BY <2>1
    <3> QED BY <3>1, <1>2
  <2> QED BY <2>2
<1> QED BY <1>3

\* Every object points to an older one or is the last.
Falling(N, next) == \A i \in 1 .. N : next[i] \in 0 .. i - 1

IsAfter(f, k, next) ==
  f = [i \in 0 .. k |-> IF i = 0 THEN {} ELSE {i} \cup f[next[i]]]

\* What Chain computes, of N objects.
Reach(N, next, from) ==
  LET after[i \in 0 .. N] == IF i = 0 THEN {} ELSE {i} \cup after[next[i]]
  IN  after[from]

\* What holds of the end of the list, and of an object if of the next one,
\* holds of all.
LEMMA Descend ==
  ASSUME NEW N \in Nat, NEW next, Falling(N, next),
         NEW P, 0 \in P, \A i \in 1 .. N : next[i] \in P => i \in P
  PROVE  0 .. N \subseteq P
<1> DEFINE T == {k \in 0 .. N : k \notin P}
<1> SUFFICES ASSUME T # {} PROVE FALSE
  OBVIOUS
<1>1. T \subseteq Nat
  OBVIOUS
<1>2. PICK x \in T : \A y \in T : x <= y
  <2> HIDE DEF T
  <2> QED BY <1>1, Smallest
<1>3. x \in 1 .. N /\ next[x] \in 0 .. x - 1
  BY DEF Falling
<1>4. next[x] \in P
  BY <1>2, <1>3
<1> QED BY <1>3, <1>4

LEMMA AfterExists ==
  ASSUME NEW N \in Nat, NEW next, Falling(N, next)
  PROVE  \E f : IsAfter(f, N, next)
<1> DEFINE T == {k \in 0 .. N : ~ \E f : IsAfter(f, k, next)}
<1> SUFFICES ASSUME T # {} PROVE FALSE
  OBVIOUS
<1>1. T \subseteq Nat
  OBVIOUS
<1>2. PICK k \in T : \A y \in T : k <= y
  <2> HIDE DEF T
  <2> QED BY <1>1, Smallest
<1>3. k # 0
  <2> SUFFICES ASSUME k = 0 PROVE FALSE
    OBVIOUS
  <2> DEFINE f == [i \in 0 .. 0 |-> {}]
  <2>1. IsAfter(f, 0, next)
    BY DEF IsAfter
  <2> QED BY <2>1
<1>4. k - 1 \in 0 .. N /\ k - 1 \notin T
  BY <1>2, <1>3
<1>5. PICK f : IsAfter(f, k - 1, next)
  BY <1>4
<1> DEFINE g == [i \in 0 .. k |-> IF i = k THEN {k} \cup f[next[k]] ELSE f[i]]
<1>6. next[k] \in 0 .. k - 1
  BY <1>3 DEF Falling
<1>7. ASSUME NEW i \in 0 .. k
      PROVE  g[i] = IF i = 0 THEN {} ELSE {i} \cup g[next[i]]
  <2>1. CASE i = k
    BY <2>1, <1>3, <1>6
  <2>2. CASE i # k
    <3>1. i \in 0 .. k - 1 /\ (i # 0 => next[i] \in 0 .. i - 1)
      BY <2>2 DEF Falling
    <3>2. f[i] = IF i = 0 THEN {} ELSE {i} \cup f[next[i]]
      BY <3>1, <1>5 DEF IsAfter
    <3>3. i # 0 => g[next[i]] = f[next[i]]
      BY <3>1
    <3>4. g[i] = f[i]
      BY <2>2
    <3>5. CASE i = 0
      BY <3>2, <3>4, <3>5
    <3>6. CASE i # 0
      <4>1. g[i] = {i} \cup f[next[i]]
        BY <3>2, <3>4, <3>6
      <4>2. g[next[i]] = f[next[i]]
        BY <3>3, <3>6
      <4> HIDE DEF g
      <4> QED BY <3>6, <4>1, <4>2
    <3> QED BY <3>5, <3>6
  <2> QED BY <2>1, <2>2
<1>8. IsAfter(g, k, next)
  <2> DEFINE h == [i \in 0 .. k |-> IF i = 0 THEN {} ELSE {i} \cup g[next[i]]]
  <2>1. \A i \in 0 .. k : g[i] = h[i]
    BY <1>7
  <2>2. g = h
    BY <2>1
  <2> QED BY <2>2 DEF IsAfter
<1> QED BY <1>8

\* The definition of Chain, as two equations.
LEMMA ReachNext ==
  ASSUME NEW N \in Nat, NEW next, Falling(N, next)
  PROVE  /\ Reach(N, next, 0) = {}
         /\ \A i \in 1 .. N : Reach(N, next, i) = {i} \cup Reach(N, next, next[i])
<1>1. PICK after : IsAfter(after, N, next) /\ \A from : Reach(N, next, from) = after[from]
  <2> DEFINE f == CHOOSE f : IsAfter(f, N, next)
  <2>1. IsAfter(f, N, next)
    BY AfterExists
  <2>2. \A from : Reach(N, next, from) = f[from]
    BY DEF Reach, IsAfter
  <2> HIDE DEF f
  <2> QED BY <2>1, <2>2
<1>2. after = [i \in 0 .. N |-> IF i = 0 THEN {} ELSE {i} \cup after[next[i]]]
  BY <1>1 DEF IsAfter
<1>3. after[0] = {}
  <2>1. 0 \in 0 .. N
    OBVIOUS
  <2> QED BY <1>2, <2>1, Zenon
<1>4. ASSUME NEW i \in 1 .. N PROVE after[i] = {i} \cup after[next[i]]
  <2>1. i \in 0 .. N /\ i # 0
    OBVIOUS
  <2> QED BY <1>2, <2>1, Zenon
<1> QED BY <1>1, <1>3, <1>4

LEMMA ReachBelow ==
  ASSUME NEW N \in Nat, NEW next, Falling(N, next)
  PROVE  \A i \in 0 .. N : Reach(N, next, i) \subseteq 1 .. i
<1> DEFINE P == {i \in 0 .. N : Reach(N, next, i) \subseteq 1 .. i}
<1>1. 0 \in P
  BY ReachNext
<1>2. ASSUME NEW i \in 1 .. N, next[i] \in P PROVE i \in P
  <2>1. next[i] \in 0 .. i - 1
    BY DEF Falling
  <2> QED BY <1>2, <2>1, ReachNext
<1> HIDE DEF P
<1>3. 0 .. N \subseteq P
  BY <1>1, <1>2, Descend
<1> QED BY <1>3 DEF P

\* Nothing skipped: all older objects.
LEMMA ReachAll ==
  ASSUME NEW N \in Nat, NEW next, Falling(N, next), NEW v \in 0 .. N,
         \A i \in 1 .. v : next[i] = i - 1
  PROVE  \A x \in 0 .. N : x <= v => Reach(N, next, x) = 1 .. x
<1> DEFINE P == {x \in 0 .. N : x <= v => Reach(N, next, x) = 1 .. x}
<1>1. 0 \in P
  BY ReachNext
<1>2. ASSUME NEW i \in 1 .. N, next[i] \in P PROVE i \in P
  <2> SUFFICES ASSUME i <= v PROVE Reach(N, next, i) = 1 .. i
    OBVIOUS
  <2>1. next[i] = i - 1 /\ Reach(N, next, i - 1) = 1 .. i - 1
    BY <1>2
  <2>2. Reach(N, next, i) = {i} \cup 1 .. i - 1
    BY <2>1, ReachNext
  <2> QED BY <2>2
<1> HIDE DEF P
<1>3. 0 .. N \subseteq P
  BY <1>1, <1>2, Descend
<1> QED BY <1>3 DEF P

\* The last of a list gets a successor.
LEMMA ReachExtended ==
  ASSUME NEW N \in Nat, NEW next, Falling(N, next), NEW c \in 1 .. N, NEW v \in 1 .. c - 1,
         next[c] = 0, NEW longer, longer[c] = v, longer[v] = 0,
         \A i \in 1 .. N : i # c /\ i # v => longer[i] = next[i]
  PROVE  \A x \in 0 .. N : c \in Reach(N, next, x) =>
           Reach(N, longer, x) = Reach(N, next, x) \cup {v}
<1> DEFINE P == {x \in 0 .. N : c \in Reach(N, next, x) =>
                    Reach(N, longer, x) = Reach(N, next, x) \cup {v}}
<1>1. Falling(N, longer)
  BY DEF Falling
<1>2. 0 \in P
  BY ReachNext
<1>3. ASSUME NEW i \in 1 .. N, next[i] \in P PROVE i \in P
  <2> SUFFICES ASSUME c \in Reach(N, next, i)
               PROVE  Reach(N, longer, i) = Reach(N, next, i) \cup {v}
    OBVIOUS
  <2>1. CASE i = c
    <3>1. Reach(N, next, c) = {c} \cup {}
      BY ReachNext
    <3>2. Reach(N, longer, v) = {v} \cup {}
      BY <1>1, ReachNext
    <3>3. Reach(N, longer, c) = {c} \cup Reach(N, longer, v)
      BY <1>1, ReachNext
    <3> QED BY <2>1, <3>1, <3>2, <3>3
  <2>2. CASE i # c
    <3>1. next[i] \in 0 .. i - 1 /\ next[i] \in 0 .. N
      BY DEF Falling
    <3>2. c \in Reach(N, next, next[i])
      BY <2>2, ReachNext
    <3>3. c <= next[i]
      BY <3>1, <3>2, ReachBelow
    <3>4. longer[i] = next[i]
      BY <2>2, <3>1, <3>3
    <3>5. Reach(N, longer, next[i]) = Reach(N, next, next[i]) \cup {v}
      BY <1>3, <3>2
    <3>6. Reach(N, longer, i) = {i} \cup Reach(N, longer, next[i])
      BY <1>1, <3>4, ReachNext
    <3>7. Reach(N, next, i) = {i} \cup Reach(N, next, next[i])
      BY ReachNext
    <3> QED BY <3>5, <3>6, <3>7
  <2> QED BY <2>1, <2>2
<1> HIDE DEF P
<1>4. 0 .. N \subseteq P
  BY <1>2, <1>3, Descend
<1> QED BY <1>4 DEF P

\* What lies between c and v is skipped, nothing else.
LEMMA ReachShortcut ==
  ASSUME NEW N \in Nat, NEW next, Falling(N, next), NEW c \in 1 .. N, NEW v \in 1 .. c - 1,
         \A i \in 1 .. c : next[i] = i - 1,
         NEW shorter, shorter[c] = v, \A i \in 1 .. N : i # c => shorter[i] = next[i]
  PROVE  \A x \in 0 .. N : c \in Reach(N, next, x) =>
           \A i \in Reach(N, next, x) : i >= c \/ i <= v => i \in Reach(N, shorter, x)
<1> DEFINE P == {x \in 0 .. N : c \in Reach(N, next, x) =>
              \A i \in Reach(N, next, x) : i >= c \/ i <= v => i \in Reach(N, shorter, x)}
<1>1. Falling(N, shorter)
  BY DEF Falling
<1>2. 0 \in P
  BY ReachNext
<1>3. ASSUME NEW y \in 1 .. N, next[y] \in P PROVE y \in P
  <2> SUFFICES ASSUME c \in Reach(N, next, y), NEW i \in Reach(N, next, y), i >= c \/ i <= v
               PROVE  i \in Reach(N, shorter, y)
    OBVIOUS
  <2>1. i \in 1 .. y
    BY ReachBelow
  <2>2. CASE y = c
    <3>0. v \in 0 .. N /\ v <= v /\ \A j \in 1 .. v : shorter[j] = j - 1
      OBVIOUS
    <3>1. Reach(N, shorter, v) = 1 .. v
      BY <1>1, <3>0, ReachAll
    <3>2. Reach(N, shorter, c) = {c} \cup Reach(N, shorter, v)
      BY <1>1, ReachNext
    <3> QED BY <2>1, <2>2, <3>1, <3>2
  <2>3. CASE y # c
    <3>1. c \in Reach(N, next, next[y])
      BY <2>3, ReachNext
    <3>2. shorter[y] = next[y] /\ Reach(N, shorter, y) = {y} \cup Reach(N, shorter, next[y])
      BY <1>1, <2>3, ReachNext
    <3>3. i = y \/ i \in Reach(N, next, next[y])
      BY ReachNext
    <3> QED BY <1>3, <3>1, <3>2, <3>3
  <2> QED BY <2>2, <2>3
<1> HIDE DEF P
<1>4. 0 .. N \subseteq P
  BY <1>2, <1>3, Descend
<1> QED BY <1>4 DEF P

LEMMA ChainIsReach ==
  ASSUME NEW next, NEW from
  PROVE  Chain(next, from) = Reach(Len(objs), next, from)
BY DEF Chain, Reach

-----------------------------------------------------------------------------
(* The invariant *)

\* The scope of the file leads to objects of that name.
Named == \A n \in Funs : fileScope[n] # 0 => objs[fileScope[n]].name = n

\* The shape of an object; the one definition of a function is in the scope.
Shaped(i) ==
  LET o == objs[i]
  IN  /\ o.is_function <=> o.name \in Funs
      /\ o.is_tentative => o.name \in Vars
      /\ o.is_function /\ o.is_definition => fileScope[o.name] = i

\* is_root is what C demands, or comes from the data of the unit.
Rooted(i) ==
  LET o == objs[i]
  IN  o.is_function =>
        /\ Root(o) => o.is_root
        /\ o.is_root => Root(o) \/ (<<0, o.name>> \in uses /\ fileScope[o.name] = i)

ObjectsOK == \A i \in Ids : Shaped(i) /\ Rooted(i)

\* refs and uses tell the same, but for what data refers to.
UsesRecorded ==
  /\ \A i \in Ids : \A n \in objs[i].refs : <<i, n>> \in uses \/ <<0, n>> \in uses
  /\ \A u \in uses : u[1] # 0 => objs[u[1]].is_function /\ u[2] \in objs[u[1]].refs

Parsing == pc \in {"file", "body"}

ScopesOK == /\ pc = "body" => current_fn # 0
            /\ pc # "body" => blockScope = NoNames
            /\ current_fn # 0 => objs[current_fn].is_function

\* Until scan_globals the list holds every object, the youngest first.
Linked ==
  pc \in {"file", "body", "mark"} => globals = Len(objs) /\ \A i \in Ids : nxt[i] = i - 1

\* mark_live marks what is needed, and in the end all of it.
Marked ==
  /\ Parsing => \A i \in Ids : ~ objs[i].is_live
  /\ \A i \in Ids : objs[i].is_live => \A S \in SUBSET Ids : Closed(S) => i \in S
  /\ pc \in {"scan", "done"} => \A i \in Ids : objs[i].is_function /\ Marks(i) => objs[i].is_live

Real(i) == objs[i].is_definition /\ ~ objs[i].is_tentative

OneReal ==
  \A i, j \in Ids :
    Real(i) /\ Real(j) /\ objs[i].name = objs[j].name /\ objs[i].name \in Vars => i = j

\* A tentative definition that has no other definition beside it in S.
Sole(i, S) ==
  objs[i].is_tentative =>
    \A j \in S \ {i} : ~ (objs[j].is_definition /\ objs[j].name = objs[i].name)

\* What scan_globals has kept: the list from head.next to cur.
Kept == Reach(Len(objs),
              IF scanned.cur = 0 THEN nxt ELSE [nxt EXCEPT ![scanned.cur] = 0],
              scanned.head)

Listed == Reach(Len(objs), nxt, globals)

\* What is kept and what is still to be looked at is in the list as it is now,
\* so no tentative definition is kept beside another definition.
Scanning ==
  LET v == scanned.var
      c == scanned.cur
  IN  pc = "scan" =>
        /\ globals = Len(objs)
        /\ \A i \in Ids : nxt[i] < i /\ (i \notin Kept \/ i <= c => nxt[i] = i - 1)
        /\ c = 0 => scanned.head = 0
        /\ c # 0 => v < c /\ c \in Kept
        /\ \A i \in Kept : i \in v + 1 .. Len(objs) /\ c <= i
        /\ \A i \in Ids : v < i /\ ~ objs[i].is_tentative => i \in Kept
        /\ \A i \in Kept : Sole(i, Kept \cup 1 .. i - 1)
        /\ \A i \in Ids : i \in Kept \/ i <= v => i \in Listed

Done ==
  pc = "done" =>
    /\ Listed \subseteq Ids
    /\ \A i \in Ids : ~ objs[i].is_tentative => i \in Listed
    /\ \A i \in Listed : Sole(i, Listed)

IInv == /\ TypeOK
        /\ Named /\ ObjectsOK /\ UsesRecorded /\ ScopesOK /\ OneReal
        /\ Linked /\ Marked /\ Scanning /\ Done

-----------------------------------------------------------------------------
(* Types *)

LEMMA NewObjType ==
  ASSUME NEW n \in Funs \cup Vars \cup {Literal}
  PROVE  NewObj(n) \in Obj
BY DEF NewObj, Obj

LEMMA DeclaredType ==
  ASSUME NEW n \in Funs, NEW attr \in Attrs, NEW isdef \in BOOLEAN
  PROVE  Declared(n, attr, isdef) \in Obj
<1>1. NewObj(n) \in Obj
  BY NewObjType
<1> QED BY <1>1 DEF Declared, Obj, Root, IsStatic, IsInline, IsExtern, NewObj

LEMMA RedeclaredType ==
  ASSUME NEW o \in Obj, NEW isdef \in BOOLEAN
  PROVE  Redeclared(o, isdef) \in Obj
BY DEF Redeclared, Obj, Root

\* new_gvar puts the objects at the front of the list.
LEMMA LinkStep ==
  ASSUME TypeOK, NEW s, NEW m \in {1, 2}, Len(s) = m, Link(s)
  PROVE  /\ Len(objs) + m <= MaxObjs
         /\ nxt' \in Seq(0 .. Len(objs) + m) /\ Len(nxt') = Len(objs) + m
         /\ globals' = Len(objs) + m
         /\ globals = Len(objs) /\ (\A i \in Ids : nxt[i] = i - 1)
            => \A i \in 1 .. Len(objs) + m : nxt'[i] = i - 1
<1> DEFINE add == [k \in 1 .. m |-> IF k = 1 THEN globals ELSE Len(objs) + k - 1]
           S == 0 .. Len(objs) + m
<1>1. Len(objs) \in Nat /\ nxt \in Seq(S) /\ Len(nxt) = Len(objs) /\ globals \in 0 .. Len(objs)
  BY SeqMonotonic DEF TypeOK
<1>2. add \in [1 .. m -> S]
  BY <1>1
<1>3. add \in Seq(S) /\ Len(add) = m
  BY <1>2
<1>4. nxt' = nxt \o add
  BY DEF Link
<1>5. /\ nxt \o add \in Seq(S)
      /\ Len(nxt \o add) = Len(nxt) + Len(add)
      /\ \A i \in 1 .. Len(nxt) + Len(add) :
           (nxt \o add)[i] = IF i <= Len(nxt) THEN nxt[i] ELSE add[i - Len(nxt)]
  BY <1>1, <1>3, ConcatProperties
<1>6. /\ \A i \in 1 .. Len(objs) : nxt'[i] = nxt[i]
      /\ \A k \in 1 .. m : nxt'[Len(objs) + k] = add[k]
  <2> HIDE DEF add, S
  <2> QED BY <1>1, <1>3, <1>4, <1>5
<1>7. add[1] = globals /\ (m = 2 => add[2] = Len(objs) + 1)
  BY <1>1
<1>8. ASSUME globals = Len(objs), \A i \in Ids : nxt[i] = i - 1,
             NEW i \in 1 .. Len(objs) + m
      PROVE  nxt'[i] = i - 1
  <2> HIDE DEF add, S
  <2>1. CASE i \in 1 .. Len(objs)
    BY <1>6, <1>8, <2>1 DEF Ids
  <2>2. CASE i = Len(objs) + 1
    BY <1>1, <1>6, <1>7, <1>8, <2>2
  <2>3. CASE i = Len(objs) + 2 /\ m = 2
    BY <1>1, <1>6, <1>7, <2>3
  <2> QED BY <1>1, <2>1, <2>2, <2>3
<1> QED BY <1>1, <1>3, <1>4, <1>5, <1>8 DEF Link

\* An object is changed, or objects are added.
LEMMA ObjsChanged ==
  ASSUME objs \in Seq(Obj), NEW i \in Ids, NEW o \in Obj
  PROVE  /\ [objs EXCEPT ![i] = o] \in Seq(Obj)
         /\ Len([objs EXCEPT ![i] = o]) = Len(objs)
         /\ \A j \in Ids : [objs EXCEPT ![i] = o][j] = IF j = i THEN o ELSE objs[j]
BY ExceptSeq DEF Ids

LEMMA ObjsAppended ==
  ASSUME NEW s \in Seq(Obj), NEW o \in Obj
  PROVE  /\ Append(s, o) \in Seq(Obj)
         /\ Len(Append(s, o)) = Len(s) + 1
         /\ \A j \in 1 .. Len(s) : Append(s, o)[j] = s[j]
         /\ Append(s, o)[Len(s) + 1] = o
BY AppendProperties

-----------------------------------------------------------------------------
(* Steps of the parser *)

\* Whatever is parsed, nothing is live yet and no list is cut.
LEMMA StillParsing ==
  ASSUME pc' \in {"file", "body", "error"}, \A i \in Ids' : ~ objs'[i].is_live
  PROVE  Marked' /\ Scanning' /\ Done'
BY DEF Marked, Scanning, Done

\* An object changes in is_root and refs.
LEMMA ChangeStep ==
  ASSUME IInv, Parsing, NEW i \in Ids, NEW o \in Obj,
         objs' = [objs EXCEPT ![i] = o],
         o.name = objs[i].name, o.is_function = objs[i].is_function,
         o.is_definition = objs[i].is_definition, o.is_tentative = objs[i].is_tentative,
         o.is_static = objs[i].is_static, o.is_inline = objs[i].is_inline,
         o.is_live = objs[i].is_live,
         o.is_function /\ Root(o) => o.is_root,
         o.is_function /\ o.is_root =>
           Root(o) \/ (<<0, o.name>> \in uses' /\ fileScope[o.name] = i),
         objs[i].refs \subseteq o.refs,
         \A n \in o.refs : <<i, n>> \in uses' \/ <<0, n>> \in uses',
         uses \subseteq uses', uses' \subseteq (0 .. Len(objs)) \X Funs,
         \A u \in uses' \ uses : u[1] # 0 => u[1] = i /\ o.is_function /\ u[2] \in o.refs,
         UNCHANGED <<nxt, globals, fileScope, blockScope, current_fn, pc, scanned>>
  PROVE  IInv'
<1>0. objs \in Seq(Obj) /\ Len(objs) \in Nat
  BY DEF IInv, TypeOK
<1>1. /\ objs' \in Seq(Obj) /\ Len(objs') = Len(objs) /\ Ids' = Ids
      /\ \A j \in Ids : objs'[j] = IF j = i THEN o ELSE objs[j]
  BY <1>0, ObjsChanged DEF Ids
<1>2. TypeOK'
  BY <1>1 DEF IInv, TypeOK
<1>3. Named'
  BY <1>0, <1>1 DEF IInv, TypeOK, Named, Ids
<1>4. ObjectsOK'
  <2> SUFFICES ASSUME NEW j \in Ids PROVE Shaped(j)' /\ Rooted(j)'
    BY <1>1 DEF ObjectsOK
  <2>1. Shaped(j) /\ Rooted(j) /\ Shaped(i) /\ Rooted(i)
    BY DEF IInv, ObjectsOK
  <2>2. CASE j = i
    BY <1>1, <2>1, <2>2 DEF Shaped, Rooted
  <2>3. CASE j # i
    <3>1. objs'[j] = objs[j]
      BY <1>1, <2>3
    <3> QED BY <2>1, <3>1 DEF Shaped, Rooted, Root
  <2> QED BY <2>2, <2>3
<1>5. UsesRecorded'
  <2>1. ASSUME NEW j \in Ids, NEW n \in objs'[j].refs
        PROVE  <<j, n>> \in uses' \/ <<0, n>> \in uses'
    BY <1>1, <2>1 DEF IInv, UsesRecorded
  <2>2. ASSUME NEW u \in uses', u[1] # 0
        PROVE  objs'[u[1]].is_function /\ u[2] \in objs'[u[1]].refs
    <3>1. u[1] \in Ids
      BY <1>0, <2>2 DEF Ids
    <3> QED BY <1>1, <2>2, <3>1 DEF IInv, UsesRecorded
  <2> QED BY <1>1, <2>1, <2>2 DEF UsesRecorded
<1>6. ScopesOK'
  BY <1>0, <1>1 DEF IInv, TypeOK, ScopesOK, Ids
<1>7. OneReal'
  BY <1>1 DEF IInv, OneReal, Real
<1>8. Linked'
  BY <1>1 DEF IInv, Linked
<1>9. Marked' /\ Scanning' /\ Done'
  <2>1. \A j \in Ids' : ~ objs'[j].is_live
    BY <1>1 DEF IInv, Marked
  <2> QED BY <2>1, StillParsing DEF Parsing
<1> QED BY <1>2, <1>3, <1>4, <1>5, <1>6, <1>7, <1>8, <1>9 DEF IInv

\* One object more, which defines no function.
LEMMA AppendStep ==
  ASSUME IInv, Parsing, NEW n \in Funs \cup Vars, NEW o \in Obj,
         objs' = Append(objs, o), Link(<<n>>),
         o.name = n, o.is_function <=> n \in Funs, o.is_tentative => n \in Vars,
         o.is_function => ~ o.is_definition /\ (o.is_root <=> Root(o)),
         o.refs = {}, ~ o.is_live,
         o.is_definition /\ ~ o.is_tentative /\ n \in Vars =>
           ~ \E i \in Ids : objs[i].name = n /\ Real(i),
         fileScope' \in [Funs \cup Vars -> 0 .. Len(objs) + 1],
         \A m \in Funs \cup Vars : fileScope'[m] # fileScope[m] =>
           m = n /\ fileScope'[n] = Len(objs) + 1 /\ (n \in Funs => fileScope[n] = 0),
         blockScope' \in [Funs \cup Vars -> 0 .. Len(objs) + 1],
         pc # "body" => blockScope' = NoNames,
         UNCHANGED <<current_fn, pc, scanned, uses>>
  PROVE  IInv'
<1> SUFFICES ASSUME NEW new, new = Len(objs) + 1 PROVE IInv'
  OBVIOUS
<1>0. objs \in Seq(Obj) /\ Len(objs) \in Nat /\ Len(<<n>>) = 1
  BY DEF IInv, TypeOK
<1>1. /\ objs' \in Seq(Obj) /\ Len(objs') = new
      /\ \A j \in Ids : objs'[j] = objs[j]
      /\ objs'[new] = o
  BY <1>0, ObjsAppended DEF Ids
<1>2. Ids \subseteq Ids' /\ Ids' = Ids \cup {new} /\ new \notin Ids
  BY <1>0, <1>1 DEF Ids
<1>3. globals = Len(objs) /\ \A i \in Ids : nxt[i] = i - 1
  BY DEF IInv, Linked, Parsing
<1>4. /\ new <= MaxObjs
      /\ nxt' \in Seq(0 .. new) /\ Len(nxt') = new
      /\ globals' = new
      /\ \A i \in 1 .. new : nxt'[i] = i - 1
  <2>1. 1 \in {1, 2} /\ TypeOK
    BY DEF IInv
  <2> QED BY <1>0, <1>3, <2>1, LinkStep
<1>5. TypeOK'
  <2>1. 0 .. Len(objs) \subseteq 0 .. new
    BY <1>0
  <2>2. current_fn' \in 0 .. new /\ uses' \subseteq (0 .. new) \X Funs
    BY <2>1 DEF IInv, TypeOK
  <2>3. scanned' \in [var : 0 .. new, cur : 0 .. new, head : 0 .. new]
    BY <2>1 DEF IInv, TypeOK
  <2>4. pc' \in {"file", "body", "mark", "scan", "done", "error"}
    BY DEF IInv, TypeOK
  <2>5. globals' \in 0 .. new
    BY <1>0, <1>4
  <2> QED BY <1>1, <1>4, <2>2, <2>3, <2>4, <2>5 DEF TypeOK
<1>6. \A m \in Funs : fileScope[m] # 0 => fileScope[m] \in Ids
  BY <1>0 DEF IInv, TypeOK, Ids
<1>7. Named'
  BY <1>1, <1>6 DEF IInv, Named
<1>8. ObjectsOK'
  <2>1. ASSUME NEW j \in Ids PROVE Shaped(j)' /\ Rooted(j)'
    <3>1. objs'[j] = objs[j] /\ objs[j] \in Obj /\ j # 0
      BY <1>0, <1>1 DEF Ids
    <3>2. Shaped(j) /\ Rooted(j)
      BY DEF IInv, ObjectsOK
    <3>3. objs[j].is_function /\ fileScope[objs[j].name] = j => fileScope'[objs[j].name] = j
      BY <3>1, <3>2 DEF Shaped
    <3> QED BY <3>1, <3>2, <3>3 DEF Shaped, Rooted
  <2>2. Shaped(new)' /\ Rooted(new)'
    BY <1>1 DEF Shaped, Rooted
  <2> QED BY <1>2, <2>1, <2>2 DEF ObjectsOK
<1>9. UsesRecorded'
  <2>1. \A u \in uses : u[1] # 0 => u[1] \in Ids
    BY <1>0 DEF IInv, TypeOK, Ids
  <2> QED BY <1>1, <1>2, <2>1 DEF IInv, UsesRecorded
<1>10. ScopesOK'
  BY <1>0, <1>1 DEF IInv, TypeOK, ScopesOK, Ids
<1>11. OneReal'
  <2>1. \A j \in Ids : Real(j)' <=> Real(j)
    BY <1>1 DEF Real
  <2>2. Real(new)' <=> o.is_definition /\ ~ o.is_tentative
    BY <1>1 DEF Real
  <2> SUFFICES ASSUME NEW i \in Ids', NEW j \in Ids', Real(i)', Real(j)',
                      objs'[i].name = objs'[j].name, objs'[i].name \in Vars
               PROVE  i = j
    BY DEF OneReal
  <2>3. CASE i = new
    BY <1>1, <1>2, <2>1, <2>2, <2>3
  <2>4. CASE j = new
    BY <1>1, <1>2, <2>1, <2>2, <2>4
  <2>5. CASE i \in Ids /\ j \in Ids
    BY <1>1, <2>1, <2>5 DEF IInv, OneReal
  <2> QED BY <1>2, <2>3, <2>4, <2>5
<1>12. Linked'
  BY <1>1, <1>4 DEF Linked, Ids
<1>13. Marked' /\ Scanning' /\ Done'
  <2>1. \A j \in Ids' : ~ objs'[j].is_live
    BY <1>1, <1>2 DEF IInv, Marked
  <2> QED BY <2>1, StillParsing DEF Parsing
<1> QED BY <1>5, <1>7, <1>8, <1>9, <1>10, <1>11, <1>12, <1>13 DEF IInv

LEMMA DefineStep ==
  ASSUME IInv, NEW n \in Funs, NEW attr \in Attrs, Define(n, attr)
  PROVE  IInv'
<1> SUFFICES ASSUME NEW f, f = current_fn', NEW L, L = Len(objs'), NEW d, d = objs'[f]
             PROVE  IInv'
  OBVIOUS
<1>0. objs \in Seq(Obj) /\ Len(objs) \in Nat /\ fileScope \in [Funs \cup Vars -> 0 .. Len(objs)]
  BY DEF IInv, TypeOK
<1>1. pc = "file" /\ pc' = "body" /\ UNCHANGED <<blockScope, scanned, uses>>
  BY DEF Define
<1>2. globals = Len(objs) /\ \A i \in Ids : nxt[i] = i - 1
  BY <1>1 DEF IInv, Linked
<1>3. NewObj(Literal) \in Obj
  BY NewObjType
<1>4. /\ objs' \in Seq(Obj) /\ L \in {Len(objs) + 1, Len(objs) + 2}
      /\ L <= MaxObjs /\ nxt' \in Seq(0 .. L) /\ Len(nxt') = L /\ globals' = L
      /\ \A i \in 1 .. L : nxt'[i] = i - 1
      /\ f \in Ids' /\ f # L /\ objs'[L] = NewObj(Literal)
      /\ \A j \in Ids' \ {f, L} : j \in Ids /\ objs'[j] = objs[j]
      /\ Ids \subseteq Ids'
      /\ f \in Ids => fileScope[n] = f /\ d.refs = objs[f].refs /\ fileScope' = fileScope
      /\ f \notin Ids => fileScope[n] = 0 /\ d.refs = {} /\ f = Len(objs) + 1
                         /\ fileScope' = [fileScope EXCEPT ![n] = f]
      /\ d.name = n /\ d.is_function /\ ~ d.is_tentative /\ ~ d.is_live
      /\ d.is_root <=> Root(d)
  <2>1. CASE fileScope[n] # 0
    <3> DEFINE o == Redeclared(objs[fileScope[n]], TRUE)
               s == [objs EXCEPT ![fileScope[n]] = o]
    <3>1. fileScope[n] \in Ids /\ objs[fileScope[n]] \in Obj
      BY <1>0, <2>1 DEF Ids
    <3>2. o \in Obj
      BY <3>1, RedeclaredType
    <3>3. /\ s \in Seq(Obj) /\ Len(s) = Len(objs)
          /\ \A j \in Ids : s[j] = IF j = fileScope[n] THEN o ELSE objs[j]
      <4> HIDE DEF o
      <4> QED BY <1>0, <3>1, <3>2, ObjsChanged
    <3>4. /\ objs' = Append(s, NewObj(Literal)) /\ Link(<<Literal>>) /\ f = fileScope[n]
          /\ fileScope' = fileScope
      BY <2>1 DEF Define, FindFunc
    <3>5. /\ objs' \in Seq(Obj) /\ L = Len(objs) + 1 /\ objs'[L] = NewObj(Literal)
          /\ \A j \in Ids : objs'[j] = s[j]
      <4> HIDE DEF s
      <4> QED BY <1>3, <3>3, <3>4, ObjsAppended DEF Ids
    <3>6. /\ L <= MaxObjs /\ nxt' \in Seq(0 .. L) /\ Len(nxt') = L /\ globals' = L
          /\ \A i \in 1 .. L : nxt'[i] = i - 1
      <4>1. Len(<<Literal>>) = 1 /\ 1 \in {1, 2} /\ TypeOK
        BY DEF IInv
      <4>2. /\ Len(objs) + 1 <= MaxObjs
            /\ nxt' \in Seq(0 .. Len(objs) + 1) /\ Len(nxt') = Len(objs) + 1
            /\ globals' = Len(objs) + 1
            /\ \A i \in 1 .. Len(objs) + 1 : nxt'[i] = i - 1
        BY <1>2, <3>4, <4>1, LinkStep
      <4> QED BY <3>5, <4>2
    <3>7. Ids' = Ids \cup {L} /\ L \notin Ids
      BY <1>0, <3>5 DEF Ids
    <3>8. d = o
      BY <3>1, <3>3, <3>4, <3>5
    <3>9. objs[f].name = n /\ objs[f].is_function /\ ~ objs[f].is_tentative /\ ~ objs[f].is_live
      <4>1. objs[f].name = n /\ Shaped(f)
        BY <2>1, <3>1, <3>4 DEF IInv, Named, ObjectsOK
      <4> QED BY <1>1, <3>1, <3>4, <4>1, NamesAssumption DEF Shaped, IInv, Marked, Parsing
    <3>10. /\ d.name = n /\ d.is_function /\ ~ d.is_tentative /\ ~ d.is_live
           /\ d.refs = objs[f].refs /\ (d.is_root <=> Root(d))
      <4>1. d = Redeclared(objs[f], TRUE) /\ objs[f] \in Obj
        BY <3>1, <3>4, <3>8
      <4> QED BY <3>9, <4>1 DEF Redeclared, Obj, Root
    <3> QED BY <3>1, <3>3, <3>4, <3>5, <3>6, <3>7, <3>10
  <2>2. CASE fileScope[n] = 0
    <3> DEFINE o == Declared(n, attr, TRUE)
    <3>1. o \in Obj
      BY DeclaredType
    <3>2. /\ objs' = objs \o <<o, NewObj(Literal)>> /\ Link(<<n, Literal>>)
          /\ f = Len(objs) + 1 /\ fileScope' = [fileScope EXCEPT ![n] = f]
      BY <2>2 DEF Define, FindFunc
    <3>3. /\ objs' \in Seq(Obj) /\ L = Len(objs) + 2 /\ objs'[L] = NewObj(Literal)
          /\ objs'[Len(objs) + 1] = o
          /\ \A j \in Ids : objs'[j] = objs[j]
      <4> HIDE DEF o
      <4> DEFINE t == <<o, NewObj(Literal)>>
      <4>1. t \in Seq(Obj) /\ Len(t) = 2 /\ t[1] = o /\ t[2] = NewObj(Literal)
        BY <1>3, <3>1
      <4> HIDE DEF t
      <4>2. /\ objs \o t \in Seq(Obj) /\ Len(objs \o t) = Len(objs) + Len(t)
            /\ \A i \in 1 .. Len(objs) + Len(t) :
                 (objs \o t)[i] = IF i <= Len(objs) THEN objs[i] ELSE t[i - Len(objs)]
        BY <1>0, <4>1, ConcatProperties
      <4>3. objs' = objs \o t
        BY <3>2 DEF t
      <4> QED BY <1>0, <4>1, <4>2, <4>3 DEF Ids
    <3>4. /\ L <= MaxObjs /\ nxt' \in Seq(0 .. L) /\ Len(nxt') = L /\ globals' = L
          /\ \A i \in 1 .. L : nxt'[i] = i - 1
      <4>1. Len(<<n, Literal>>) = 2 /\ 2 \in {1, 2} /\ TypeOK
        BY DEF IInv
      <4>2. /\ Len(objs) + 2 <= MaxObjs
            /\ nxt' \in Seq(0 .. Len(objs) + 2) /\ Len(nxt') = Len(objs) + 2
            /\ globals' = Len(objs) + 2
            /\ \A i \in 1 .. Len(objs) + 2 : nxt'[i] = i - 1
        BY <1>2, <3>2, <4>1, LinkStep
      <4> QED BY <3>3, <4>2
    <3>5. Ids' = Ids \cup {f, L} /\ f \notin Ids /\ L \notin Ids /\ f # L
      BY <1>0, <3>2, <3>3 DEF Ids
    <3>6. d = Declared(n, attr, TRUE)
      BY <3>2, <3>3
    <3>7. /\ d.name = n /\ d.is_function /\ ~ d.is_tentative /\ ~ d.is_live
          /\ d.refs = {} /\ (d.is_root <=> Root(d))
      BY <3>6 DEF Declared, NewObj, Root
    <3> QED BY <2>2, <3>2, <3>3, <3>4, <3>5, <3>7
  <2> QED BY <2>1, <2>2
<1>5. L \in Nat /\ Ids' = 1 .. L /\ Len(objs) <= L /\ L \notin Ids
  <2>1. L \in {Len(objs) + 1, Len(objs) + 2} /\ L = Len(objs')
    BY <1>4
  <2> QED BY <1>0, <2>1 DEF Ids
<1>6. TypeOK'
  <2>1. 0 .. Len(objs) \subseteq 0 .. L
    BY <1>0, <1>5
  <2>2. f \in 0 .. L /\ uses' \subseteq (0 .. L) \X Funs
    <3>1. f \in 1 .. L
      BY <1>4, <1>5
    <3> QED BY <1>1, <1>5, <2>1, <3>1 DEF IInv, TypeOK
  <2>3. scanned' \in [var : 0 .. L, cur : 0 .. L, head : 0 .. L]
    BY <1>1, <2>1 DEF IInv, TypeOK
  <2>4. fileScope' \in [Funs \cup Vars -> 0 .. L]
    BY <1>0, <1>4, <2>1, <2>2
  <2>5. blockScope' \in [Funs \cup Vars -> 0 .. L]
    BY <1>1, <2>1 DEF IInv, TypeOK
  <2>6. /\ objs' \in Seq(Obj) /\ Len(objs') <= MaxObjs
        /\ nxt' \in Seq(0 .. L) /\ Len(nxt') = L /\ globals' \in 0 .. L
    BY <1>4, <1>5
  <2> QED BY <1>1, <2>2, <2>3, <2>4, <2>5, <2>6 DEF TypeOK
<1>7. fileScope'[n] = f /\ \A m \in Funs \cup Vars : m # n => fileScope'[m] = fileScope[m]
  BY <1>0, <1>4
<1>8. \A m \in Funs : fileScope[m] # 0 => fileScope[m] \in Ids
  BY <1>0 DEF Ids
<1>9. Named'
  <2> SUFFICES ASSUME NEW m \in Funs, m # n, fileScope[m] # 0
               PROVE  objs'[fileScope[m]].name = m
    BY <1>4, <1>7 DEF Named
  <2>1. fileScope[m] \in Ids /\ objs[fileScope[m]].name = m
    BY <1>8 DEF IInv, Named
  <2>2. fileScope[m] # f
    <3>1. f \in Ids => objs[f].name = n
      <4>1. f \in Ids => fileScope[n] = f /\ f # 0
        BY <1>0, <1>4 DEF Ids
      <4> QED BY <4>1 DEF IInv, Named
    <3> QED BY <2>1, <3>1
  <2>3. fileScope[m] # L
    BY <1>5, <2>1
  <2> QED BY <1>4, <2>1, <2>2, <2>3
<1>10. ObjectsOK'
  <2>1. ASSUME NEW j \in Ids' \ {f, L} PROVE Shaped(j)' /\ Rooted(j)'
    <3>0. objs'[j] = objs[j] /\ j \in Ids
      BY <1>4
    <3>1. objs'[j] = objs[j] /\ objs[j] \in Obj /\ j \in Ids /\ j # 0
      BY <1>0, <3>0 DEF Ids
    <3>2. Shaped(j) /\ Rooted(j)
      BY <3>1 DEF IInv, ObjectsOK
    <3>3. objs[j].is_function /\ fileScope[objs[j].name] = j => fileScope'[objs[j].name] = j
      BY <1>4, <1>7, <3>1, <3>2 DEF Shaped
    <3> QED BY <1>1, <3>1, <3>2, <3>3 DEF Shaped, Rooted
  <2>2. Shaped(f)' /\ Rooted(f)'
    BY <1>4, <1>7 DEF Shaped, Rooted
  <2>3. Shaped(L)' /\ Rooted(L)'
    BY <1>4, NamesAssumption DEF Shaped, Rooted, NewObj
  <2> QED BY <2>1, <2>2, <2>3 DEF ObjectsOK
<1>11. UsesRecorded'
  <2>1. ASSUME NEW j \in Ids', NEW m \in objs'[j].refs
        PROVE  <<j, m>> \in uses \/ <<0, m>> \in uses
    <3>1. CASE j = L
      BY <1>4, <2>1, <3>1 DEF NewObj
    <3>2. CASE j = f
      BY <1>4, <2>1, <3>2 DEF IInv, UsesRecorded
    <3>3. CASE j \notin {f, L}
      BY <1>4, <2>1, <3>3 DEF IInv, UsesRecorded
    <3> QED BY <3>1, <3>2, <3>3
  <2>2. ASSUME NEW u \in uses, u[1] # 0
        PROVE  objs'[u[1]].is_function /\ u[2] \in objs'[u[1]].refs
    <3>1. u[1] \in Ids /\ objs[u[1]].is_function /\ u[2] \in objs[u[1]].refs
      BY <1>0, <2>2 DEF IInv, TypeOK, UsesRecorded, Ids
    <3>2. u[1] # L
      BY <1>5, <3>1
    <3>3. CASE u[1] = f
      BY <1>4, <3>1, <3>3
    <3>4. CASE u[1] # f
      BY <1>4, <3>1, <3>2, <3>4
    <3> QED BY <3>3, <3>4
  <2> QED BY <1>1, <2>1, <2>2 DEF UsesRecorded
<1>12. ScopesOK'
  BY <1>1, <1>4, <1>5 DEF ScopesOK
<1>13. OneReal'
  <2>1. d.name \notin Vars /\ objs'[L].name \notin Vars
    BY <1>4, NamesAssumption DEF NewObj
  <2>2. \A j \in Ids' : objs'[j].name \in Vars => j \in Ids /\ objs'[j] = objs[j]
    BY <1>4, <2>1
  <2> QED BY <2>2 DEF IInv, OneReal, Real
<1>14. Linked'
  BY <1>1, <1>4, <1>5 DEF Linked
<1>15. Marked' /\ Scanning' /\ Done'
  <2>1. \A j \in Ids' : ~ objs'[j].is_live
    BY <1>1, <1>4 DEF IInv, Marked, Parsing, NewObj
  <2> QED BY <1>1, <2>1, StillParsing
<1> QED BY <1>6, <1>9, <1>10, <1>11, <1>12, <1>13, <1>14, <1>15 DEF IInv

\* A function that is declared again, but not defined.
LEMMA RedeclareStep ==
  ASSUME IInv, Parsing, NEW n \in Funs, FindFunc(n) # 0,
         objs' = [objs EXCEPT ![FindFunc(n)] = Redeclared(@, FALSE)],
         UNCHANGED <<nxt, globals, fileScope, blockScope, current_fn, pc, scanned, uses>>
  PROVE  IInv'
<1> DEFINE i == fileScope[n]
           o == Redeclared(objs[i], FALSE)
<1>1. i \in Ids /\ objs[i] \in Obj
  BY DEF IInv, TypeOK, FindFunc, Ids
<1>2. o \in Obj
  BY <1>1, RedeclaredType
<1>3. /\ o.name = objs[i].name /\ o.is_function = objs[i].is_function
      /\ o.is_definition = objs[i].is_definition /\ o.is_tentative = objs[i].is_tentative
      /\ o.is_static = objs[i].is_static /\ o.is_inline = objs[i].is_inline
      /\ o.is_live = objs[i].is_live /\ o.refs = objs[i].refs
      /\ o.is_root <=> Root(o)
  BY <1>1 DEF Redeclared, Obj, Root
<1>4. objs' = [objs EXCEPT ![i] = o]
  BY DEF FindFunc
<1>5. \A m \in o.refs : <<i, m>> \in uses' \/ <<0, m>> \in uses'
  BY <1>1, <1>3 DEF IInv, UsesRecorded
<1>6. uses' = uses /\ uses \subseteq (0 .. Len(objs)) \X Funs
  BY DEF IInv, TypeOK
<1> HIDE DEF i, o
<1> QED BY <1>1, <1>2, <1>3, <1>4, <1>5, <1>6, ChangeStep

LEMMA DeclareStep ==
  ASSUME IInv, NEW n \in Funs, NEW attr \in Attrs, Prototype(n, attr)
  PROVE  IInv'
<1>1. Parsing /\ pc = "file"
  BY DEF Prototype, Parsing
<1>2. CASE FindFunc(n) # 0
  BY <1>1, <1>2, RedeclareStep DEF Prototype
<1>3. CASE FindFunc(n) = 0
  <2> DEFINE o == Declared(n, attr, FALSE)
  <2>1. objs' = Append(objs, o) /\ Link(<<n>>)
    BY <1>3 DEF Prototype
  <2>2. Len(objs') = Len(objs) + 1 /\ Len(objs) \in Nat
    <3>1. o \in Obj /\ objs \in Seq(Obj)
      BY DeclaredType DEF IInv, TypeOK
    <3> HIDE DEF o
    <3> QED BY <2>1, <3>1, ObjsAppended
  <2>3. /\ o.name = n /\ o.is_function /\ ~ o.is_tentative /\ ~ o.is_definition
        /\ (o.is_root <=> Root(o)) /\ o.refs = {} /\ ~ o.is_live
    BY DEF Declared, NewObj, Root
  <2>4. /\ fileScope' = [fileScope EXCEPT ![n] = Len(objs) + 1]
        /\ fileScope \in [Funs \cup Vars -> 0 .. Len(objs)] /\ fileScope[n] = 0
        /\ blockScope \in [Funs \cup Vars -> 0 .. Len(objs)] /\ blockScope = NoNames
    BY <1>1, <1>3, <2>2 DEF Prototype, FindFunc, IInv, TypeOK, ScopesOK
  <2>5. /\ fileScope' \in [Funs \cup Vars -> 0 .. Len(objs) + 1]
        /\ blockScope \in [Funs \cup Vars -> 0 .. Len(objs) + 1]
        /\ \A m \in Funs \cup Vars : fileScope'[m] # fileScope[m] =>
             m = n /\ fileScope'[n] = Len(objs) + 1 /\ (n \in Funs => fileScope[n] = 0)
    BY <2>2, <2>4
  <2>6. UNCHANGED <<blockScope, current_fn, pc, scanned, uses>>
    BY <1>3 DEF Prototype
  <2>7. o \in Obj
    BY DeclaredType
  <2> HIDE DEF o
  <2> QED BY <1>1, <2>1, <2>3, <2>4, <2>5, <2>6, <2>7, AppendStep
<1> QED BY <1>2, <1>3

LEMMA BlockStep ==
  ASSUME IInv, NEW n \in Funs, BlockPrototype(n)
  PROVE  IInv'
<1>1. Parsing /\ pc = "body"
  BY DEF BlockPrototype, Parsing
<1>2. CASE FindFunc(n) # 0
  BY <1>1, <1>2, RedeclareStep DEF BlockPrototype
<1>3. CASE FindFunc(n) = 0
  <2> DEFINE o == Declared(n, "", FALSE)
  <2>1. objs' = Append(objs, o) /\ Link(<<n>>)
    BY <1>3 DEF BlockPrototype
  <2>2. o \in Obj
    BY DeclaredType DEF Attrs
  <2>3. Len(objs') = Len(objs) + 1 /\ Len(objs) \in Nat
    <3>1. objs \in Seq(Obj)
      BY DEF IInv, TypeOK
    <3> HIDE DEF o
    <3> QED BY <2>1, <2>2, <3>1, ObjsAppended
  <2>4. /\ o.name = n /\ o.is_function /\ ~ o.is_tentative /\ ~ o.is_definition
        /\ (o.is_root <=> Root(o)) /\ o.refs = {} /\ ~ o.is_live
    BY DEF Declared, NewObj, Root
  <2>5. /\ blockScope' = [blockScope EXCEPT ![n] = Len(objs) + 1]
        /\ fileScope \in [Funs \cup Vars -> 0 .. Len(objs)]
        /\ blockScope \in [Funs \cup Vars -> 0 .. Len(objs)]
    BY <1>3, <2>3 DEF BlockPrototype, IInv, TypeOK
  <2>6. /\ fileScope \in [Funs \cup Vars -> 0 .. Len(objs) + 1]
        /\ blockScope' \in [Funs \cup Vars -> 0 .. Len(objs) + 1]
    BY <2>3, <2>5
  <2>7. UNCHANGED <<fileScope, current_fn, pc, scanned, uses>>
    BY <1>3 DEF BlockPrototype
  <2> HIDE DEF o
  <2> QED BY <1>1, <2>1, <2>2, <2>4, <2>6, <2>7, AppendStep
<1> QED BY <1>2, <1>3

LEMMA VariableStep ==
  ASSUME IInv, NEW v \in Vars, NEW kind \in {"extern", "tentative", "init"}, Variable(v, kind)
  PROVE  IInv'
<1> DEFINE o == [NewObj(v) EXCEPT !.is_static = FALSE, !.is_definition = kind # "extern",
                                  !.is_tentative = kind = "tentative"]
<1>1. Parsing /\ pc = "file" /\ objs' = Append(objs, o) /\ Link(<<v>>)
  BY DEF Variable, Parsing
<1>2. o \in Obj
  BY NewObjType DEF NewObj, Obj
<1>3. Len(objs') = Len(objs) + 1 /\ Len(objs) \in Nat
  <2>1. objs \in Seq(Obj)
    BY DEF IInv, TypeOK
  <2> HIDE DEF o
  <2> QED BY <1>1, <1>2, <2>1, ObjsAppended
<1>4. /\ o.name = v /\ ~ o.is_function /\ o.refs = {} /\ ~ o.is_live
      /\ o.is_definition /\ ~ o.is_tentative => kind = "init"
  BY DEF NewObj
<1>5. kind = "init" => ~ \E i \in Ids : objs[i].name = v /\ Real(i)
  BY DEF Variable, Real
<1>6. /\ fileScope' = [fileScope EXCEPT ![v] = Len(objs) + 1]
      /\ fileScope \in [Funs \cup Vars -> 0 .. Len(objs)]
      /\ blockScope \in [Funs \cup Vars -> 0 .. Len(objs)] /\ blockScope = NoNames
  BY <1>1, <1>3 DEF Variable, IInv, TypeOK, ScopesOK
<1>7. v \notin Funs
  BY NamesAssumption
<1>8. /\ fileScope' \in [Funs \cup Vars -> 0 .. Len(objs) + 1]
      /\ blockScope \in [Funs \cup Vars -> 0 .. Len(objs) + 1]
      /\ \A m \in Funs \cup Vars : fileScope'[m] # fileScope[m] =>
           m = v /\ fileScope'[v] = Len(objs) + 1 /\ (v \in Funs => fileScope[v] = 0)
  BY <1>3, <1>6, <1>7
<1>9. UNCHANGED <<blockScope, current_fn, pc, scanned, uses>>
  BY DEF Variable
<1> HIDE DEF o
<1> QED BY <1>1, <1>2, <1>4, <1>5, <1>6, <1>7, <1>8, <1>9, AppendStep

\* A name of a function in a body or in the data.
LEMMA RecordStep ==
  ASSUME IInv, NEW n \in Funs, Refer(n) \/ ReferInData(n)
  PROVE  IInv'
<1>0. Parsing /\ FindVar(n) # 0 /\ objs' = Recorded(n)
      /\ UNCHANGED <<nxt, globals, fileScope, blockScope, current_fn, pc, scanned>>
  BY DEF Refer, ReferInData, Parsing
<1>1. current_fn \in 0 .. Len(objs) /\ Len(objs) \in Nat /\ objs \in Seq(Obj)
      /\ uses \subseteq (0 .. Len(objs)) \X Funs
  BY DEF IInv, TypeOK
<1>2. uses' = uses \cup {<<current_fn, n>>} \/ uses' = uses \cup {<<0, n>>}
  BY DEF Refer, ReferInData
<1>3. uses' \subseteq (0 .. Len(objs)) \X Funs
  BY <1>1, <1>2
<1>4. CASE current_fn # 0
  <2> DEFINE i == current_fn
             o == [objs[i] EXCEPT !.refs = @ \cup {n}]
  <2>1. i \in Ids /\ objs[i] \in Obj /\ objs[i].is_function
    BY <1>1, <1>4 DEF Ids, IInv, ScopesOK
  <2>2. objs' = [objs EXCEPT ![i] = o]
    BY <1>0, <1>4 DEF Recorded
  <2>3. /\ o \in Obj
        /\ o.name = objs[i].name /\ o.is_function = objs[i].is_function
        /\ o.is_definition = objs[i].is_definition /\ o.is_tentative = objs[i].is_tentative
        /\ o.is_static = objs[i].is_static /\ o.is_inline = objs[i].is_inline
        /\ o.is_live = objs[i].is_live /\ o.is_root = objs[i].is_root
        /\ o.refs = objs[i].refs \cup {n}
    BY <2>1 DEF Obj
  <2>4. Rooted(i)
    BY <2>1 DEF IInv, ObjectsOK
  <2>5. /\ o.is_function /\ Root(o) => o.is_root
        /\ o.is_function /\ o.is_root =>
             Root(o) \/ (<<0, o.name>> \in uses' /\ fileScope[o.name] = i)
    <3> HIDE DEF o
    <3> QED BY <1>2, <2>3, <2>4 DEF Rooted, Root
  <2>6. \A m \in o.refs : <<i, m>> \in uses' \/ <<0, m>> \in uses'
    <3> HIDE DEF o
    <3> QED BY <1>2, <2>1, <2>3 DEF IInv, UsesRecorded
  <2>7. \A u \in uses' \ uses : u[1] # 0 => u[1] = i /\ o.is_function /\ u[2] \in o.refs
    <3> HIDE DEF o
    <3> QED BY <1>2, <2>1, <2>3
  <2>8. uses \subseteq uses' /\ objs[i].refs \subseteq o.refs
    <3> HIDE DEF o
    <3> QED BY <1>2, <2>3
  <2> HIDE DEF i, o
  <2> QED BY <1>0, <1>3, <2>1, <2>2, <2>3, <2>5, <2>6, <2>7, <2>8, ChangeStep
<1>5. CASE current_fn = 0
  <2> DEFINE i == FindVar(n)
             o == [objs[i] EXCEPT !.is_root = TRUE]
  <2>1. pc = "file" /\ uses' = uses \cup {<<0, n>>}
    BY <1>0, <1>2, <1>5 DEF IInv, ScopesOK, Parsing
  <2>2. i = fileScope[n] /\ fileScope[n] # 0
    BY <1>0, <2>1 DEF FindVar, IInv, ScopesOK, NoNames
  <2>3. i \in Ids /\ objs[i] \in Obj /\ objs[i].name = n
    BY <1>1, <2>2 DEF Ids, IInv, TypeOK, Named
  <2>4. objs' = [objs EXCEPT ![i] = o]
    BY <1>0, <1>5 DEF Recorded
  <2>5. /\ o \in Obj
        /\ o.name = objs[i].name /\ o.is_function = objs[i].is_function
        /\ o.is_definition = objs[i].is_definition /\ o.is_tentative = objs[i].is_tentative
        /\ o.is_static = objs[i].is_static /\ o.is_inline = objs[i].is_inline
        /\ o.is_live = objs[i].is_live /\ o.is_root /\ o.refs = objs[i].refs
    BY <2>3 DEF Obj
  <2>6. \A m \in o.refs : <<i, m>> \in uses' \/ <<0, m>> \in uses'
    <3> HIDE DEF o
    <3> QED BY <2>1, <2>3, <2>5 DEF IInv, UsesRecorded
  <2>7. <<0, o.name>> \in uses' /\ fileScope[o.name] = i
    <3> HIDE DEF o
    <3> QED BY <2>1, <2>2, <2>3, <2>5
  <2>8. \A u \in uses' \ uses : u[1] = 0
    BY <2>1
  <2>9. uses \subseteq uses' /\ objs[i].refs \subseteq o.refs
    <3> HIDE DEF o
    <3> QED BY <2>1, <2>5
  <2> HIDE DEF i, o
  <2> QED BY <1>0, <1>3, <2>3, <2>4, <2>5, <2>6, <2>7, <2>8, <2>9, ChangeStep
<1> QED BY <1>4, <1>5

\* The brace that ends a body, an error, the end of the file.
LEMMA EndStep ==
  ASSUME IInv, EndBody \/ EndOfFile \/ \E n \in Funs, attr \in Attrs, isdef \in BOOLEAN :
                                         Reject(n, attr, isdef)
  PROVE  IInv'
<1>1. /\ Parsing /\ pc' \in {"file", "mark", "error"}
      /\ blockScope' \in {blockScope, NoNames} /\ (pc = "body" => blockScope' = NoNames)
      /\ UNCHANGED <<objs, nxt, globals, fileScope, current_fn, scanned, uses>>
  BY DEF EndBody, EndOfFile, Reject, Parsing
<1>2. Len(objs) \in Nat
  BY DEF IInv, TypeOK
<1>3. TypeOK'
  <2>1. NoNames \in [Funs \cup Vars -> 0 .. Len(objs)]
    BY <1>2 DEF NoNames
  <2> QED BY <1>1, <2>1 DEF IInv, TypeOK
<1>4. Named' /\ UsesRecorded' /\ OneReal'
  BY <1>1 DEF IInv, Named, UsesRecorded, OneReal, Real, Ids
<1>5. ObjectsOK'
  BY <1>1 DEF IInv, ObjectsOK, Shaped, Rooted, Ids
<1>6. ScopesOK' /\ Linked'
  BY <1>1 DEF IInv, ScopesOK, Linked, Parsing, Ids
<1>7. Marked' /\ Scanning' /\ Done'
  BY <1>1 DEF IInv, Marked, Scanning, Done, Parsing, Ids
<1> QED BY <1>3, <1>4, <1>5, <1>6, <1>7 DEF IInv

-----------------------------------------------------------------------------
(* mark_live and scan_globals *)

\* Marking changes is_live only, and that is not what Closed is about.
LEMMA MarkStep ==
  ASSUME IInv, NEW i \in Ids, MarkLive(i)
  PROVE  IInv'
<1> DEFINE o == [objs[i] EXCEPT !.is_live = TRUE]
<1>1. /\ pc = "mark" /\ Marks(i) /\ objs' = [objs EXCEPT ![i] = o]
      /\ UNCHANGED <<nxt, globals, fileScope, blockScope, current_fn, pc, scanned, uses>>
  BY DEF MarkLive
<1>2. objs \in Seq(Obj) /\ objs[i] \in Obj
  BY DEF IInv, TypeOK, Ids
<1>3. /\ o \in Obj
      /\ o.name = objs[i].name /\ o.is_function = objs[i].is_function
      /\ o.is_definition = objs[i].is_definition /\ o.is_tentative = objs[i].is_tentative
      /\ o.is_static = objs[i].is_static /\ o.is_inline = objs[i].is_inline
      /\ o.is_root = objs[i].is_root /\ o.refs = objs[i].refs
  BY <1>2 DEF Obj
<1>4. /\ objs' \in Seq(Obj) /\ Len(objs') = Len(objs) /\ Ids' = Ids
      /\ \A j \in Ids : objs'[j] = IF j = i THEN o ELSE objs[j]
  <2> HIDE DEF o
  <2> QED BY <1>1, <1>2, <1>3, ObjsChanged DEF Ids
<1> HIDE DEF o
<1>5. \A j \in Ids : /\ objs'[j].name = objs[j].name
                     /\ objs'[j].is_function = objs[j].is_function
                     /\ objs'[j].is_definition = objs[j].is_definition
                     /\ objs'[j].is_tentative = objs[j].is_tentative
                     /\ objs'[j].is_root = objs[j].is_root
                     /\ objs'[j].refs = objs[j].refs
                     /\ Root(objs'[j]) = Root(objs[j])
                     /\ j # i => objs'[j] = objs[j]
  BY <1>3, <1>4 DEF Root
<1>6. TypeOK'
  BY <1>1, <1>4 DEF IInv, TypeOK
<1>7. Named'
  <2>1. \A n \in Funs : fileScope[n] # 0 => fileScope[n] \in Ids
    BY DEF IInv, TypeOK, Ids
  <2> QED BY <1>1, <1>5, <2>1 DEF IInv, Named
<1>8. ObjectsOK'
  <2> SUFFICES ASSUME NEW j \in Ids PROVE Shaped(j)' /\ Rooted(j)'
    BY <1>4 DEF ObjectsOK
  <2>1. Shaped(j) /\ Rooted(j)
    BY DEF IInv, ObjectsOK
  <2> QED BY <1>1, <1>5, <2>1 DEF Shaped, Rooted
<1>9. UsesRecorded'
  <2>1. \A u \in uses : u[1] # 0 => u[1] \in Ids
    BY DEF IInv, TypeOK, Ids
  <2> QED BY <1>1, <1>4, <1>5, <2>1 DEF IInv, UsesRecorded
<1>10. ScopesOK'
  BY <1>1, <1>5 DEF IInv, TypeOK, ScopesOK, Ids
<1>11. OneReal'
  BY <1>4, <1>5 DEF IInv, OneReal, Real
<1>12. Linked'
  BY <1>1, <1>4 DEF IInv, Linked
<1>13. \A S \in SUBSET Ids : Closed(S)' => Closed(S)
  BY <1>1, <1>4, <1>5 DEF Closed, FindFunc
<1>14. ASSUME NEW S \in SUBSET Ids, Closed(S) PROVE i \in S
  <2>1. Rooted(i) /\ objs[i].is_function
    BY DEF IInv, ObjectsOK, MarkLive
  <2>2. CASE objs[i].is_root
    <3>1. Root(objs[i]) => i \in S
      BY <1>14, <2>1 DEF Closed
    <3>2. ASSUME <<0, objs[i].name>> \in uses, fileScope[objs[i].name] = i PROVE i \in S
      <4>1. i # 0
        BY DEF Ids
      <4> QED BY <1>14, <3>2, <4>1 DEF Closed, FindFunc
    <3> QED BY <2>1, <2>2, <3>1, <3>2 DEF Rooted
  <2>3. ASSUME NEW j \in Ids, objs[j].is_live, NEW n \in objs[j].refs, FindFunc(n) = i
        PROVE  i \in S
    <3>1. j \in S
      BY <1>14, <2>3 DEF IInv, Marked
    <3>2. <<j, n>> \in uses \/ <<0, n>> \in uses
      BY <2>3 DEF IInv, UsesRecorded
    <3>3. i # 0
      BY DEF Ids
    <3> QED BY <1>14, <2>3, <3>1, <3>2, <3>3 DEF Closed
  <2> QED BY <1>1, <2>2, <2>3 DEF Marks
<1>15. Marked'
  <2>1. ASSUME NEW j \in Ids, objs'[j].is_live, NEW S \in SUBSET Ids, Closed(S)'
        PROVE  j \in S
    <3>1. Closed(S)
      BY <1>13, <2>1
    <3>2. CASE j = i
      BY <1>14, <3>1, <3>2
    <3>3. CASE j # i
      BY <1>5, <2>1, <3>1, <3>3 DEF IInv, Marked
    <3> QED BY <3>2, <3>3
  <2> QED BY <1>1, <1>4, <2>1 DEF Marked, Parsing
<1>16. Scanning' /\ Done'
  BY <1>1 DEF Scanning, Done
<1> QED BY <1>6, <1>7, <1>8, <1>9, <1>10, <1>11, <1>12, <1>15, <1>16 DEF IInv

\* From mark_live on only the list changes.
LEMMA ListStep ==
  ASSUME IInv, pc \in {"mark", "scan"}, pc' \in {"scan", "done"}, TypeOK',
         pc = "mark" => \A i \in Ids : objs[i].is_function /\ Marks(i) => objs[i].is_live,
         UNCHANGED <<objs, fileScope, blockScope, current_fn, uses>>
  PROVE  /\ Named' /\ ObjectsOK' /\ UsesRecorded' /\ ScopesOK' /\ OneReal'
         /\ Linked' /\ Marked'
<1>1. Named' /\ UsesRecorded' /\ OneReal'
  BY DEF IInv, Named, UsesRecorded, OneReal, Real, Ids
<1>2. ObjectsOK'
  BY DEF IInv, ObjectsOK, Shaped, Rooted, Ids
<1>3. ScopesOK' /\ Linked'
  BY DEF IInv, ScopesOK, Linked
<1>4. Marked'
  <2>1. \A S : Closed(S)' <=> Closed(S)
    BY DEF Closed, FindFunc, Ids
  <2>2. \A i : Marks(i)' <=> Marks(i)
    BY DEF Marks, FindFunc, Ids
  <2> QED BY <2>1, <2>2 DEF IInv, Marked, Parsing, Ids
<1> QED BY <1>1, <1>2, <1>3, <1>4

\* The list before the scan: every object.
LEMMA MarkDoneStep ==
  ASSUME IInv, MarkDone
  PROVE  IInv'
<1> DEFINE N == Len(objs)
<1>0. /\ pc = "mark" /\ pc' = "scan"
      /\ UNCHANGED <<objs, nxt, globals, fileScope, blockScope, current_fn, uses>>
      /\ scanned' = [var |-> globals, cur |-> 0, head |-> 0]
  BY DEF MarkDone
<1>1. TypeOK'
  BY <1>0 DEF IInv, TypeOK
<1>2. /\ globals = N /\ N \in Nat /\ \A i \in 1 .. N : nxt[i] = i - 1
  BY <1>0 DEF IInv, TypeOK, Linked, Ids
<1>3. Falling(N, nxt)
  BY <1>2 DEF Falling
<1>4. Kept' = {}
  BY <1>0, <1>2, <1>3, ReachNext DEF Kept
<1>5. Listed' = 1 .. N
  <2>1. N \in 0 .. N /\ N <= N
    BY <1>2
  <2>2. Reach(N, nxt, N) = 1 .. N
    BY <1>2, <1>3, <2>1, ReachAll
  <2> QED BY <1>0, <1>2, <2>2 DEF Listed
<1>6. Scanning'
  <2>1. scanned'.var = N /\ scanned'.cur = 0 /\ scanned'.head = 0 /\ globals' = N /\ Ids' = 1 .. N
    BY <1>0, <1>2 DEF Ids
  <2> QED BY <1>0, <1>2, <1>4, <1>5, <2>1 DEF Scanning
<1>7. Done'
  BY <1>0 DEF Done
<1>8. \A i \in Ids : objs[i].is_function /\ Marks(i) => objs[i].is_live
  BY DEF MarkDone
<1> QED BY <1>0, <1>1, <1>6, <1>7, <1>8, ListStep DEF IInv

LEMMA ScanningFacts ==
  ASSUME IInv, pc = "scan"
  PROVE  /\ Len(objs) \in Nat /\ globals = Len(objs) /\ Falling(Len(objs), nxt)
         /\ scanned.var \in 0 .. Len(objs) /\ scanned.cur \in 0 .. Len(objs)
         /\ scanned.head \in 0 .. Len(objs)
         /\ \A i \in 1 .. Len(objs) : nxt[i] \in 0 .. Len(objs)
<1>1. /\ Len(objs) \in Nat /\ nxt \in Seq(0 .. Len(objs)) /\ Len(nxt) = Len(objs)
      /\ scanned \in [var : 0 .. Len(objs), cur : 0 .. Len(objs), head : 0 .. Len(objs)]
  BY DEF IInv, TypeOK
<1>2. \A i \in 1 .. Len(objs) : nxt[i] \in 0 .. Len(objs)
  BY <1>1, ElementOfSeq
<1>3. globals = Len(objs) /\ \A i \in 1 .. Len(objs) : nxt[i] < i
  BY DEF IInv, Scanning, Ids
<1>4. Falling(Len(objs), nxt)
  BY <1>1, <1>2, <1>3 DEF Falling
<1> QED BY <1>1, <1>2, <1>3, <1>4

LEMMA DropStep ==
  ASSUME IInv, Drop
  PROVE  IInv'
<1> DEFINE N == Len(objs)
           v == scanned.var
<1>0. /\ pc = "scan" /\ pc' = "scan" /\ v # 0 /\ Redundant(v)
      /\ UNCHANGED <<objs, nxt, globals, fileScope, blockScope, current_fn, uses>>
      /\ scanned' = [scanned EXCEPT !.var = nxt[v]]
  BY DEF Drop
<1>1. /\ N \in Nat /\ globals = N /\ Falling(N, nxt) /\ v \in 1 .. N
      /\ \A i \in 1 .. N : nxt[i] \in 0 .. N
  BY <1>0, ScanningFacts
<1>2. TypeOK'
  BY <1>0, <1>1 DEF IInv, TypeOK
<1>3. Scanning
  BY DEF IInv
<1>4. nxt[v] = v - 1
  BY <1>0, <1>1, <1>3 DEF Scanning, Ids
<1>5. scanned'.var = v - 1 /\ scanned'.cur = scanned.cur /\ scanned'.head = scanned.head
  BY <1>0, <1>4 DEF IInv, TypeOK
<1>6. Kept' = Kept /\ Listed' = Listed /\ Ids' = 1 .. N /\ Ids = 1 .. N
  BY <1>0, <1>5 DEF Kept, Listed, Ids
<1>7. \A i, S : Sole(i, S)' <=> Sole(i, S)
  BY <1>0 DEF Sole
<1>8. objs[v].is_tentative
  BY <1>0 DEF Redundant
<1>9. Scanning'
  <2>1. \A i \in 1 .. N : v - 1 < i <=> (i = v \/ v < i)
    BY <1>1
  <2>2. \A i \in 1 .. N : i <= v - 1 => i <= v
    BY <1>1
  <2>3. \A i \in Kept : i \in (v - 1) + 1 .. N
    <3>1. \A i \in Kept : i \in v + 1 .. N
      BY <1>0, <1>3 DEF Scanning
    <3> QED BY <1>1, <3>1
  <2>4. scanned.cur # 0 => v - 1 < scanned.cur
    BY <1>0, <1>1, <1>3, ScanningFacts DEF Scanning
  <2> QED BY <1>0, <1>1, <1>3, <1>5, <1>6, <1>7, <1>8, <2>1, <2>2, <2>3, <2>4 DEF Scanning
<1>10. Done'
  BY <1>0 DEF Done
<1> QED BY <1>0, <1>2, <1>9, <1>10, ListStep DEF IInv

\* A tentative definition is kept if the list holds no other definition.
LEMMA KeepStep ==
  ASSUME IInv, Keep
  PROVE  IInv'
<1> SUFFICES ASSUME NEW N, N = Len(objs), NEW v, v = scanned.var, NEW c, c = scanned.cur
             PROVE  IInv'
  OBVIOUS
<1>0. /\ pc = "scan" /\ pc' = "scan" /\ v # 0 /\ ~ Redundant(v)
      /\ UNCHANGED <<objs, globals, fileScope, blockScope, current_fn, uses>>
  BY DEF Keep
<1>1. /\ N \in Nat /\ globals = N /\ Falling(N, nxt) /\ v \in 1 .. N /\ c \in 0 .. N
      /\ scanned.head \in 0 .. N
      /\ \A i \in 1 .. N : nxt[i] \in 0 .. N
  BY <1>0, ScanningFacts
<1>2. /\ Ids = 1 .. N /\ Ids' = 1 .. N /\ nxt \in Seq(0 .. N) /\ Len(nxt) = N
      /\ scanned \in [var : 0 .. N, cur : 0 .. N, head : 0 .. N]
  BY <1>0 DEF Ids, IInv, TypeOK
<1>3. /\ \A i \in 1 .. N : nxt[i] < i /\ (i \notin Kept \/ i <= c => nxt[i] = i - 1)
      /\ c = 0 => scanned.head = 0
      /\ c # 0 => v < c /\ c \in Kept
      /\ \A i \in Kept : i \in v + 1 .. N /\ c <= i
      /\ \A i \in 1 .. N : v < i /\ ~ objs[i].is_tentative => i \in Kept
      /\ \A i \in Kept : Sole(i, Kept \cup 1 .. i - 1)
      /\ \A i \in 1 .. N : i \in Kept \/ i <= v => i \in Listed
  BY <1>0, <1>2 DEF IInv, Scanning
<1>4. v \notin Kept /\ nxt[v] = v - 1
  BY <1>1, <1>3
<1>5. Sole(v, Kept \cup 1 .. v)
  <2>1. Listed = Chain(nxt, globals)
    BY ChainIsReach DEF Listed
  <2>2. Kept \cup 1 .. v \subseteq Listed
    BY <1>1, <1>3
  <2> QED BY <1>0, <2>1, <2>2 DEF Redundant, OtherDefinition, Sole
<1>6. \A i, S : Sole(i, S)' <=> Sole(i, S)
  BY <1>0 DEF Sole
<1>7. /\ scanned'.var = v - 1 /\ scanned'.cur = v
      /\ scanned' \in [var : 0 .. N, cur : 0 .. N, head : 0 .. N]
      /\ nxt' \in Seq(0 .. N) /\ Len(nxt') = N
      /\ Kept' = Kept \cup {v}
      /\ \A i \in 1 .. N : nxt'[i] < i /\ (i \notin Kept' \/ i <= v => nxt'[i] = i - 1)
      /\ \A i \in 1 .. N : i \in Kept' \/ i <= v - 1 => i \in Listed'
  <2>1. CASE c = 0
    <3>1. nxt' = nxt /\ scanned' = [var |-> v - 1, cur |-> v, head |-> v]
      BY <1>4, <2>1 DEF Keep
    <3>2. Kept = {}
      <4>1. Kept = Reach(N, nxt, 0)
        BY <1>3, <2>1 DEF Kept
      <4> QED BY <1>1, <4>1, ReachNext
    <3>3. Kept' = {v}
      <4> DEFINE cut == [nxt EXCEPT ![v] = 0]
      <4>1. Kept' = Reach(N, cut, v)
        BY <1>0, <1>1, <3>1 DEF Kept
      <4>2. cut[v] = 0 /\ \A i \in 1 .. N : i # v => cut[i] = nxt[i]
        BY <1>1, <1>2
      <4> HIDE DEF cut
      <4>3. Falling(N, cut)
        BY <1>1, <4>2 DEF Falling
      <4>4. Reach(N, cut, v) = {v} \cup Reach(N, cut, 0) /\ Reach(N, cut, 0) = {}
        BY <1>1, <4>2, <4>3, ReachNext
      <4> QED BY <4>1, <4>4
    <3>4. Listed' = Listed
      BY <1>0, <3>1 DEF Listed
    <3>5. \A i \in 1 .. N : nxt[i] = i - 1
      BY <1>3, <3>2
    <3> QED BY <1>1, <1>2, <1>3, <3>1, <3>2, <3>3, <3>4, <3>5
  <2>2. CASE c # 0
    <3>1. nxt' = [nxt EXCEPT ![c] = v] /\ scanned' = [scanned EXCEPT !.var = v - 1, !.cur = v]
      BY <1>4, <2>2 DEF Keep
    <3>2. /\ nxt' \in Seq(0 .. N) /\ Len(nxt') = N
          /\ \A i \in 1 .. N : nxt'[i] = IF i = c THEN v ELSE nxt[i]
      <4>1. c \in 1 .. Len(nxt) /\ v \in 0 .. N
        BY <1>1, <1>2, <2>2
      <4> QED BY <1>2, <3>1, <4>1, ExceptSeq
    <3>3. /\ scanned'.var = v - 1 /\ scanned'.cur = v /\ scanned'.head = scanned.head
          /\ scanned' \in [var : 0 .. N, cur : 0 .. N, head : 0 .. N]
      <4>1. v - 1 \in 0 .. N /\ v \in 0 .. N
        BY <1>1
      <4> QED BY <1>2, <3>1, <4>1
    <3>4. c \in 1 .. N /\ v \in 1 .. c - 1 /\ c \in Kept
      BY <1>1, <1>3, <2>2
    <3>5. Kept' = Kept \cup {v}
      <4> SUFFICES ASSUME NEW cut, cut = [nxt EXCEPT ![c] = 0],
                          NEW longer, longer = [nxt' EXCEPT ![v] = 0]
                   PROVE  Kept' = Kept \cup {v}
        OBVIOUS
      <4>1. cut[c] = 0 /\ \A i \in 1 .. N : i # c => cut[i] = nxt[i]
        BY <1>2, <3>4
      <4>2. longer[v] = 0 /\ longer[c] = v /\ \A i \in 1 .. N : i # c /\ i # v => longer[i] = nxt[i]
        BY <1>1, <3>2, <3>4
      <4>3. Kept = Reach(N, cut, scanned.head)
        BY <2>2 DEF Kept
      <4>4. Kept' = Reach(N, longer, scanned.head)
        BY <1>0, <1>1, <3>3 DEF Kept
      <4>5. Falling(N, cut)
        BY <1>1, <4>1 DEF Falling
      <4>6. c \in Reach(N, cut, scanned.head)
        BY <3>4, <4>3
      <4>7. /\ N \in Nat /\ c \in 1 .. N /\ v \in 1 .. c - 1
            /\ cut[c] = 0 /\ longer[c] = v /\ longer[v] = 0
            /\ \A i \in 1 .. N : i # c /\ i # v => longer[i] = cut[i]
        BY <1>1, <3>4, <4>1, <4>2
      <4>8. \A x \in 0 .. N : c \in Reach(N, cut, x) =>
              Reach(N, longer, x) = Reach(N, cut, x) \cup {v}
        BY ONLY <4>5, <4>7, ReachExtended
      <4> QED BY <1>1, <4>3, <4>4, <4>6, <4>8
    <3>6. ASSUME NEW i \in 1 .. N
          PROVE  nxt'[i] < i /\ (i \notin Kept' \/ i <= v => nxt'[i] = i - 1)
      <4>1. CASE i = c
        BY <1>1, <3>2, <3>4, <3>5, <4>1
      <4>2. CASE i # c
        <5>1. nxt'[i] = nxt[i] /\ nxt[i] < i
          BY <1>3, <3>2, <4>2
        <5>2. i \notin Kept' => i \notin Kept
          BY <3>5
        <5>3. i <= v => i <= c
          BY <1>1, <3>4
        <5> QED BY <1>3, <5>1, <5>2, <5>3
      <4> QED BY <4>1, <4>2
    <3>7. ASSUME NEW i \in 1 .. N, i \in Kept' \/ i <= v - 1 PROVE i \in Listed'
      <4>1. Listed = Reach(N, nxt, N) /\ Listed' = Reach(N, nxt', N)
        BY <1>0, <1>1 DEF Listed
      <4>2. \A j \in 1 .. c : nxt[j] = j - 1
        BY <1>1, <1>3
      <4>3. nxt'[c] = v /\ \A j \in 1 .. N : j # c => nxt'[j] = nxt[j]
        BY <3>2, <3>4
      <4>4. c \in Reach(N, nxt, N)
        BY <1>3, <3>4, <4>1
      <4>5. \A x \in 0 .. N : c \in Reach(N, nxt, x) =>
              \A j \in Reach(N, nxt, x) : j >= c \/ j <= v => j \in Reach(N, nxt', x)
        <5> SUFFICES ASSUME NEW shorter, shorter = nxt'
                     PROVE  \A x \in 0 .. N : c \in Reach(N, nxt, x) =>
                              \A j \in Reach(N, nxt, x) :
                                j >= c \/ j <= v => j \in Reach(N, shorter, x)
          OBVIOUS
        <5>1. N \in Nat /\ Falling(N, nxt) /\ c \in 1 .. N /\ v \in 1 .. c - 1
          BY <1>1, <3>4
        <5>2. shorter[c] = v /\ \A j \in 1 .. N : j # c => shorter[j] = nxt[j]
          BY <4>3
        <5> QED BY ONLY <4>2, <5>1, <5>2, ReachShortcut
      <4>6. i \in Listed /\ (i >= c \/ i <= v)
        BY <1>1, <1>3, <3>4, <3>5, <3>7
      <4> QED BY <1>1, <4>1, <4>4, <4>5, <4>6
    <3> QED BY <3>2, <3>3, <3>5, <3>6, <3>7
  <2> QED BY <2>1, <2>2
<1>8. TypeOK'
  BY <1>0, <1>7 DEF IInv, TypeOK
<1>9. Scanning'
  <2>1. \A i \in Kept' : i \in (v - 1) + 1 .. N /\ v <= i
    BY <1>1, <1>3, <1>7
  <2>2. \A i \in 1 .. N : v - 1 < i /\ ~ objs[i].is_tentative => i \in Kept'
    BY <1>1, <1>3, <1>7
  <2>3. ASSUME NEW i \in Kept' PROVE Sole(i, Kept' \cup 1 .. i - 1)
    <3>1. CASE i = v
      <4>1. Kept' \cup 1 .. i - 1 \subseteq Kept \cup 1 .. v
        BY <1>1, <1>7, <3>1
      <4> QED BY <1>5, <3>1, <4>1 DEF Sole
    <3>2. CASE i \in Kept
      <4>1. v \in 1 .. i - 1
        BY <1>1, <1>3, <3>2
      <4>2. Kept' \cup 1 .. i - 1 = Kept \cup 1 .. i - 1
        BY <1>7, <4>1
      <4> QED BY <1>3, <3>2, <4>2
    <3> QED BY <1>7, <3>1, <3>2
  <2>4. v # 0 /\ v - 1 < v /\ v \in Kept'
    BY <1>1, <1>7
  <2>5. globals' = N /\ Len(objs') = N
    BY <1>0, <1>1
  <2> QED BY <1>0, <1>2, <1>6, <1>7, <2>1, <2>2, <2>3, <2>4, <2>5 DEF Scanning
<1>10. Done'
  BY <1>0 DEF Done
<1> QED BY <1>0, <1>8, <1>9, <1>10, ListStep DEF IInv

LEMMA ScanDoneStep ==
  ASSUME IInv, ScanDone
  PROVE  IInv'
<1> SUFFICES ASSUME NEW N, N = Len(objs), NEW c, c = scanned.cur PROVE IInv'
  OBVIOUS
<1>0. /\ pc = "scan" /\ pc' = "done" /\ scanned.var = 0
      /\ nxt' = (IF c = 0 THEN nxt ELSE [nxt EXCEPT ![c] = 0])
      /\ globals' = scanned.head
      /\ UNCHANGED <<objs, fileScope, blockScope, current_fn, scanned, uses>>
  BY DEF ScanDone
<1>1. /\ N \in Nat /\ c \in 0 .. N /\ scanned.head \in 0 .. N
      /\ nxt \in Seq(0 .. N) /\ Len(nxt) = N /\ Ids = 1 .. N /\ Ids' = 1 .. N
  BY <1>0, ScanningFacts DEF IInv, TypeOK, Ids
<1>2. nxt' \in Seq(0 .. N) /\ Len(nxt') = N
  <2>1. CASE c = 0
    BY <1>0, <1>1, <2>1
  <2>2. CASE c # 0
    <3>1. c \in 1 .. Len(nxt) /\ 0 \in 0 .. N
      BY <1>1, <2>2
    <3> QED BY <1>0, <1>1, <2>2, <3>1, ExceptSeq
  <2> QED BY <2>1, <2>2
<1>3. TypeOK'
  BY <1>0, <1>1, <1>2 DEF IInv, TypeOK
<1>4. Listed' = Kept
  BY <1>0 DEF Listed, Kept
<1>5. /\ \A i \in Kept : i \in 1 .. N
      /\ \A i \in 1 .. N : ~ objs[i].is_tentative => i \in Kept
      /\ \A i \in Kept : Sole(i, Kept \cup 1 .. i - 1)
  BY <1>0, <1>1 DEF IInv, Scanning
<1>6. Done'
  <2>1. \A i \in Kept : Sole(i, Kept)
    BY <1>5 DEF Sole
  <2>2. \A i, S : Sole(i, S)' <=> Sole(i, S)
    BY <1>0 DEF Sole
  <2> QED BY <1>0, <1>1, <1>4, <1>5, <2>1, <2>2 DEF Done
<1>7. Scanning'
  BY <1>0 DEF Scanning
<1> QED BY <1>0, <1>3, <1>6, <1>7, ListStep DEF IInv


-----------------------------------------------------------------------------
(* The theorems *)

LEMMA InitInvariant == Init => IInv
<1> SUFFICES ASSUME Init PROVE IInv
  OBVIOUS
<1>1. /\ objs = << >> /\ nxt = << >> /\ globals = 0 /\ pc = "file" /\ current_fn = 0
      /\ fileScope = NoNames /\ blockScope = NoNames /\ uses = {}
      /\ scanned = [var |-> 0, cur |-> 0, head |-> 0]
      /\ Len(objs) = 0 /\ Ids = {}
  BY DEF Init, Ids
<1>2. TypeOK
  BY <1>1, BoundAssumption DEF TypeOK, NoNames
<1>3. Named /\ ObjectsOK /\ UsesRecorded /\ ScopesOK /\ OneReal
  BY <1>1 DEF Named, ObjectsOK, UsesRecorded, ScopesOK, OneReal, NoNames
<1>4. Linked /\ Marked /\ Scanning /\ Done
  BY <1>1 DEF Linked, Marked, Scanning, Done
<1> QED BY <1>2, <1>3, <1>4 DEF IInv

LEMMA UnchangedInvariant ==
  ASSUME IInv, UNCHANGED vars
  PROVE  IInv'
<1>1. TypeOK'
  BY DEF IInv, TypeOK, vars
<1>2. Named' /\ ObjectsOK' /\ UsesRecorded' /\ ScopesOK' /\ OneReal' /\ Linked'
  BY DEF IInv, vars, Ids, Named, ObjectsOK, Shaped, Rooted, UsesRecorded, ScopesOK, OneReal,
         Real, Linked
<1>3. Marked'
  BY DEF IInv, vars, Ids, Marked, Parsing, Closed, Marks, FindFunc
<1>4. Scanning' /\ Done'
  <2>1. Kept' = Kept /\ Listed' = Listed /\ Ids' = Ids /\ \A i, S : Sole(i, S)' <=> Sole(i, S)
    BY DEF vars, Kept, Listed, Sole, Ids
  <2>2. Scanning'
    BY <2>1 DEF IInv, vars, Scanning
  <2>3. Done'
    BY <2>1 DEF IInv, vars, Done
  <2> QED BY <2>2, <2>3
<1> QED BY <1>1, <1>2, <1>3, <1>4 DEF IInv

LEMMA NextInvariant ==
  ASSUME IInv, Next
  PROVE  IInv'
<1>1. ASSUME NEW n \in Funs, NEW attr \in Attrs, Prototype(n, attr) PROVE IInv'
  BY <1>1, DeclareStep
<1>2. ASSUME NEW n \in Funs, NEW attr \in Attrs, Define(n, attr) PROVE IInv'
  BY <1>2, DefineStep
<1>3. ASSUME NEW n \in Funs, NEW attr \in Attrs, NEW isdef \in BOOLEAN, Reject(n, attr, isdef)
      PROVE  IInv'
  BY <1>3, EndStep
<1>4. ASSUME NEW n \in Funs, BlockPrototype(n) PROVE IInv'
  BY <1>4, BlockStep
<1>5. ASSUME NEW n \in Funs, Refer(n) \/ ReferInData(n) PROVE IInv'
  BY <1>5, RecordStep
<1>6. ASSUME NEW v \in Vars, NEW kind \in {"extern", "tentative", "init"}, Variable(v, kind)
      PROVE  IInv'
  BY <1>6, VariableStep
<1>7. ASSUME EndBody \/ EndOfFile PROVE IInv'
  BY <1>7, EndStep
<1>8. ASSUME NEW i \in Ids, MarkLive(i) PROVE IInv'
  BY <1>8, MarkStep
<1>9. MarkDone => IInv'
  BY MarkDoneStep
<1>10. Keep => IInv'
  BY KeepStep
<1>11. Drop => IInv'
  BY DropStep
<1>12. ScanDone => IInv'
  BY ScanDoneStep
<1>13. Declare => IInv'
  BY <1>1, <1>2, <1>3, <1>4, <1>5, <1>6, <1>7 DEF Declare
<1>14. Finish => IInv'
  BY <1>8, <1>9, <1>10, <1>11, <1>12 DEF Finish
<1> QED BY <1>13, <1>14 DEF Next

\* parser.c, function() to scan_globals(): whatever is declared, in any order,
\* the list of globals, the scopes and the marks agree with each other.
THEOREM LinkageInvariant == Spec => []IInv
<1>1. IInv /\ [Next]_vars => IInv'
  BY NextInvariant, UnchangedInvariant
<1> QED BY <1>1, InitInvariant, PTL DEF Spec

\* The list and the scopes never point outside the objects there are.
THEOREM LinkageTypeOK == Spec => []TypeOK
<1>1. IInv => TypeOK
  BY DEF IInv
<1> QED BY <1>1, LinkageInvariant, PTL

\* What emit_data and emit_text look at.
LEMMA EmittedAreListed ==
  ASSUME IInv, pc = "done"
  PROVE  /\ Emitted = {i \in Listed : /\ objs[i].is_definition
                                      /\ objs[i].is_function => objs[i].is_live}
         /\ Listed \subseteq Ids
         /\ \A i \in Ids : ~ objs[i].is_tentative => i \in Listed
         /\ \A i \in Listed : Sole(i, Listed)
BY ChainIsReach DEF IInv, Done, Emitted, Listed

\* mark_live() and emit_text(): no call of an emitted function, to a function
\* defined in the unit, goes to one that was pruned.
THEOREM LinkageCallsResolved == Spec => []CallsResolved
<1>1. ASSUME IInv, pc = "done",
             NEW u \in uses, u[1] \in Emitted, u[2] \in DefinedNames
      PROVE  u[2] \in EmittedNames
  <2>1. u[1] \in Ids /\ u[1] # 0 /\ u[2] \in Funs /\ u \in (0 .. Len(objs)) \X Funs
    <3>1. u \in (0 .. Len(objs)) \X Funs
      BY <1>1 DEF IInv, TypeOK
    <3> QED BY <1>1, <3>1, EmittedAreListed DEF Ids
  <2>2. objs[u[1]].is_function /\ objs[u[1]].is_live /\ u[2] \in objs[u[1]].refs
    <3>1. objs[u[1]].is_function /\ u[2] \in objs[u[1]].refs
      BY <1>1, <2>1 DEF IInv, UsesRecorded
    <3> QED BY <1>1, <3>1, EmittedAreListed
  <2>3. PICK j \in Ids : objs[j].is_definition /\ objs[j].name = u[2]
    BY <1>1 DEF DefinedNames
  <2>4. objs[j].is_function /\ ~ objs[j].is_tentative /\ fileScope[u[2]] = j
    <3>1. Shaped(j)
      BY <1>1 DEF IInv, ObjectsOK
    <3>2. objs[j] \in Obj
      BY <1>1 DEF IInv, TypeOK, Ids
    <3> QED BY <2>1, <2>3, <3>1, <3>2, NamesAssumption DEF Shaped, Obj
  <2>5. Marks(j)
    BY <2>1, <2>2, <2>4 DEF Marks, FindFunc
  <2>6. objs[j].is_live
    BY <1>1, <2>4, <2>5 DEF IInv, Marked
  <2>7. j \in Emitted
    BY <1>1, <2>3, <2>4, <2>6, EmittedAreListed
  <2> QED BY <2>3, <2>7 DEF EmittedNames
<1>2. IInv => CallsResolved
  BY <1>1 DEF CallsResolved
<1> QED BY <1>2, LinkageInvariant, PTL

\* mark_live(): a static inline function nothing needs is not emitted.
THEOREM LinkageEmittedIsNeeded == Spec => []EmittedIsNeeded
<1>1. ASSUME IInv, pc = "done", NEW i \in Emitted, objs[i].is_function,
             NEW S \in SUBSET Ids, Closed(S)
      PROVE  i \in S
  <2>1. i \in Ids /\ objs[i].is_live
    BY <1>1, EmittedAreListed
  <2> QED BY <1>1, <2>1 DEF IInv, Marked
<1>2. IInv => EmittedIsNeeded
  BY <1>1 DEF EmittedIsNeeded
<1> QED BY <1>2, LinkageInvariant, PTL

\* A set whose members are all the same has at most one.
LEMMA AtMostOne ==
  ASSUME NEW S, \A x, y \in S : x = y
  PROVE  Cardinality(S) <= 1
<1>1. CASE S = {}
  BY <1>1, FS_EmptySet
<1>2. CASE S # {}
  <2>1. PICK x \in S : TRUE
    BY <1>2
  <2>2. S = {x}
    BY <2>1
  <2> QED BY <2>2, FS_Singleton
<1> QED BY <1>1, <1>2

\* scan_globals() and emit_data(): of the definitions of a variable one
\* survives at most, the real one when there is one.
THEOREM LinkageOneDefinition == Spec => []OneDefinition
<1>1. ASSUME IInv, pc = "done", NEW v \in Vars
      PROVE  /\ Cardinality(EmittedOf(v)) <= 1
             /\ RealDefinitions(v) # {} => EmittedOf(v) = RealDefinitions(v)
  <2>1. EmittedOf(v) = {i \in Listed : objs[i].is_definition /\ objs[i].name = v}
    <3>1. ASSUME NEW i \in Ids, objs[i].name = v PROVE ~ objs[i].is_function
      BY <1>1, <3>1, NamesAssumption DEF IInv, ObjectsOK, Shaped
    <3> QED BY <1>1, <3>1, EmittedAreListed DEF EmittedOf
  <2>2. ASSUME NEW i \in EmittedOf(v), NEW j \in EmittedOf(v), objs[i].is_tentative
        PROVE  i = j
    <3>1. i \in Listed /\ j \in Listed /\ objs[j].is_definition /\ objs[j].name = objs[i].name
      BY <2>1
    <3> QED BY <1>1, <2>2, <3>1, EmittedAreListed DEF Sole
  <2>3. RealDefinitions(v) = {i \in EmittedOf(v) : ~ objs[i].is_tentative}
    BY <1>1, <2>1, EmittedAreListed DEF RealDefinitions
  <2>4. ASSUME NEW i \in EmittedOf(v), NEW j \in EmittedOf(v) PROVE i = j
    <3>1. CASE ~ objs[i].is_tentative /\ ~ objs[j].is_tentative
      <4>1. i \in Ids /\ j \in Ids /\ Real(i) /\ Real(j) /\ objs[i].name = v /\ objs[j].name = v
        BY <1>1, <2>1, <3>1, EmittedAreListed DEF Real
      <4> QED BY <1>1, <4>1 DEF IInv, OneReal
    <3> QED BY <2>2, <3>1
  <2>5. Cardinality(EmittedOf(v)) <= 1
    BY <2>4, AtMostOne
  <2> QED BY <2>3, <2>4, <2>5
<1>2. IInv => OneDefinition
  BY <1>1 DEF OneDefinition
<1> QED BY <1>2, LinkageInvariant, PTL
=============================================================================
