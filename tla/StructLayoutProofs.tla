-------------------------- MODULE StructLayoutProofs --------------------------
(***************************************************************************)
(* For every list of members, every alignment and every combination of      *)
(* attributes: the members of a struct never share a bit, they are where    *)
(* the rules of the ABI put them, and the generated code reads and writes   *)
(* each of them without touching another.                                   *)
(***************************************************************************)
EXTENDS MemberAccess, SequenceTheorems, WellFoundedInduction, TLAPS

-----------------------------------------------------------------------------
(* Division *)

LEMMA DivMod ==
  ASSUME NEW a \in Int, NEW b \in Nat \ {0}
  PROVE  /\ a \div b \in Int /\ a % b \in 0 .. b - 1
         /\ a = b * (a \div b) + (a % b)
  BY SMT

LEMMA DivUnique ==
  ASSUME NEW a \in Int, NEW b \in Nat \ {0}, NEW q \in Int, NEW r \in 0 .. b - 1,
         a = b * q + r
  PROVE  a \div b = q /\ a % b = r
<1> DEFINE p == a \div b
           s == a % b
<1>1. p \in Int /\ s \in 0 .. b - 1 /\ b * p + s = b * q + r
  BY DivMod
<1> HIDE DEF p, s
<1>2. ~(p >= q + 1)
  <2> SUFFICES ASSUME p >= q + 1 PROVE FALSE
    OBVIOUS
  <2>1. PICK d \in Nat : p = q + 1 + d
    <3> p - q - 1 \in Nat /\ p = q + 1 + (p - q - 1) BY <1>1
    <3> QED OBVIOUS
  <2>2. b * p = b * q + b + b * d
    BY <2>1, <1>1
  <2>3. b * d \in Nat
    OBVIOUS
  <2> QED BY <1>1, <2>2, <2>3
<1>3. ~(q >= p + 1)
  <2> SUFFICES ASSUME q >= p + 1 PROVE FALSE
    OBVIOUS
  <2>1. PICK d \in Nat : q = p + 1 + d
    <3> q - p - 1 \in Nat /\ q = p + 1 + (q - p - 1) BY <1>1
    <3> QED OBVIOUS
  <2>2. b * q = b * p + b + b * d
    BY <2>1, <1>1
  <2>3. b * d \in Nat
    OBVIOUS
  <2> QED BY <1>1, <2>2, <2>3
<1>4. p = q
  BY <1>1, <1>2, <1>3
<1> QED BY <1>1, <1>4 DEF p, s

\* In the same unit the distance of the remainders is that of the numbers.
LEMMA SameUnit ==
  ASSUME NEW a \in Int, NEW e \in Int, NEW u \in Nat \ {0}, a \div u = e \div u
  PROVE  e % u \in 0 .. u - 1 /\ a % u \in 0 .. u - 1 /\ (e % u) - (a % u) = e - a
<1> DEFINE q == a \div u
           r == a % u
           t == e % u
<1>1. a = u * q + r /\ q \in Int /\ r \in 0 .. u - 1
  BY DivMod
<1>2. e = u * q + t /\ t \in 0 .. u - 1
  BY DivMod
<1> HIDE DEF q, r, t
<1>3. u * q \in Int
  BY <1>1
<1>4. t - r = e - a
  BY <1>1, <1>2, <1>3
<1> QED BY <1>1, <1>2, <1>4 DEF r, t

\* align_to() goes up to the next multiple of its second argument.
LEMMA AlignTo ==
  ASSUME NEW n \in Int, NEW u \in Nat \ {0}
  PROVE  /\ align_to(n, u) \in Int /\ align_to(n, u) >= n
         /\ align_to(n, u) % u = 0 /\ align_to(n, u) \div u \in Int
         /\ align_to(n, u) = u * (align_to(n, u) \div u)
<1> DEFINE q == (n + u - 1) \div u
           r == (n + u - 1) % u
<1>1. q \in Int /\ r \in 0 .. u - 1 /\ n + u - 1 = u * q + r
  BY DivMod
<1>2. align_to(n, u) = u * q + 0
  BY <1>1 DEF align_to
<1> HIDE DEF q, r
<1>3. u * q \in Int /\ u * q >= n
  BY <1>1
<1>4. align_to(n, u) \div u = q /\ align_to(n, u) % u = 0
  <2>1. align_to(n, u) \in Int /\ 0 \in 0 .. u - 1
    BY <1>2, <1>3
  <2> QED BY <1>1, <1>2, <2>1, DivUnique
<1> QED BY <1>1, <1>2, <1>3, <1>4

\* align_down() goes down to the multiple of its second argument.
LEMMA AlignDown ==
  ASSUME NEW n \in Int, NEW u \in Nat \ {0}
  PROVE  align_down(n, u) = (n \div u) * u
<1>1. n - u + 1 + u - 1 = n
  OBVIOUS
<1> QED BY <1>1 DEF align_down, align_to

\* The byte of the unit that holds bit p and the position of the bit in it.
LEMMA UnitOfBit ==
  ASSUME NEW p \in Nat, NEW sz \in Nat \ {0}
  PROVE  /\ align_down(p \div 8, sz) \in Nat
         /\ p % (8 * sz) \in 0 .. 8 * sz - 1
         /\ 8 * align_down(p \div 8, sz) + (p % (8 * sz)) = p
<1> DEFINE u == 8 * sz
           q == p \div u
           r == p % u
<1>0. u \in Nat \ {0} /\ u = 8 * sz /\ p \in Int
  OBVIOUS
<1> HIDE DEF u
<1>1. q \in Int /\ r \in 0 .. u - 1 /\ p = u * q + r
  BY <1>0, DivMod
<1> HIDE DEF q, r
<1> DEFINE r8 == r \div 8
           m8 == r % 8
<1>2. r8 \in Int /\ m8 \in 0 .. 7 /\ r = 8 * r8 + m8
  <2>1. r \in Int /\ 8 \in Nat \ {0}
    BY <1>0, <1>1
  <2> QED BY <2>1, DivMod
<1> HIDE DEF r8, m8
<1>3. r8 \in 0 .. sz - 1
  BY <1>0, <1>1, <1>2
<1>4. p \div 8 = sz * q + r8
  <2>1. p = 8 * (sz * q + r8) + m8
    BY <1>0, <1>1, <1>2
  <2>2. sz * q + r8 \in Int
    BY <1>1, <1>3
  <2> QED BY <2>1, <2>2, <1>2, DivUnique
<1>5. (p \div 8) \div sz = q
  BY <1>1, <1>3, <1>4, DivUnique
<1>6. align_down(p \div 8, sz) = q * sz
  <2>1. p \div 8 \in Int
    BY <1>1, <1>3, <1>4
  <2> QED BY <2>1, <1>5, AlignDown
<1>7. q >= 0
  <2> SUFFICES ASSUME q <= -1 PROVE FALSE
    BY <1>1
  <2>1. u * q <= -u /\ u * q \in Int
    <3>1. PICK d \in Nat : q = -1 - d
      <4> -1 - q \in Nat /\ q = -1 - (-1 - q) BY <1>1
      <4> QED OBVIOUS
    <3>2. u * q = -u - u * d
      BY <1>0, <3>1
    <3>3. u * d \in Nat
      BY <1>0
    <3> QED BY <1>0, <3>2, <3>3
  <2> QED BY <2>1, <1>0, <1>1
<1>8. q * sz \in Nat
  BY <1>1, <1>7
<1>9. 8 * (q * sz) = u * q
  BY <1>0, <1>1
<1> QED BY <1>0, <1>1, <1>6, <1>8, <1>9 DEF r, u

-----------------------------------------------------------------------------
(* The members *)

\* What a list of members is made of.
Listed == {Named(m, n) : m \in Members, n \in STRING}
Emptied == {NoElements(m) : m \in {k \in Listed : IsFlexible(k)}}
Item == Listed \cup Emptied

LEMMA ItemIsMember ==
  ASSUME NEW m \in Item
  PROVE  IsMember(m) /\ (~IsFlexible(m) => m.ty.size \in Nat)
<1>1. ASSUME NEW k \in Listed PROVE IsMember(k)
  <2>1. PICK l \in Members, n \in STRING : k = Named(l, n)
    BY <1>1 DEF Listed
  <2>2. /\ k.ty = l.ty /\ k.alignas = l.alignas /\ k.bitfield = l.bitfield
        /\ k.width = l.width
    BY <2>1 DEF Named
  <2>3. IsMember(l)
    BY MembersAssumption
  <2> QED BY <2>2, <2>3 DEF IsMember, IsFlexible
<1>2. ASSUME NEW k \in Listed, IsFlexible(k) PROVE IsMember(NoElements(k)) /\ ~IsFlexible(NoElements(k))
  BY <1>1, <1>2 DEF NoElements, IsMember, IsFlexible
<1>3. IsMember(m)
  BY <1>1, <1>2 DEF Item, Emptied
<1> QED BY <1>3 DEF IsMember

\* Inside the loop, the member it is at.
LEMMA MemAlignType ==
  ASSUME NEW m, IsMember(m)
  PROVE  MemAlign(m) \in Nat \ {0}
  BY DEF IsMember, MemAlign

-----------------------------------------------------------------------------
(* The inductive invariant *)

\* Nothing is placed before the list is complete, and then it has no array
\* without a length any more; in a packed struct without bit-fields the loop
\* stays at whole bytes.
Ordered ==
  /\ phase \in {"head", "members", "tail"} => places = <<>> /\ bits = 0
  /\ phase \in {"tail", "place", "done", "used"} =>
       \A i \in 1 .. Len(members) : ~IsFlexible(members[i])

WholeBytes == kind = "struct" /\ packed /\ ~Mixed => bits % 8 = 0

IInv ==
  /\ TypeOK
  /\ members \in Seq(Item)
  /\ Ordered /\ WholeBytes /\ MembersDisjoint

LEMMA InitInv == Init => IInv
<1> SUFFICES ASSUME Init PROVE IInv
  OBVIOUS
<1>1. members = <<>> /\ places = <<>> /\ Len(members) = 0 /\ Len(places) = 0
  BY DEF Init
<1>2. members \in Seq(Item) /\ places \in Seq([offset : Nat, bit_offset : Nat])
  BY <1>1
<1>3. TypeOK
  <2>1. \A i \in 1 .. Len(members) : IsMember(members[i])
    BY <1>1
  <2>2. Len(places) <= Len(members)
    BY <1>1
  <2>3. packed \in BOOLEAN /\ flexible \in BOOLEAN /\ phase = "head" /\ kind \in Kinds
    BY DEF Init
  <2>4. align \in Nat \ {0} /\ bits \in Nat /\ size \in Nat
    BY DEF Init
  <2> QED BY <1>2, <2>1, <2>2, <2>3, <2>4 DEF TypeOK
<1>4. Ordered
  BY <1>1 DEF Init, Ordered
<1>5. WholeBytes
  BY DEF Init, WholeBytes
<1>6. MembersDisjoint
  BY <1>1 DEF Init, MembersDisjoint
<1> QED BY <1>2, <1>3, <1>4, <1>5, <1>6 DEF IInv

\* A round of the loop that begins a member where the struct is filled up to or
\* behind it, and fills the struct up to its end or behind it.
LEMMA PlacedBehind ==
  ASSUME IInv, Placing("struct"), NEW p \in [offset : Nat, bit_offset : Nat],
         places' = Append(places, p), bits' \in Nat, bits' >= bits,
         UNCHANGED <<kind, phase, members, packed, size>>,
         ~Mixed /\ ~ZeroWidth(This) =>
           /\ 8 * p.offset + p.bit_offset >= bits
           /\ 8 * p.offset + p.bit_offset + Extent(This) <= bits'
           /\ This.bitfield => p.bit_offset + This.width <= UnitBits(This)
  PROVE  MembersDisjoint'
<1>0. PICK n \in Nat : n = Len(places) + 1
  BY DEF IInv, TypeOK
<1>1. /\ places \in Seq([offset : Nat, bit_offset : Nat]) /\ Len(places) \in Nat
      /\ Len(places') = n /\ places'[n] = p
      /\ \A i \in 1 .. Len(places) : places'[i] = places[i]
  BY <1>0 DEF IInv, TypeOK
<1> SUFFICES ASSUME kind' = "struct", ~Mixed'
             PROVE  /\ \A j \in 1 .. Len(places') : ~ZeroWidth(members'[j]) =>
                         /\ End(j)' <= bits'
                         /\ members'[j].bitfield =>
                              places'[j].bit_offset + members'[j].width <= UnitBits(members'[j])
                         /\ \A i \in 1 .. j - 1 : ~ZeroWidth(members'[i]) => End(i)' <= Start(j)'
                    /\ phase' \in {"done", "used"} => bits' <= 8 * size'
  BY DEF MembersDisjoint
<1>2. kind = "struct" /\ ~Mixed /\ phase = "place"
  BY DEF Mixed, Placing
<1>3. \A j \in 1 .. Len(places) : ~ZeroWidth(members[j]) =>
        /\ End(j) <= bits
        /\ members[j].bitfield => places[j].bit_offset + members[j].width <= UnitBits(members[j])
        /\ \A i \in 1 .. j - 1 : ~ZeroWidth(members[i]) => End(i) <= Start(j)
  BY <1>2 DEF IInv, MembersDisjoint
<1>4. \A j \in 1 .. Len(places) : Start(j)' = Start(j) /\ End(j)' = End(j)
  BY <1>1 DEF Start, End, Extent
<1>5. \A j \in 1 .. Len(places) : Start(j) \in Nat /\ End(j) \in Int
  <2> SUFFICES ASSUME NEW j \in 1 .. Len(places) PROVE Start(j) \in Nat /\ End(j) \in Int
    OBVIOUS
  <2>1. places[j] \in [offset : Nat, bit_offset : Nat]
    BY <1>1, ElementOfSeq
  <2>2. j \in 1 .. Len(members)
    BY <1>1 DEF IInv, TypeOK
  <2>3. IsMember(members[j])
    BY <2>2 DEF IInv, TypeOK
  <2>4. Start(j) \in Nat
    BY <2>1 DEF Start
  <2>5. Extent(members[j]) \in Int
    BY <2>3 DEF Extent, IsMember
  <2> QED BY <2>4, <2>5 DEF End
<1>6. Start(n)' = 8 * p.offset + p.bit_offset /\ End(n)' = Start(n)' + Extent(This)
  <2>1. members' = members /\ This = members[n]
    BY <1>0 DEF This
  <2>2. Start(n)' = 8 * p.offset + p.bit_offset
    BY <1>1 DEF Start
  <2>3. End(n)' = Start(n)' + Extent(members[n])
    BY <2>1 DEF End, Extent
  <2> QED BY <2>1, <2>2, <2>3
<1>7. ASSUME NEW j \in 1 .. Len(places), ~ZeroWidth(members[j])
      PROVE  /\ End(j)' <= bits'
             /\ members'[j].bitfield =>
                  places'[j].bit_offset + members'[j].width <= UnitBits(members'[j])
             /\ \A i \in 1 .. j - 1 : ~ZeroWidth(members'[i]) => End(i)' <= Start(j)'
  <2>1. bits \in Nat
    BY DEF IInv, TypeOK
  <2>2. End(j)' <= bits'
    BY <1>3, <1>4, <1>5, <1>7, <2>1
  <2>3. members'[j].bitfield =>
                  places'[j].bit_offset + members'[j].width <= UnitBits(members'[j])
    BY <1>1, <1>3, <1>7
  <2>4. ASSUME NEW i \in 1 .. j - 1, ~ZeroWidth(members'[i]) PROVE End(i)' <= Start(j)'
    <3>1. i \in 1 .. Len(places)
      BY <1>1
    <3> QED BY <1>3, <1>4, <1>7, <2>4, <3>1
  <2> QED BY <2>2, <2>3, <2>4
<1>8. ASSUME ~ZeroWidth(members[n])
      PROVE  /\ End(n)' <= bits'
             /\ members'[n].bitfield =>
                  places'[n].bit_offset + members'[n].width <= UnitBits(members'[n])
             /\ \A i \in 1 .. n - 1 : ~ZeroWidth(members'[i]) => End(i)' <= Start(n)'
  <2>1. bits \in Nat /\ ~ZeroWidth(This) /\ This = members[n]
    BY <1>0, <1>8 DEF IInv, TypeOK, This
  <2>2. Start(n)' >= bits /\ End(n)' <= bits'
    BY <1>2, <1>6, <2>1
  <2>3. members'[n].bitfield =>
                  places'[n].bit_offset + members'[n].width <= UnitBits(members'[n])
    BY <1>1, <1>2, <2>1
  <2>4. ASSUME NEW i \in 1 .. n - 1, ~ZeroWidth(members'[i]) PROVE End(i)' <= Start(n)'
    <3>1. i \in 1 .. Len(places)
      BY <1>0, <1>1
    <3>2. End(i) <= bits
      BY <1>3, <2>4, <3>1
    <3>3. Start(n)' \in Int
      BY <1>6
    <3> QED BY <1>4, <1>5, <2>1, <2>2, <3>1, <3>2, <3>3
  <2> QED BY <2>2, <2>3, <2>4
<1> QED
  <2>1. \A j \in 1 .. Len(places') : j \in 1 .. Len(places) \/ j = n
    BY <1>0, <1>1
  <2>2. phase' \notin {"done", "used"} /\ members' = members
    BY <1>2
  <2>3. ASSUME NEW j \in 1 .. Len(places'), ~ZeroWidth(members'[j])
        PROVE  /\ End(j)' <= bits'
               /\ members'[j].bitfield =>
                    places'[j].bit_offset + members'[j].width <= UnitBits(members'[j])
               /\ \A i \in 1 .. j - 1 : ~ZeroWidth(members'[i]) => End(i)' <= Start(j)'
    <3>1. CASE j \in 1 .. Len(places)
      BY <1>7, <2>2, <2>3, <3>1
    <3>2. CASE j = n
      BY <1>8, <2>2, <2>3, <3>2
    <3> QED BY <2>1, <3>1, <3>2
  <2> QED BY <2>2, <2>3

-----------------------------------------------------------------------------
(* The steps *)

\* As long as nothing has been placed there is nothing to overlap.
LEMMA NothingPlaced ==
  ASSUME places' = <<>>, bits' = 0, phase' \notin {"done", "used"}
  PROVE  WholeBytes' /\ MembersDisjoint'
<1>1. Len(places') = 0
  OBVIOUS
<1>2. WholeBytes'
  BY DEF WholeBytes
<1> QED BY <1>1, <1>2 DEF MembersDisjoint

\* The attributes, in front of the members or behind them, and the "{".
LEMMA AttributeStep ==
  ASSUME IInv, Pack \/ Aligned \/ OpenBrace
  PROVE  IInv'
<1>1. /\ phase \in {"head", "tail"} /\ phase' \in {"head", "tail", "members"}
      /\ phase' = "tail" => phase = "tail"
      /\ UNCHANGED <<kind, members, flexible, bits, places, size>>
  BY DEF Pack, Aligned, OpenBrace
<1>2. places = <<>> /\ bits = 0
  BY <1>1 DEF IInv, Ordered
<1>3. packed' \in BOOLEAN
  BY DEF Pack, Aligned, OpenBrace, IInv, TypeOK
<1>4. align' \in Nat \ {0}
  BY AlignmentsAssumption DEF Pack, Aligned, OpenBrace, IInv, TypeOK
<1>5. TypeOK'
  <2>1. flexible' \in BOOLEAN
    BY <1>1 DEF IInv, TypeOK
  <2>2. \A i \in 1 .. Len(members') : IsMember(members'[i])
    BY <1>1 DEF IInv, TypeOK
  <2> QED BY <1>1, <1>3, <1>4, <2>1, <2>2 DEF IInv, TypeOK
<1>6. Ordered'
  BY <1>1, <1>2 DEF IInv, Ordered
<1>7. WholeBytes' /\ MembersDisjoint'
  BY <1>1, <1>2, NothingPlaced
<1> QED BY <1>1, <1>5, <1>6, <1>7 DEF IInv

LEMMA AddMemberStep ==
  ASSUME IInv, AddMember
  PROVE  IInv'
<1>1. PICK m \in Members : members' = Append(members, Named(m, Names[Len(members) + 1]))
  BY DEF AddMember
<1>2. Named(m, Names[Len(members) + 1]) \in Item
  <2>1. Len(members) + 1 \in 1 .. Len(Names)
    BY NamesAssumption DEF AddMember, IInv
  <2>2. Names[Len(members) + 1] \in STRING
    BY <2>1, NamesAssumption, ElementOfSeq
  <2> QED BY <2>2 DEF Item, Listed
<1>3. members' \in Seq(Item)
  BY <1>1, <1>2 DEF IInv
<1>4. /\ phase = "members" /\ phase' = "members"
      /\ UNCHANGED <<kind, packed, flexible, align, bits, places, size>>
  BY DEF AddMember
<1>5. places = <<>> /\ bits = 0 /\ Len(places) = 0
  BY <1>4 DEF IInv, Ordered
<1>6. TypeOK'
  <2>1. \A i \in 1 .. Len(members') : IsMember(members'[i])
    <3> SUFFICES ASSUME NEW i \in 1 .. Len(members') PROVE IsMember(members'[i])
      OBVIOUS
    <3>1. members'[i] \in Item
      BY <1>3, ElementOfSeq
    <3> QED BY <3>1, ItemIsMember
  <2>2. Len(places') <= Len(members')
    BY <1>3, <1>4, <1>5
  <2>3. packed' \in BOOLEAN /\ flexible' \in BOOLEAN
    BY <1>4 DEF IInv, TypeOK
  <2> QED BY <1>4, <2>1, <2>2, <2>3 DEF IInv, TypeOK
<1>7. Ordered'
  BY <1>4, <1>5 DEF Ordered
<1>8. WholeBytes' /\ MembersDisjoint'
  BY <1>4, <1>5, NothingPlaced
<1> QED BY <1>3, <1>6, <1>7, <1>8 DEF IInv

LEMMA CloseBraceStep ==
  ASSUME IInv, CloseBrace
  PROVE  IInv'
<1>1. /\ phase = "members" /\ phase' = "tail"
      /\ UNCHANGED <<kind, packed, align, bits, places, size>>
  BY DEF CloseBrace
<1>2. places = <<>> /\ bits = 0 /\ Len(places) = 0
  BY <1>1 DEF IInv, Ordered
<1> DEFINE Closed(i) == IF IsFlexible(members[i]) THEN NoElements(members[i]) ELSE members[i]
<1>3. /\ members' = [i \in 1 .. Len(members) |-> Closed(i)]
      /\ Len(members) \in Nat
  BY DEF CloseBrace, IInv
<1>4. ASSUME NEW i \in 1 .. Len(members)
      PROVE  Closed(i) \in Item /\ ~IsFlexible(Closed(i))
  <2>1. members[i] \in Item
    BY ElementOfSeq DEF IInv
  <2>2. CASE IsFlexible(members[i])
    <3>1. members[i] \in Listed
      <4>1. ASSUME NEW k \in Listed PROVE ~IsFlexible(NoElements(k))
        BY DEF NoElements, IsFlexible
      <4> QED BY <2>1, <2>2, <4>1 DEF Item, Emptied
    <3>2. Closed(i) = NoElements(members[i])
      BY <2>2
    <3>3. ~IsFlexible(NoElements(members[i]))
      BY DEF NoElements, IsFlexible
    <3> QED BY <2>2, <3>1, <3>2, <3>3 DEF Item, Emptied
  <2>3. CASE ~IsFlexible(members[i])
    BY <2>1, <2>3
  <2> QED BY <2>2, <2>3
<1> HIDE DEF Closed
<1>5. members' \in Seq(Item) /\ Len(members') = Len(members)
  BY <1>3, <1>4
<1>6. \A i \in 1 .. Len(members') : ~IsFlexible(members'[i]) /\ IsMember(members'[i])
  <2> SUFFICES ASSUME NEW i \in 1 .. Len(members')
               PROVE  ~IsFlexible(members'[i]) /\ IsMember(members'[i])
    OBVIOUS
  <2>1. i \in 1 .. Len(members) /\ members'[i] = Closed(i)
    BY <1>3, <1>5
  <2> QED BY <2>1, <1>4, ItemIsMember
<1>7. flexible' \in BOOLEAN /\ packed' \in BOOLEAN
  BY <1>1 DEF CloseBrace, IInv, TypeOK
<1>8. TypeOK'
  BY <1>1, <1>2, <1>5, <1>6, <1>7 DEF IInv, TypeOK
<1>9. Ordered'
  BY <1>1, <1>2, <1>6 DEF Ordered
<1>10. WholeBytes' /\ MembersDisjoint'
  BY <1>1, <1>2, NothingPlaced
<1> QED BY <1>5, <1>8, <1>9, <1>10 DEF IInv

LEMMA EndAttributesStep ==
  ASSUME IInv, EndAttributes
  PROVE  IInv'
<1>1. /\ phase = "tail" /\ phase' = "place"
      /\ UNCHANGED <<kind, members, packed, flexible, align, bits, places, size>>
  BY DEF EndAttributes
<1>2. places = <<>> /\ bits = 0
  BY <1>1 DEF IInv, Ordered
<1>3. packed' \in BOOLEAN /\ flexible' \in BOOLEAN
  BY <1>1 DEF IInv, TypeOK
<1>4. TypeOK'
  BY <1>1, <1>3 DEF IInv, TypeOK
<1>5. Ordered'
  BY <1>1 DEF IInv, Ordered
<1>6. WholeBytes' /\ MembersDisjoint'
  BY <1>1, <1>2, NothingPlaced
<1> QED BY <1>1, <1>4, <1>5, <1>6 DEF IInv

\* The member the loop is at.
LEMMA ThisIsMember ==
  ASSUME IInv, phase = "place", Len(places) < Len(members)
  PROVE  /\ This \in Item /\ IsMember(This) /\ ~IsFlexible(This)
         /\ This.ty.size \in Nat /\ MemAlign(This) \in Nat \ {0}
<1>1. Len(places) + 1 \in 1 .. Len(members)
  BY DEF IInv, TypeOK
<1>2. This \in Item
  BY <1>1, ElementOfSeq DEF IInv, This
<1>3. ~IsFlexible(This)
  BY <1>1 DEF IInv, Ordered, This
<1> QED BY <1>2, <1>3, ItemIsMember, MemAlignType

\* What every round of either loop keeps.
LEMMA RoundKeeps ==
  ASSUME IInv, phase = "place", Len(places) < Len(members),
         NEW p \in [offset : Nat, bit_offset : Nat], places' = Append(places, p),
         bits' \in Nat, size' \in Nat, align' \in Nat \ {0},
         UNCHANGED <<kind, phase, members, packed, flexible>>
  PROVE  TypeOK' /\ members' \in Seq(Item) /\ Ordered'
<1>1. /\ places' \in Seq([offset : Nat, bit_offset : Nat])
      /\ Len(places') = Len(places) + 1 /\ Len(places) \in Nat /\ Len(members) \in Nat
  BY DEF IInv, TypeOK
<1>2. packed' \in BOOLEAN /\ flexible' \in BOOLEAN
  BY DEF IInv, TypeOK
<1>3. TypeOK'
  BY <1>1, <1>2 DEF IInv, TypeOK
<1>4. Ordered'
  BY DEF IInv, Ordered
<1> QED BY <1>3, <1>4 DEF IInv

LEMMA RaisedAlign ==
  ASSUME IInv, RaiseAlign, MemAlign(This) \in Nat \ {0}
  PROVE  align' \in Nat \ {0}
  BY DEF IInv, TypeOK, RaiseAlign, Larger

LEMMA PlaceZeroWidthStep ==
  ASSUME IInv, PlaceZeroWidth
  PROVE  IInv'
<1>1. /\ phase = "place" /\ kind = "struct" /\ Len(places) < Len(members) /\ Placing("struct")
      /\ This.bitfield /\ This.width = 0 /\ RaiseAlign
      /\ bits' = align_to(bits, UnitBits(This))
      /\ places' = Append(places, Place(0, 0))
      /\ UNCHANGED <<kind, phase, members, packed, flexible, size>>
  BY DEF PlaceZeroWidth, Placing
<1>2. /\ IsMember(This) /\ MemAlign(This) \in Nat \ {0} /\ UnitBits(This) \in Nat \ {0}
      /\ This.ty.size \in Nat
  BY <1>1, ThisIsMember DEF IsMember, UnitBits
<1>3. bits \in Nat /\ size \in Nat /\ bits' \in Nat /\ bits' >= bits
  <2>1. bits \in Nat /\ size \in Nat /\ bits \in Int
    BY DEF IInv, TypeOK
  <2>2. align_to(bits, UnitBits(This)) \in Int /\ align_to(bits, UnitBits(This)) >= bits
    BY <1>2, <2>1, AlignTo
  <2> QED BY <1>1, <2>1, <2>2
<1>4. Place(0, 0) \in [offset : Nat, bit_offset : Nat]
  BY DEF Place
<1>5. align' \in Nat \ {0}
  BY <1>1, <1>2, RaisedAlign
<1>6. TypeOK' /\ members' \in Seq(Item) /\ Ordered'
  BY <1>1, <1>3, <1>4, <1>5, RoundKeeps
<1>7. MembersDisjoint'
  BY <1>1, <1>3, <1>4, PlacedBehind DEF ZeroWidth
<1>8. WholeBytes'
  <2>1. This = members[Len(places) + 1] /\ Len(places) + 1 \in 1 .. Len(members)
    BY <1>1 DEF This, IInv, TypeOK
  <2>2. packed => Mixed
    BY <1>1, <2>1 DEF Mixed
  <2> QED BY <1>1, <2>2 DEF WholeBytes, Mixed
<1> QED BY <1>6, <1>7, <1>8 DEF IInv

LEMMA PlaceBitFieldStep ==
  ASSUME IInv, PlaceBitField
  PROVE  IInv'
<1> DEFINE start == FieldStart(This)
           p == Place(align_down(start \div 8, This.ty.size), start % UnitBits(This))
<1>1. /\ phase = "place" /\ kind = "struct" /\ Len(places) < Len(members) /\ Placing("struct")
      /\ This.bitfield /\ This.width # 0 /\ RaiseAlign
      /\ places' = Append(places, p) /\ bits' = start + This.width
      /\ UNCHANGED <<kind, phase, members, packed, flexible, size>>
  BY DEF PlaceBitField, Placing
<1>2. /\ IsMember(This) /\ MemAlign(This) \in Nat \ {0} /\ UnitBits(This) \in Nat \ {0}
      /\ This.ty.size \in Nat \ {0} /\ UnitBits(This) = 8 * This.ty.size
      /\ This.width \in Nat /\ This.width <= UnitBits(This)
  BY <1>1, ThisIsMember DEF IsMember, UnitBits
<1>3. bits \in Nat /\ size \in Nat
  BY DEF IInv, TypeOK
<1>4. start \in Nat /\ start >= bits
  <2>1. bits \in Int
    BY <1>3
  <2>2. align_to(bits, UnitBits(This)) \in Int /\ align_to(bits, UnitBits(This)) >= bits
    BY <1>2, <2>1, AlignTo
  <2> QED BY <1>3, <2>2 DEF FieldStart
<1>5. (start % UnitBits(This)) + This.width <= UnitBits(This)
  <2>1. CASE bits \div UnitBits(This) # (bits + This.width - 1) \div UnitBits(This)
    <3>1. start % UnitBits(This) = 0
      BY <1>2, <1>3, <2>1, AlignTo DEF FieldStart
    <3> QED BY <1>2, <3>1
  <2>2. CASE bits \div UnitBits(This) = (bits + This.width - 1) \div UnitBits(This)
    <3> DEFINE u == UnitBits(This)
               e == bits + This.width - 1
    <3>1. start = bits
      BY <2>2 DEF FieldStart
    <3>2. u \in Nat \ {0} /\ e \in Int /\ bits \in Int
      BY <1>2, <1>3
    <3>3. e = bits + This.width - 1 /\ bits \div u = e \div u
      BY <2>2
    <3> HIDE DEF u, e
    <3>4. /\ e % u \in 0 .. u - 1 /\ bits % u \in 0 .. u - 1
          /\ (e % u) - (bits % u) = e - bits
      BY <3>2, <3>3, SameUnit
    <3>5. e - bits = This.width - 1
      <4>1. PICK w \in Nat : w = This.width
        BY <1>2
      <4>2. e = bits + w - 1
        BY <3>3, <4>1
      <4>3. e - bits = w - 1
        BY <3>2, <4>2
      <4> QED BY <4>1, <4>3
    <3>6. (bits % u) + This.width <= u
      BY <1>2, <3>2, <3>4, <3>5
    <3> QED BY <3>1, <3>6 DEF u
  <2> QED BY <2>1, <2>2
<1>6. /\ p \in [offset : Nat, bit_offset : Nat]
      /\ 8 * p.offset + p.bit_offset = start /\ p.bit_offset = start % UnitBits(This)
  <2>1. /\ align_down(start \div 8, This.ty.size) \in Nat
        /\ start % (8 * This.ty.size) \in 0 .. 8 * This.ty.size - 1
        /\ 8 * align_down(start \div 8, This.ty.size) + (start % (8 * This.ty.size)) = start
    BY <1>2, <1>4, UnitOfBit
  <2> QED BY <1>2, <2>1 DEF Place
<1> HIDE DEF p, start
<1>7. bits' \in Nat /\ bits' >= bits
  BY <1>1, <1>2, <1>3, <1>4
<1>8. align' \in Nat \ {0}
  BY <1>1, <1>2, RaisedAlign
<1>9. TypeOK' /\ members' \in Seq(Item) /\ Ordered'
  BY <1>1, <1>3, <1>6, <1>7, <1>8, RoundKeeps
<1>10. MembersDisjoint'
  <2>1. Extent(This) = This.width
    BY <1>1 DEF Extent
  <2>2. /\ 8 * p.offset + p.bit_offset >= bits
        /\ 8 * p.offset + p.bit_offset + Extent(This) <= bits'
        /\ p.bit_offset + This.width <= UnitBits(This)
    BY <1>1, <1>2, <1>4, <1>5, <1>6, <2>1
  <2> QED BY <1>1, <1>6, <1>7, <2>2, PlacedBehind
<1>11. WholeBytes'
  <2>1. This = members[Len(places) + 1] /\ Len(places) + 1 \in 1 .. Len(members)
    BY <1>1 DEF This, IInv, TypeOK
  <2>2. packed => Mixed
    BY <1>1, <2>1 DEF Mixed
  <2> QED BY <1>1, <2>2 DEF WholeBytes, Mixed
<1> QED BY <1>9, <1>10, <1>11 DEF IInv

LEMMA PlaceOrdinaryStep ==
  ASSUME IInv, PlaceOrdinary
  PROVE  IInv'
<1> DEFINE start == OrdinaryStart(This)
           p == Place(start \div 8, 0)
<1>1. /\ phase = "place" /\ kind = "struct" /\ Len(places) < Len(members) /\ Placing("struct")
      /\ ~This.bitfield /\ RaiseAlign
      /\ places' = Append(places, p) /\ bits' = start + 8 * This.ty.size
      /\ UNCHANGED <<kind, phase, members, packed, flexible, size>>
  BY DEF PlaceOrdinary, Placing
<1>2. IsMember(This) /\ MemAlign(This) \in Nat \ {0} /\ This.ty.size \in Nat
  BY <1>1, ThisIsMember
<1>3. bits \in Nat /\ size \in Nat
  BY DEF IInv, TypeOK
<1>4. start \in Nat /\ start >= bits
  <2>1. bits \in Int /\ 8 * MemAlign(This) \in Nat \ {0}
    BY <1>2, <1>3
  <2>2. /\ align_to(bits, 8 * MemAlign(This)) \in Int
        /\ align_to(bits, 8 * MemAlign(This)) >= bits
    BY <2>1, AlignTo
  <2> QED BY <1>3, <2>2 DEF OrdinaryStart
<1>5. start \div 8 \in Nat
  BY <1>4
<1>6. ~Mixed => start % 8 = 0
  <2>1. CASE packed
    BY <1>1, <2>1 DEF IInv, WholeBytes, OrdinaryStart
  <2>2. CASE ~packed
    <3> DEFINE a == MemAlign(This)
    <3>1. 8 * a \in Nat \ {0}
      BY <1>2
    <3>2. start = align_to(bits, 8 * a) /\ bits \in Int
      BY <1>3, <2>2 DEF OrdinaryStart
    <3> HIDE DEF a
    <3>3. PICK k \in Int : start = (8 * a) * k
      BY <3>1, <3>2, AlignTo
    <3>4. start = 8 * (a * k) + 0 /\ a * k \in Int
      BY <1>2, <3>3 DEF a
    <3> QED BY <1>4, <3>4, DivUnique
  <2> QED BY <2>1, <2>2
<1>7. ~Mixed => 8 * (start \div 8) = start
  BY <1>4, <1>6
<1>8. p \in [offset : Nat, bit_offset : Nat] /\ p.offset = start \div 8 /\ p.bit_offset = 0
  BY <1>5 DEF Place
<1> HIDE DEF p, start
<1>9. bits' \in Nat /\ bits' >= bits
  BY <1>1, <1>2, <1>3, <1>4
<1>10. align' \in Nat \ {0}
  BY <1>1, <1>2, RaisedAlign
<1>11. TypeOK' /\ members' \in Seq(Item) /\ Ordered'
  BY <1>1, <1>3, <1>8, <1>9, <1>10, RoundKeeps
<1>12. MembersDisjoint'
  <2>1. Extent(This) = 8 * This.ty.size
    BY <1>1 DEF Extent
  <2>2. ~Mixed => /\ 8 * p.offset + p.bit_offset >= bits
                  /\ 8 * p.offset + p.bit_offset + Extent(This) <= bits'
    BY <1>1, <1>2, <1>3, <1>4, <1>7, <1>8, <2>1
  <2> QED BY <1>1, <1>8, <1>9, <2>2, PlacedBehind
<1>13. WholeBytes'
  <2> SUFFICES ASSUME packed', ~Mixed' PROVE bits' % 8 = 0
    BY DEF WholeBytes
  <2>1. start % 8 = 0
    BY <1>1, <1>6 DEF Mixed
  <2>2. start = 8 * (start \div 8) + 0 /\ start \div 8 \in Nat
    BY <1>4, <2>1
  <2>3. bits' = 8 * ((start \div 8) + This.ty.size) + 0 /\ (start \div 8) + This.ty.size \in Nat
    BY <1>1, <1>2, <2>2
  <2> QED BY <1>9, <2>3
<1> QED BY <1>11, <1>12, <1>13 DEF IInv

LEMMA EndStructStep ==
  ASSUME IInv, EndStruct
  PROVE  IInv'
<1>1. /\ phase = "place" /\ kind = "struct" /\ phase' = "done"
      /\ size' = align_to(bits, 8 * align) \div 8
      /\ UNCHANGED <<kind, members, packed, flexible, align, bits, places>>
  BY DEF EndStruct
<1>2. bits \in Nat /\ align \in Nat \ {0} /\ 8 * align \in Nat \ {0}
  BY DEF IInv, TypeOK
<1>3. align_to(bits, 8 * align) \in Nat /\ align_to(bits, 8 * align) >= bits
  BY <1>2, AlignTo
<1>4. size' \in Nat
  BY <1>1, <1>3
<1>5. bits' <= 8 * size'
  <2> DEFINE k == align_to(bits, 8 * align) \div (8 * align)
  <2>1. k \in Int /\ align_to(bits, 8 * align) = (8 * align) * k
    BY <1>2, AlignTo
  <2> HIDE DEF k
  <2>2. align_to(bits, 8 * align) = 8 * (align * k) + 0 /\ align * k \in Int
    BY <1>2, <2>1
  <2>3. align_to(bits, 8 * align) \div 8 = align * k
    <3>1. align_to(bits, 8 * align) \in Int /\ 0 \in 0 .. 7
      BY <1>3
    <3> QED BY <2>2, <3>1, DivUnique
  <2> QED BY <1>1, <1>3, <2>2, <2>3
<1>6. packed' \in BOOLEAN /\ flexible' \in BOOLEAN
  BY <1>1 DEF IInv, TypeOK
<1>7. TypeOK'
  BY <1>1, <1>4, <1>6 DEF IInv, TypeOK
<1>8. Ordered'
  BY <1>1 DEF IInv, Ordered
<1>9. WholeBytes'
  BY <1>1 DEF IInv, WholeBytes, Mixed
<1>10. MembersDisjoint'
  BY <1>1, <1>5 DEF IInv, MembersDisjoint, Mixed, Start, End
<1> QED BY <1>1, <1>7, <1>8, <1>9, <1>10 DEF IInv

\* A union has nothing to lay out.
LEMMA UnionStep ==
  ASSUME IInv, PlaceInUnion \/ EndUnion
  PROVE  IInv'
<1>1. phase = "place" /\ kind = "union" /\ kind' = kind /\ members' = members
  BY DEF PlaceInUnion, EndUnion, Placing
<1>2. WholeBytes' /\ MembersDisjoint'
  BY <1>1 DEF WholeBytes, MembersDisjoint
<1>3. bits \in Nat /\ size \in Nat /\ align \in Nat \ {0}
  BY DEF IInv, TypeOK
<1>4. CASE PlaceInUnion
  <2>1. /\ Len(places) < Len(members) /\ places' = Append(places, Place(0, 0))
        /\ align' = Larger(align, MemAlign(This)) /\ size' = Larger(size, This.ty.size)
        /\ UNCHANGED <<kind, phase, members, packed, flexible, bits>>
    BY <1>4 DEF PlaceInUnion, Placing
  <2>2. MemAlign(This) \in Nat \ {0} /\ This.ty.size \in Nat
    BY <1>1, <2>1, ThisIsMember
  <2>3. align' \in Nat \ {0} /\ size' \in Nat /\ bits' \in Nat
    BY <1>3, <2>1, <2>2 DEF Larger
  <2>4. Place(0, 0) \in [offset : Nat, bit_offset : Nat]
    BY DEF Place
  <2>5. TypeOK' /\ members' \in Seq(Item) /\ Ordered'
    BY <1>1, <2>1, <2>3, <2>4, RoundKeeps
  <2> QED BY <1>2, <2>5 DEF IInv
<1>5. CASE EndUnion
  <2>1. /\ size' = align_to(size, align) /\ phase' = "done"
        /\ UNCHANGED <<kind, members, packed, flexible, align, bits, places>>
    BY <1>5 DEF EndUnion
  <2>2. size' \in Nat
    BY <1>3, <2>1, AlignTo
  <2>3. packed' \in BOOLEAN /\ flexible' \in BOOLEAN
    BY <2>1 DEF IInv, TypeOK
  <2>4. TypeOK'
    BY <2>1, <2>2, <2>3 DEF IInv, TypeOK
  <2>5. Ordered'
    BY <1>1, <2>1 DEF IInv, Ordered
  <2> QED BY <1>1, <1>2, <2>4, <2>5 DEF IInv
<1> QED BY <1>4, <1>5

LEMMA StutterStep ==
  ASSUME IInv, UNCHANGED vars
  PROVE  IInv'
<1>1. TypeOK'
  <2>1. packed' \in BOOLEAN /\ flexible' \in BOOLEAN
    BY DEF IInv, TypeOK, vars
  <2> QED BY <2>1 DEF IInv, TypeOK, vars
<1>2. Ordered' /\ members' \in Seq(Item)
  BY DEF IInv, Ordered, vars
<1>3. WholeBytes'
  BY DEF IInv, WholeBytes, Mixed, vars
<1>4. MembersDisjoint'
  BY DEF IInv, MembersDisjoint, Mixed, Start, End, vars
<1> QED BY <1>1, <1>2, <1>3, <1>4 DEF IInv

LEMMA NextInv == IInv /\ [Next]_vars => IInv'
  BY AttributeStep, AddMemberStep, CloseBraceStep, EndAttributesStep, PlaceZeroWidthStep,
     PlaceBitFieldStep, PlaceOrdinaryStep, EndStructStep, UnionStep, StutterStep DEF Next

\* No two members of a struct share a bit, no bit-field leaves the unit that is
\* loaded and stored for it, and every member lies in the struct, whatever is
\* declared: for every list of members that IsMember allows, but for packed
\* structs with bit-fields.
THEOREM StructMembersDisjoint == Spec => []MembersDisjoint
<1>1. IInv => MembersDisjoint
  BY DEF IInv
<1> QED BY InitInv, NextInv, <1>1, PTL DEF Spec

\* The loops of struct_decl() and union_decl() keep the types of their variables;
\* no size or offset becomes negative, also for an array without a length.
THEOREM StructTypeOK == Spec => []TypeOK
<1>1. IInv => TypeOK
  BY DEF IInv
<1> QED BY InitInv, NextInv, <1>1, PTL DEF Spec

\* A set of numbers has a smallest one: what inductions here rest on.
LEMMA Smallest ==
  ASSUME NEW T, T \subseteq Nat, T # {}
  PROVE  \E x \in T : \A y \in T : x <= y
<1> DEFINE R == {ss \in Nat \X Nat : ss[1] < ss[2]}
<1>1. IsWellFoundedOn(R, Nat)
  BY NatLessThanWellFounded DEF OpToRel
<1>2. PICK x \in T : \A y \in T : ~ (<<y, x>> \in R)
  <2> HIDE DEF R
  <2> QED BY <1>1, WFMin
<1>3. ASSUME NEW y \in T, y < x PROVE FALSE
  <2>1. <<y, x>> \in R
    BY <1>3
  <2> QED BY <2>1, <1>2
<1> QED BY <1>2, <1>3

LEMMA DivMonotone ==
  ASSUME NEW a \in Int, NEW b \in Int, a <= b, NEW u \in Nat \ {0}
  PROVE  a \div u <= b \div u
<1> DEFINE p == a \div u
           q == b \div u
<1>1. p \in Int /\ a % u \in 0 .. u - 1 /\ a = u * p + (a % u)
  BY DivMod
<1>2. q \in Int /\ b % u \in 0 .. u - 1 /\ b = u * q + (b % u)
  BY DivMod
<1> HIDE DEF p, q
<1>3. ASSUME p > q PROVE FALSE
  <2>1. PICK d \in Nat : p = q + 1 + d
    <3> p - q - 1 \in Nat /\ p = q + 1 + (p - q - 1) BY <1>1, <1>2, <1>3
    <3> QED OBVIOUS
  <2>2. u * p = u * q + u + u * d /\ u * d \in Nat /\ u * q \in Int
    BY <1>2, <2>1
  <2> QED BY <1>1, <1>2, <2>2
<1> QED BY <1>1, <1>2, <1>3 DEF p, q

-----------------------------------------------------------------------------
(* The first place from a position on *)

LEMMA LeastIs ==
  ASSUME NEW S, S \subseteq Int, NEW x \in S, \A y \in S : x <= y
  PROVE  Least(S) = x
<1>1. \A n \in S : (\A k \in S : n <= k) => n = x
  OBVIOUS
<1> QED BY <1>1 DEF Least

\* Between a position and the next multiple of u there is none, and no unit ends.
LEMMA BelowAligned ==
  ASSUME NEW n \in Int, NEW u \in Nat \ {0}
  PROVE  /\ align_to(n, u) <= n + u - 1
         /\ \A p \in n .. align_to(n, u) - 1 : p \div u = n \div u /\ p % u # 0
<1> DEFINE q == (n + u - 1) \div u
           r == (n + u - 1) % u
<1>1. q \in Int /\ r \in 0 .. u - 1 /\ n + u - 1 = u * q + r
  BY DivMod
<1>2. align_to(n, u) = u * q
  BY <1>1 DEF align_to
<1> HIDE DEF q, r
<1>3. u * q \in Int /\ u * (q - 1) = u * q - u /\ q - 1 \in Int
  BY <1>1
<1>4. ASSUME NEW p \in n .. u * q - 1
      PROVE  p \div u = q - 1 /\ p % u # 0
  <2> DEFINE s == p - u * (q - 1)
  <2>1. s \in 1 .. u - 1 /\ p = u * (q - 1) + s
    BY <1>1, <1>3
  <2> HIDE DEF s
  <2> QED BY <1>3, <2>1, DivUnique
<1>5. ASSUME NEW p \in n .. u * q - 1
      PROVE  n \div u = q - 1
  <2>1. n \in n .. u * q - 1
    BY <1>3
  <2> QED BY <1>4, <2>1
<1> QED BY <1>1, <1>2, <1>3, <1>4, <1>5

LEMMA FirstMultipleIs ==
  ASSUME NEW n \in Int, NEW u \in Nat \ {0}
  PROVE  FirstMultiple(n, u) = align_to(n, u)
<1> DEFINE S == {p \in n .. n + u - 1 : p % u = 0}
           a == align_to(n, u)
<1>1. FirstMultiple(n, u) = Least(S)
  BY DEF FirstMultiple
<1>2. a \in S
  BY AlignTo, BelowAligned
<1>3. \A y \in S : a <= y
  <2> SUFFICES ASSUME NEW y \in S, y < a PROVE FALSE
    BY <1>2
  <2>1. y \in n .. a - 1
    BY <1>2
  <2> QED BY <2>1, BelowAligned
<1>4. S \subseteq Int
  OBVIOUS
<1> HIDE DEF S, a
<1> QED BY <1>1, <1>2, <1>3, <1>4, LeastIs DEF a

\* Where struct_decl() begins a bit-field is the first place where it may begin.
LEMMA FieldStartIsFirst ==
  ASSUME NEW m, IsMember(m), m.bitfield, m.width # 0, bits \in Nat
  PROVE  FieldStart(m) = FirstPlace(bits, m)
<1> DEFINE u == UnitBits(m)
           w == m.width
           May(p) == p \div u = (p + w - 1) \div u
           S == {p \in bits .. bits + u - 1 : May(p)}
<1>1. u \in Nat \ {0} /\ w \in Nat \ {0} /\ w <= u /\ bits \in Int
  BY DEF IsMember, UnitBits
<1>2. FirstPlace(bits, m) = Least(S)
  BY DEF FirstPlace, Unit, MayBegin
<1>3. FieldStart(m) = IF May(bits) THEN bits ELSE align_to(bits, u)
  BY DEF FieldStart
<1>4. S \subseteq Int
  OBVIOUS
<1>5. CASE May(bits)
  <2>1. bits \in S /\ \A y \in S : bits <= y
    BY <1>1, <1>5
  <2> HIDE DEF S
  <2> QED BY <1>2, <1>3, <1>4, <1>5, <2>1, LeastIs
<1>6. CASE ~May(bits)
  <2> DEFINE a == align_to(bits, u)
  <2>1. /\ a \in Int /\ a >= bits /\ a % u = 0 /\ a <= bits + u - 1
        /\ a = u * (a \div u) /\ a \div u \in Int
        /\ \A p \in bits .. a - 1 : p \div u = bits \div u
    BY <1>1, AlignTo, BelowAligned
  <2>2. May(a)
    <3>1. a + w - 1 = u * (a \div u) + (w - 1) /\ w - 1 \in 0 .. u - 1 /\ a + w - 1 \in Int
      BY <1>1, <2>1
    <3> QED BY <1>1, <2>1, <3>1, DivUnique
  <2>3. ASSUME NEW y \in S, y < a PROVE FALSE
    <3>1. y \in bits .. a - 1 /\ y \div u = bits \div u
      BY <2>1, <2>3
    <3>2. (y + w - 1) \div u = bits \div u
      BY <2>3, <3>1
    <3> DEFINE e == bits + w - 1
               z == y + w - 1
               b == bits
    <3>3. e \in Int /\ z \in Int /\ b \in Int /\ b <= e /\ e <= z
      BY <1>1, <3>1
    <3>4. e \div u = b \div u
      <4>1. b \div u <= e \div u /\ e \div u <= z \div u
        <5> HIDE DEF b, e, z, u
        <5> QED BY <1>1, <3>3, DivMonotone
      <4>2. z \div u = b \div u
        BY <3>2
      <4> HIDE DEF b, e, z, u
      <4>3. b \div u \in Int /\ e \div u \in Int /\ z \div u \in Int
        BY <1>1, <3>3, DivMod
      <4> QED BY <4>1, <4>2, <4>3
    <3> QED BY <1>6, <3>4
  <2>4. a \in S /\ \A y \in S : a <= y
    BY <2>1, <2>2, <2>3
  <2> HIDE DEF S
  <2> QED BY <1>2, <1>3, <1>4, <1>6, <2>4, LeastIs
<1> QED BY <1>5, <1>6

LEMMA OrdinaryStartIsFirst ==
  ASSUME NEW m, IsMember(m), ~m.bitfield, ~packed, bits \in Nat
  PROVE  OrdinaryStart(m) = FirstPlace(bits, m)
<1>1. 8 * MemAlign(m) \in Nat \ {0} /\ bits \in Int
  BY MemAlignType
<1>2. FirstPlace(bits, m) = FirstMultiple(bits, 8 * MemAlign(m))
  BY DEF FirstPlace, FirstMultiple, Unit, MayBegin
<1> QED BY <1>1, <1>2, FirstMultipleIs DEF OrdinaryStart

-----------------------------------------------------------------------------
(* The layout: what fills the struct up to each member *)

\* f[j] is the position up to which the members in front of the j-th fill it.
Fills(f, n) ==
  /\ f \in [1 .. n -> Nat] /\ f[1] = 0
  /\ \A j \in 2 .. n :
       f[j] = IF ZeroWidth(members[j - 1]) THEN FirstMultiple(f[j - 1], UnitBits(members[j - 1]))
              ELSE End(j - 1)

LaidOut(f) ==
  \A i \in 1 .. Len(places) :
    /\ MemAlign(members[i]) <= align
    /\ ~ZeroWidth(members[i]) => Start(i) = FirstPlace(f[i], members[i])

\* The loop of struct_decl() has laid out the members before This, and bits is
\* where they end.
Laying == kind = "struct" /\ ~packed =>
            \E f : Fills(f, Len(places) + 1) /\ LaidOut(f) /\ bits = f[Len(places) + 1]

Ended == phase = "done" => /\ Len(places) = Len(members)
                           /\ kind = "struct" => 8 * size = align_to(bits, 8 * align)

LInv == Laying /\ Ended

\* What fills the struct before any member is laid out.
LEMMA NothingLaid == places = <<>> /\ bits = 0 => Laying
<1> SUFFICES ASSUME places = <<>>, bits = 0 PROVE Laying
  OBVIOUS
<1> DEFINE f == [j \in 1 .. 1 |-> 0]
<1>1. Len(places) = 0 /\ Len(places) + 1 = 1
  OBVIOUS
<1>2. f[1] = 0 /\ f \in [1 .. 1 -> Nat]
  OBVIOUS
<1> HIDE DEF f
<1>3. Fills(f, Len(places) + 1) /\ LaidOut(f) /\ bits = f[Len(places) + 1]
  BY <1>1, <1>2 DEF Fills, LaidOut
<1> QED BY <1>3 DEF Laying

\* A round puts its member at the first place where it may begin.
LEMMA LaidNext ==
  ASSUME IInv, Laying, Placing("struct"), NEW p \in [offset : Nat, bit_offset : Nat],
         places' = Append(places, p), bits' \in Nat, RaiseAlign,
         UNCHANGED <<kind, phase, members, packed>>,
         MemAlign(This) \in Nat \ {0},
         ZeroWidth(This) => bits' = FirstMultiple(bits, UnitBits(This)),
         ~packed /\ ~ZeroWidth(This) =>
           /\ 8 * p.offset + p.bit_offset = FirstPlace(bits, This)
           /\ bits' = 8 * p.offset + p.bit_offset + Extent(This)
  PROVE  Laying'
<1> SUFFICES ASSUME ~packed
             PROVE  \E g : (Fills(g, Len(places) + 1) /\ LaidOut(g) /\ bits = g[Len(places) + 1])'
  BY DEF Laying
<1>0. PICK n \in Nat \ {0} : n = Len(places) + 1
  BY DEF IInv, TypeOK
<1>1. /\ places \in Seq([offset : Nat, bit_offset : Nat]) /\ Len(places) \in Nat
      /\ Len(places') = n /\ places'[n] = p
      /\ \A i \in 1 .. n - 1 : places'[i] = places[i]
  BY <1>0 DEF IInv, TypeOK
<1>2. PICK f : Fills(f, n) /\ LaidOut(f) /\ bits = f[n]
  BY <1>0 DEF Laying, Placing
<1>3. PICK g : /\ g \in [1 .. n + 1 -> Nat] /\ g[n + 1] = bits' /\ g[1] = 0 /\ g[n] = bits
               /\ \A j \in 1 .. n : g[j] = f[j]
  <2> DEFINE h == [j \in 1 .. n + 1 |-> IF j = n + 1 THEN bits' ELSE f[j]]
  <2>1. /\ h \in [1 .. n + 1 -> Nat] /\ h[n + 1] = bits' /\ h[1] = 0 /\ h[n] = bits
        /\ \A j \in 1 .. n : h[j] = f[j]
    BY <1>2 DEF Fills
  <2> HIDE DEF h
  <2> QED BY <2>1
<1>4. This = members[n] /\ members' = members
  BY <1>0 DEF This
<1>5. /\ \A i \in 1 .. n - 1 : Start(i)' = Start(i) /\ End(i)' = End(i)
      /\ Start(n)' = 8 * p.offset + p.bit_offset
      /\ End(n)' = 8 * p.offset + p.bit_offset + Extent(This)
  BY <1>1, <1>4 DEF Start, End, Extent
<1>6. Fills(g, Len(places) + 1)'
  <2>1. ASSUME NEW j \in 2 .. n + 1
        PROVE  g[j] = IF ZeroWidth(members'[j - 1])
                      THEN FirstMultiple(g[j - 1], UnitBits(members'[j - 1]))
                      ELSE End(j - 1)'
    <3>1. CASE j = n + 1
      <4>1. j - 1 = n
        BY <3>1
      <4> QED BY <1>3, <1>4, <1>5, <3>1, <4>1
    <3>2. CASE j # n + 1
      <4>1. j \in 2 .. n /\ j - 1 \in 1 .. n - 1
        BY <3>2
      <4>2. g[j] = f[j] /\ g[j - 1] = f[j - 1] /\ End(j - 1)' = End(j - 1)
        BY <1>3, <1>5, <4>1
      <4>3. f[j] = IF ZeroWidth(members[j - 1])
                   THEN FirstMultiple(f[j - 1], UnitBits(members[j - 1])) ELSE End(j - 1)
        BY <1>2, <4>1 DEF Fills
      <4> QED BY <1>4, <4>2, <4>3
    <3> QED BY <3>1, <3>2
  <2> QED BY <1>1, <1>3, <2>1 DEF Fills
<1>7. align \in Nat \ {0} /\ align' \in Nat \ {0} /\ align <= align' /\ MemAlign(This) <= align'
  BY DEF RaiseAlign, Larger, IInv, TypeOK
<1>8. LaidOut(g)'
  <2>1. ASSUME NEW i \in 1 .. n
        PROVE  /\ MemAlign(members[i]) <= align'
               /\ ~ZeroWidth(members[i]) => Start(i)' = FirstPlace(g[i], members[i])
    <3>1. CASE i = n
      BY <1>3, <1>4, <1>5, <1>7, <3>1
    <3>2. CASE i # n
      <4>1. i \in 1 .. n - 1 /\ i \in 1 .. Len(places) /\ i \in 1 .. Len(members)
        BY <1>0, <1>1, <3>2 DEF IInv, TypeOK
      <4>2. MemAlign(members[i]) \in Nat
        BY <4>1, MemAlignType DEF IInv, TypeOK
      <4>3. MemAlign(members[i]) <= align /\
            (~ZeroWidth(members[i]) => Start(i) = FirstPlace(f[i], members[i]))
        BY <1>2, <4>1 DEF LaidOut
      <4>4. MemAlign(members[i]) <= align'
        BY <1>7, <4>2, <4>3
      <4>5. g[i] = f[i] /\ Start(i)' = Start(i)
        BY <1>3, <1>5, <4>1
      <4> QED BY <4>3, <4>4, <4>5
    <3> QED BY <3>1, <3>2
  <2> QED BY <1>1, <1>4, <2>1 DEF LaidOut
<1>9. (bits = g[Len(places) + 1])'
  BY <1>1, <1>3
<1> QED BY <1>6, <1>8, <1>9

LEMMA NothingLaidNext == (places = <<>> /\ bits = 0 => Laying)'
  BY NothingLaid, PTL

LEMMA ZeroWidthLaid ==
  ASSUME IInv, LInv, PlaceZeroWidth
  PROVE  LInv'
<1>1. /\ phase = "place" /\ Placing("struct") /\ Len(places) < Len(members)
      /\ This.bitfield /\ This.width = 0 /\ RaiseAlign
      /\ bits' = align_to(bits, UnitBits(This)) /\ places' = Append(places, Place(0, 0))
      /\ UNCHANGED <<kind, phase, members, packed, flexible, size>>
  BY DEF PlaceZeroWidth, Placing
<1>2. MemAlign(This) \in Nat \ {0} /\ IsMember(This) /\ This.ty.size \in Nat \ {0}
  BY <1>1, ThisIsMember DEF IsMember
<1> UnitBits(This) \in Nat \ {0}
  BY <1>2 DEF UnitBits
<1>3. bits \in Nat /\ bits \in Int
  BY DEF IInv, TypeOK
<1>4. bits' = FirstMultiple(bits, UnitBits(This)) /\ bits' \in Nat
  <2>1. /\ align_to(bits, UnitBits(This)) \in Int /\ align_to(bits, UnitBits(This)) >= bits
        /\ FirstMultiple(bits, UnitBits(This)) = align_to(bits, UnitBits(This))
    BY <1>3, AlignTo, FirstMultipleIs
  <2> QED BY <1>1, <1>3, <2>1
<1>5. Place(0, 0) \in [offset : Nat, bit_offset : Nat] /\ ZeroWidth(This)
  BY <1>1 DEF Place, ZeroWidth
<1>6. Laying'
  BY <1>1, <1>2, <1>4, <1>5, LaidNext DEF LInv
<1> QED BY <1>1, <1>6 DEF LInv, Ended

LEMMA BitFieldLaid ==
  ASSUME IInv, LInv, PlaceBitField
  PROVE  LInv'
<1> DEFINE start == FieldStart(This)
           p == Place(align_down(start \div 8, This.ty.size), start % UnitBits(This))
<1>1. /\ phase = "place" /\ Placing("struct") /\ Len(places) < Len(members)
      /\ This.bitfield /\ This.width # 0 /\ RaiseAlign
      /\ places' = Append(places, p) /\ bits' = start + This.width
      /\ UNCHANGED <<kind, phase, members, packed, flexible, size>>
  BY DEF PlaceBitField, Placing
<1>2. /\ IsMember(This) /\ MemAlign(This) \in Nat \ {0} /\ UnitBits(This) \in Nat \ {0}
      /\ This.ty.size \in Nat \ {0} /\ UnitBits(This) = 8 * This.ty.size
      /\ This.width \in Nat
  BY <1>1, ThisIsMember DEF IsMember, UnitBits
<1>3. bits \in Nat /\ bits \in Int
  BY DEF IInv, TypeOK
<1>4. start \in Nat /\ start = FirstPlace(bits, This)
  <2>1. align_to(bits, UnitBits(This)) \in Int /\ align_to(bits, UnitBits(This)) >= bits
    BY <1>2, <1>3, AlignTo
  <2>2. start \in Nat
    BY <1>3, <2>1 DEF FieldStart
  <2> QED BY <1>1, <1>2, <1>3, <2>2, FieldStartIsFirst
<1>5. p \in [offset : Nat, bit_offset : Nat] /\ 8 * p.offset + p.bit_offset = start
  <2>1. /\ align_down(start \div 8, This.ty.size) \in Nat
        /\ start % (8 * This.ty.size) \in 0 .. 8 * This.ty.size - 1
        /\ 8 * align_down(start \div 8, This.ty.size) + (start % (8 * This.ty.size)) = start
    BY <1>2, <1>4, UnitOfBit
  <2> QED BY <1>2, <2>1 DEF Place
<1> HIDE DEF p, start
<1>6. bits' \in Nat /\ Extent(This) = This.width /\ ~ZeroWidth(This)
  BY <1>1, <1>2, <1>4 DEF Extent, ZeroWidth
<1>7. Laying'
  BY <1>1, <1>2, <1>4, <1>5, <1>6, LaidNext DEF LInv
<1> QED BY <1>1, <1>7 DEF LInv, Ended

LEMMA OrdinaryLaid ==
  ASSUME IInv, LInv, PlaceOrdinary
  PROVE  LInv'
<1> DEFINE start == OrdinaryStart(This)
           p == Place(start \div 8, 0)
<1>1. /\ phase = "place" /\ Placing("struct") /\ Len(places) < Len(members)
      /\ ~This.bitfield /\ RaiseAlign
      /\ places' = Append(places, p) /\ bits' = start + 8 * This.ty.size
      /\ UNCHANGED <<kind, phase, members, packed, flexible, size>>
  BY DEF PlaceOrdinary, Placing
<1>2. IsMember(This) /\ MemAlign(This) \in Nat \ {0} /\ This.ty.size \in Nat
  BY <1>1, ThisIsMember
<1>3. bits \in Nat /\ bits \in Int /\ 8 * MemAlign(This) \in Nat \ {0}
  BY <1>2 DEF IInv, TypeOK
<1>4. /\ align_to(bits, 8 * MemAlign(This)) \in Int
      /\ align_to(bits, 8 * MemAlign(This)) >= bits
  BY <1>3, AlignTo
<1>5. start \in Nat
  BY <1>3, <1>4 DEF OrdinaryStart
<1>6. start \div 8 \in Nat
  BY <1>5
<1>7. p \in [offset : Nat, bit_offset : Nat] /\ p.offset = start \div 8 /\ p.bit_offset = 0
  BY <1>6 DEF Place
<1>8. ~packed => start = FirstPlace(bits, This) /\ 8 * (start \div 8) = start
  <2> SUFFICES ASSUME ~packed PROVE start = FirstPlace(bits, This) /\ 8 * (start \div 8) = start
    OBVIOUS
  <2>1. start = FirstPlace(bits, This)
    BY <1>1, <1>2, <1>3, OrdinaryStartIsFirst
  <2> DEFINE a == MemAlign(This)
  <2>2. start = align_to(bits, 8 * a)
    BY DEF OrdinaryStart
  <2> HIDE DEF a
  <2>3. PICK k \in Int : start = (8 * a) * k
    BY <1>3, <2>2, AlignTo DEF a
  <2>4. start = 8 * (a * k) + 0 /\ a * k \in Int
    BY <1>2, <2>3 DEF a
  <2>5. start \div 8 = a * k
    <3>1. 0 \in 0 .. 8 - 1 /\ 8 \in Nat \ {0} /\ start \in Int
      BY <1>5
    <3> QED BY <2>4, <3>1, DivUnique
  <2> QED BY <2>1, <2>4, <2>5
<1> HIDE DEF p, start
<1>9. bits' \in Nat /\ Extent(This) = 8 * This.ty.size /\ ~ZeroWidth(This)
  BY <1>1, <1>2, <1>5 DEF Extent, ZeroWidth
<1>10. ~packed => /\ 8 * p.offset + p.bit_offset = FirstPlace(bits, This)
                  /\ bits' = 8 * p.offset + p.bit_offset + Extent(This)
  BY <1>1, <1>5, <1>7, <1>8, <1>9
<1>11. Laying'
  BY <1>1, <1>2, <1>7, <1>9, <1>10, LaidNext DEF LInv
<1> QED BY <1>1, <1>11 DEF LInv, Ended

\* A multiple of a struct's alignment in bits is a whole number of bytes.
LEMMA WholeSize ==
  ASSUME bits \in Nat, align \in Nat \ {0}
  PROVE  8 * (align_to(bits, 8 * align) \div 8) = align_to(bits, 8 * align)
<1> DEFINE u == 8 * align
           k == align_to(bits, u) \div u
           a == align_to(bits, u)
<1>1. u \in Nat \ {0} /\ bits \in Int
  OBVIOUS
<1> HIDE DEF u
<1>2. k \in Int /\ a = u * k /\ a \in Int
  BY <1>1, AlignTo
<1> HIDE DEF k, a
<1>3. a = 8 * (align * k) + 0 /\ align * k \in Int
  BY <1>2 DEF u
<1>4. a \div 8 = align * k
  <2>1. 0 \in 0 .. 8 - 1 /\ 8 \in Nat \ {0}
    OBVIOUS
  <2> QED BY <1>2, <1>3, <2>1, DivUnique
<1> QED BY <1>3, <1>4 DEF a, u

LEMMA EndLaid ==
  ASSUME IInv, LInv, EndStruct \/ EndUnion
  PROVE  LInv'
<1>1. /\ phase = "place" /\ phase' = "done" /\ Len(places) = Len(members)
      /\ kind = "struct" => size' = align_to(bits, 8 * align) \div 8
      /\ UNCHANGED <<kind, members, packed, align, bits, places>>
  BY DEF EndStruct, EndUnion
<1>2. Laying'
  BY <1>1 DEF LInv, Laying, Fills, LaidOut, End, Start
<1>3. kind = "struct" => 8 * size' = align_to(bits, 8 * align)
  BY <1>1, WholeSize DEF IInv, TypeOK
<1> QED BY <1>1, <1>2, <1>3 DEF LInv, Ended

LEMMA LInvNext == IInv /\ LInv /\ [Next]_vars => LInv'
<1> SUFFICES ASSUME IInv, LInv, [Next]_vars PROVE LInv'
  OBVIOUS
<1>1. ASSUME Pack \/ Aligned \/ OpenBrace \/ AddMember \/ CloseBrace \/ EndAttributes
      PROVE  LInv'
  <2>1. /\ phase \in {"head", "members", "tail"} /\ phase' # "done"
        /\ UNCHANGED <<bits, places>>
    BY <1>1 DEF Pack, Aligned, OpenBrace, AddMember, CloseBrace, EndAttributes
  <2>2. places = <<>> /\ bits = 0
    BY <2>1 DEF IInv, Ordered
  <2> QED BY <2>1, <2>2, NothingLaidNext DEF LInv, Ended
<1>2. CASE PlaceInUnion
  <2>1. kind' = "union" /\ phase' = "place"
    BY <1>2 DEF PlaceInUnion, Placing
  <2> QED BY <2>1 DEF LInv, Laying, Ended
<1>3. CASE UNCHANGED vars
  BY <1>3 DEF vars, LInv, Laying, Ended, Fills, LaidOut, End, Start
<1> QED BY <1>1, <1>2, <1>3, ZeroWidthLaid, BitFieldLaid, OrdinaryLaid, EndLaid DEF Next

LEMMA LInvInit == Init => LInv
<1> SUFFICES ASSUME Init PROVE LInv
  OBVIOUS
<1>1. Laying
  BY NothingLaid DEF Init
<1> QED BY <1>1 DEF Init, LInv, Ended

\* What fills the struct before each member is what the loop counted.
LEMMA FilledIs ==
  ASSUME NEW n \in Nat, n = Len(members), NEW f, Fills(f, n + 1)
  PROVE  \A i \in 1 .. n + 1 : FilledBefore(i) = f[i]
<1> DEFINE Eq(g) == g = [j \in 1 .. Len(members) + 1 |->
                          IF j = 1 THEN 0
                          ELSE IF ZeroWidth(members[j - 1])
                               THEN FirstMultiple(g[j - 1], UnitBits(members[j - 1]))
                               ELSE End(j - 1)]
           h == CHOOSE g : Eq(g)
<1>1. \A i : FilledBefore(i) = h[i]
  BY DEF FilledBefore
<1>2. Eq(f)
  BY DEF Fills
<1>3. Eq(h)
  BY <1>2
<1> HIDE DEF h
<1> DEFINE T == {k \in 1 .. n + 1 : h[k] # f[k]}
<1>4. T = {}
  <2> SUFFICES ASSUME T # {} PROVE FALSE
    OBVIOUS
  <2>1. PICK k \in T : \A y \in T : k <= y
    <3>1. T \subseteq Nat
      OBVIOUS
    <3> HIDE DEF T
    <3> QED BY <3>1, Smallest
  <2>2. k # 1
    BY <1>2, <1>3, <2>1
  <2>3. k - 1 \in 1 .. n + 1 /\ h[k - 1] = f[k - 1]
    BY <2>1, <2>2
  <2>4. h[k] = IF ZeroWidth(members[k - 1])
               THEN FirstMultiple(h[k - 1], UnitBits(members[k - 1])) ELSE End(k - 1)
    BY <1>3, <2>1, <2>2
  <2>5. f[k] = IF ZeroWidth(members[k - 1])
               THEN FirstMultiple(f[k - 1], UnitBits(members[k - 1])) ELSE End(k - 1)
    BY <1>2, <2>1, <2>2
  <2> QED BY <2>1, <2>3, <2>4, <2>5
<1> QED BY <1>1, <1>4

\* The rounding of struct_decl() gives every member of a struct the first place
\* the psABI allows, for every list of members that IsMember allows: no padding is
\* too much, none is missing, and the size is the first multiple of the alignment.
THEOREM StructLayoutIsABI == Spec => []LayoutIsABI
<1>1. IInv /\ LInv => LayoutIsABI
  <2> SUFFICES ASSUME IInv, LInv, phase = "done", kind = "struct", ~packed
               PROVE  /\ \A i \in 1 .. Len(members) : ~ZeroWidth(members[i]) =>
                           Start(i) = FirstPlace(FilledBefore(i), members[i])
                      /\ \A n \in StrictestAlign : align >= n
                      /\ 8 * size = FirstMultiple(FilledBefore(Len(members) + 1), 8 * align)
    BY DEF LayoutIsABI
  <2>1. Len(places) = Len(members) /\ 8 * size = align_to(bits, 8 * align)
    BY DEF LInv, Ended
  <2>2. PICK f : Fills(f, Len(members) + 1) /\ LaidOut(f) /\ bits = f[Len(members) + 1]
    BY <2>1 DEF LInv, Laying
  <2>3. PICK n \in Nat : n = Len(members)
    BY DEF IInv
  <2>4. \A i \in 1 .. n + 1 : FilledBefore(i) = f[i]
    BY <2>2, <2>3, FilledIs
  <2>5. \A i \in 1 .. Len(members) : ~ZeroWidth(members[i]) =>
          Start(i) = FirstPlace(FilledBefore(i), members[i])
    BY <2>1, <2>2, <2>3, <2>4 DEF LaidOut
  <2>6. \A k \in StrictestAlign : align >= k
    <3>1. align \in Nat \ {0}
      BY DEF IInv, TypeOK
    <3>2. \A i \in 1 .. Len(members) : MemAlign(members[i]) <= align
      BY <2>1, <2>2 DEF LaidOut
    <3>3. \A i \in 1 .. Len(members) : MemAlign(members[i]) \in Nat
      BY MemAlignType DEF IInv, TypeOK
    <3> QED BY <3>1, <3>2, <3>3 DEF StrictestAlign
  <2>7. 8 * size = FirstMultiple(FilledBefore(Len(members) + 1), 8 * align)
    <3>1. bits \in Int /\ 8 * align \in Nat \ {0}
      BY DEF IInv, TypeOK
    <3>2. FilledBefore(Len(members) + 1) = bits
      BY <2>2, <2>3, <2>4
    <3> QED BY <2>1, <3>1, <3>2, FirstMultipleIs
  <2> QED BY <2>5, <2>6, <2>7
<1> QED BY InitInv, NextInv, LInvInit, LInvNext, <1>1, PTL DEF Spec

-----------------------------------------------------------------------------
(* Where the code looks for a member *)

LEMMA ItemFacts ==
  ASSUME NEW m \in Item
  PROVE  /\ MemAlign(m) \in AllAlignments
         /\ m.ty.kind = "scalar" => m.ty.size \in {1, 2, 4, 8} /\ m.ty.unsigned \in BOOLEAN
         /\ m.bitfield => MemAlign(m) % m.ty.size = 0
<1>1. ASSUME NEW k \in Listed
      PROVE  /\ MemAlign(k) \in AllAlignments
             /\ k.ty.kind = "scalar" => k.ty.size \in {1, 2, 4, 8} /\ k.ty.unsigned \in BOOLEAN
             /\ k.bitfield => MemAlign(k) % k.ty.size = 0
             /\ IsFlexible(k) /\ k.alignas = 0 => k.ty.base.align \in AllAlignments
             /\ k.bitfield => ~IsFlexible(k)
  <2>1. PICK l \in Members, n \in STRING : k = Named(l, n)
    BY <1>1 DEF Listed
  <2>2. /\ k.ty = l.ty /\ k.alignas = l.alignas /\ k.bitfield = l.bitfield
        /\ k.width = l.width
    BY <2>1 DEF Named
  <2>3. MemAlign(k) = MemAlign(l) /\ IsFlexible(k) = IsFlexible(l)
    BY <2>2 DEF MemAlign, IsFlexible
  <2>4. MemAlign(l) \in AllAlignments
        /\ (IsFlexible(l) /\ l.alignas = 0 => l.ty.base.align \in AllAlignments)
    BY DEF AllAlignments
  <2>5. IsMember(l)
    BY MembersAssumption
  <2>6. k.bitfield => ~IsFlexible(k)
    BY <2>2, <2>5 DEF IsMember, IsFlexible
  <2> QED BY <2>2, <2>3, <2>4, <2>6, ScalarsAssumption, PowersAssumption
<1>2. ASSUME NEW k \in Listed, IsFlexible(k)
      PROVE  /\ MemAlign(NoElements(k)) \in AllAlignments
             /\ NoElements(k).ty.kind = "array" /\ ~NoElements(k).bitfield
  <2>1. /\ NoElements(k).ty.kind = "array" /\ NoElements(k).bitfield = k.bitfield
        /\ MemAlign(NoElements(k)) = IF k.alignas # 0 THEN k.alignas ELSE k.ty.base.align
    BY DEF NoElements, MemAlign
  <2>2. k.alignas # 0 => MemAlign(k) = k.alignas
    BY DEF MemAlign
  <2>3. IsMember(k)
    BY ItemIsMember DEF Item
  <2> QED BY <1>1, <1>2, <2>1, <2>2, <2>3 DEF IsMember
<1>3. CASE m \in Listed
  BY <1>1, <1>3
<1>4. CASE m \in Emptied
  <2>1. PICK k \in Listed : IsFlexible(k) /\ m = NoElements(k)
    BY <1>4 DEF Emptied
  <2> QED BY <1>2, <2>1
<1> QED BY <1>3, <1>4 DEF Item

\* An ordinary member begins with a byte, a bit-field's unit at a multiple of its
\* size, and in a union everything begins at 0 and fits.
Slotted ==
  \A i \in 1 .. Len(places) :
    /\ ~members[i].bitfield => places[i].bit_offset = 0
    /\ kind = "struct" /\ members[i].bitfield =>
         \E q \in Int : places[i].offset = q * members[i].ty.size
    /\ kind = "union" => places[i].offset = 0 /\ places[i].bit_offset = 0
                         /\ members[i].ty.size <= size

SInv == Slotted /\ align \in AllAlignments

LEMMA SlottedNext ==
  ASSUME IInv, SInv, phase = "place", Len(places) < Len(members),
         NEW p \in [offset : Nat, bit_offset : Nat], places' = Append(places, p),
         UNCHANGED <<kind, members>>, kind \in {"struct", "union"},
         size' \in Nat, size' >= size,
         ~This.bitfield => p.bit_offset = 0,
         kind = "struct" /\ This.bitfield => \E q \in Int : p.offset = q * This.ty.size,
         kind = "union" => p.offset = 0 /\ p.bit_offset = 0 /\ This.ty.size <= size'
  PROVE  Slotted'
<1>0. PICK n \in Nat \ {0} : n = Len(places) + 1
  BY DEF IInv, TypeOK
<1>1. /\ places \in Seq([offset : Nat, bit_offset : Nat]) /\ Len(places) \in Nat
      /\ Len(places') = n /\ places'[n] = p
      /\ \A i \in 1 .. n - 1 : places'[i] = places[i]
  BY <1>0 DEF IInv, TypeOK
<1>2. This = members[n]
  BY <1>0 DEF This
<1>3. ASSUME NEW i \in 1 .. n, i # n
      PROVE  kind = "union" => members[i].ty.size <= size'
  <2>1. i \in 1 .. Len(places) /\ i \in 1 .. Len(members)
    BY <1>0, <1>1, <1>3 DEF IInv, TypeOK
  <2>2. members[i].ty.size \in Int /\ size \in Nat
    BY <2>1 DEF IInv, TypeOK, IsMember
  <2> QED BY <2>1, <2>2 DEF SInv, Slotted
<1>4. ASSUME NEW i \in 1 .. n
      PROVE  /\ ~members[i].bitfield => places'[i].bit_offset = 0
             /\ kind = "struct" /\ members[i].bitfield =>
                  \E q \in Int : places'[i].offset = q * members[i].ty.size
             /\ kind = "union" => places'[i].offset = 0 /\ places'[i].bit_offset = 0
                                  /\ members[i].ty.size <= size'
  <2>1. CASE i = n
    BY <1>1, <1>2, <2>1
  <2>2. CASE i # n
    <3>1. i \in 1 .. Len(places) /\ places'[i] = places[i]
      BY <1>0, <1>1, <2>2
    <3> QED BY <1>3, <2>2, <3>1 DEF SInv, Slotted
  <2> QED BY <2>1, <2>2
<1> QED BY <1>1, <1>4 DEF Slotted

LEMMA AlignStays ==
  ASSUME IInv, SInv, phase = "place", Len(places) < Len(members),
         align' \in {align, Larger(align, MemAlign(This))}
  PROVE  align' \in AllAlignments
<1>1. This \in Item
  BY ThisIsMember
<1> QED BY <1>1, ItemFacts DEF Larger, SInv

LEMMA SInvNext == IInv /\ SInv /\ [Next]_vars => SInv'
<1> SUFFICES ASSUME IInv, SInv, [Next]_vars PROVE SInv'
  OBVIOUS
<1>0. bits \in Nat /\ size \in Nat /\ align \in Nat \ {0}
  BY DEF IInv, TypeOK
<1>1. ASSUME Pack \/ Aligned \/ OpenBrace \/ AddMember \/ CloseBrace \/ EndAttributes
      PROVE  SInv'
  <2>1. phase \in {"head", "members", "tail"} /\ places' = places
    BY <1>1 DEF Pack, Aligned, OpenBrace, AddMember, CloseBrace, EndAttributes
  <2>2. Len(places') = 0
    BY <2>1 DEF IInv, Ordered
  <2>3. align' \in AllAlignments
    BY <1>1 DEF Pack, Aligned, OpenBrace, AddMember, CloseBrace, EndAttributes, SInv, AllAlignments
  <2> QED BY <2>2, <2>3 DEF SInv, Slotted
<1>2. CASE PlaceZeroWidth
  <2>1. /\ phase = "place" /\ kind = "struct" /\ Len(places) < Len(members)
        /\ This.bitfield /\ places' = Append(places, Place(0, 0))
        /\ align' \in {align, Larger(align, MemAlign(This))}
        /\ UNCHANGED <<kind, members, size>>
    BY <1>2 DEF PlaceZeroWidth, Placing, RaiseAlign
  <2>2. /\ Place(0, 0) \in [offset : Nat, bit_offset : Nat] /\ Place(0, 0).bit_offset = 0
        /\ Place(0, 0).offset = 0
    BY DEF Place
  <2>3. This.ty.size \in Nat /\ 0 = 0 * This.ty.size
    BY <2>1, ThisIsMember
  <2>4. \E q \in Int : Place(0, 0).offset = q * This.ty.size
    BY <2>2, <2>3
  <2>5. Slotted'
    BY <1>0, <2>1, <2>2, <2>4, SlottedNext
  <2> QED BY <2>1, <2>5, AlignStays DEF SInv
<1>3. CASE PlaceBitField
  <2> DEFINE start == FieldStart(This)
             p == Place(align_down(start \div 8, This.ty.size), start % UnitBits(This))
  <2>1. /\ phase = "place" /\ kind = "struct" /\ Len(places) < Len(members)
        /\ This.bitfield /\ places' = Append(places, p)
        /\ align' \in {align, Larger(align, MemAlign(This))}
        /\ UNCHANGED <<kind, members, size>>
    BY <1>3 DEF PlaceBitField, Placing, RaiseAlign
  <2>2. /\ IsMember(This) /\ UnitBits(This) = 8 * This.ty.size /\ This.ty.size \in Nat \ {0}
    BY <2>1, ThisIsMember DEF IsMember, UnitBits
  <2>3. start \in Nat
    <3>1. bits \in Int /\ UnitBits(This) \in Nat \ {0}
      BY <1>0, <2>2
    <3>2. align_to(bits, UnitBits(This)) \in Int /\ align_to(bits, UnitBits(This)) >= bits
      BY <3>1, AlignTo
    <3> QED BY <1>0, <3>2 DEF FieldStart
  <2>4. p \in [offset : Nat, bit_offset : Nat]
    <3>1. /\ align_down(start \div 8, This.ty.size) \in Nat
          /\ start % (8 * This.ty.size) \in 0 .. 8 * This.ty.size - 1
      BY <2>2, <2>3, UnitOfBit
    <3> QED BY <2>2, <3>1 DEF Place
  <2>5. \E q \in Int : p.offset = q * This.ty.size
    <3>1. start \div 8 \in Int
      BY <2>3
    <3>2. (start \div 8) \div This.ty.size \in Int
      BY <2>2, <3>1, DivMod
    <3>3. p.offset = ((start \div 8) \div This.ty.size) * This.ty.size
      BY <2>2, <3>1, AlignDown DEF Place
    <3> QED BY <3>2, <3>3
  <2> HIDE DEF p, start
  <2>6. Slotted'
    BY <1>0, <2>1, <2>4, <2>5, SlottedNext
  <2> QED BY <2>1, <2>6, AlignStays DEF SInv
<1>4. CASE PlaceOrdinary
  <2> DEFINE p == Place(OrdinaryStart(This) \div 8, 0)
  <2>1. /\ phase = "place" /\ kind = "struct" /\ Len(places) < Len(members)
        /\ ~This.bitfield /\ places' = Append(places, p)
        /\ align' \in {align, Larger(align, MemAlign(This))}
        /\ UNCHANGED <<kind, members, size>>
    BY <1>4 DEF PlaceOrdinary, Placing, RaiseAlign
  <2>2. OrdinaryStart(This) \in Nat
    <3>1. MemAlign(This) \in Nat \ {0}
      BY <2>1, ThisIsMember
    <3>2. bits \in Int /\ 8 * MemAlign(This) \in Nat \ {0}
      BY <1>0, <3>1
    <3>3. /\ align_to(bits, 8 * MemAlign(This)) \in Int
          /\ align_to(bits, 8 * MemAlign(This)) >= bits
      BY <3>2, AlignTo
    <3> QED BY <1>0, <3>3 DEF OrdinaryStart
  <2>3. p \in [offset : Nat, bit_offset : Nat] /\ p.bit_offset = 0
    BY <2>2 DEF Place
  <2> HIDE DEF p
  <2>4. Slotted'
    BY <1>0, <2>1, <2>3, SlottedNext
  <2> QED BY <2>1, <2>4, AlignStays DEF SInv
<1>5. CASE PlaceInUnion
  <2>1. /\ phase = "place" /\ kind = "union" /\ Len(places) < Len(members)
        /\ places' = Append(places, Place(0, 0))
        /\ align' \in {align, Larger(align, MemAlign(This))}
        /\ size' = Larger(size, This.ty.size)
        /\ UNCHANGED <<kind, members>>
    BY <1>5 DEF PlaceInUnion, Placing
  <2>2. /\ Place(0, 0) \in [offset : Nat, bit_offset : Nat] /\ Place(0, 0).bit_offset = 0
        /\ Place(0, 0).offset = 0
    BY DEF Place
  <2>3. size' \in Nat /\ size' >= size /\ This.ty.size <= size'
    <3>1. This.ty.size \in Nat
      BY <2>1, ThisIsMember
    <3> QED BY <1>0, <2>1, <3>1 DEF Larger
  <2>4. Slotted'
    BY <2>1, <2>2, <2>3, SlottedNext
  <2> QED BY <2>1, <2>4, AlignStays DEF SInv
<1>6. CASE EndStruct \/ EndUnion
  <2>1. /\ UNCHANGED <<kind, members, places, align>>
        /\ kind = "union" => size' = align_to(size, align)
    BY <1>6 DEF EndStruct, EndUnion
  <2>2. align_to(size, align) \in Int /\ align_to(size, align) >= size
    BY <1>0, AlignTo
  <2>3. ASSUME NEW i \in 1 .. Len(places), kind = "union" PROVE members[i].ty.size <= size'
    <3>1. i \in 1 .. Len(members)
      BY DEF IInv, TypeOK
    <3>2. members[i].ty.size \in Int
      BY <3>1 DEF IInv, TypeOK, IsMember
    <3> QED BY <1>0, <2>1, <2>2, <2>3, <3>2 DEF SInv, Slotted
  <2> QED BY <2>1, <2>3 DEF SInv, Slotted
<1>7. CASE UNCHANGED vars
  BY <1>7 DEF vars, SInv, Slotted
<1> QED BY <1>1, <1>2, <1>3, <1>4, <1>5, <1>6, <1>7 DEF Next

LEMMA SInvInit == Init => SInv
<1> SUFFICES ASSUME Init PROVE SInv
  OBVIOUS
<1>1. Len(places) = 0 /\ align = 1
  BY DEF Init
<1> QED BY <1>1 DEF SInv, Slotted, AllAlignments

-----------------------------------------------------------------------------
(* The instructions *)

\* The sizes of what is loaded.
Sizes == {1, 2, 4, 8}

SlotAt(off, bf, w, bo) == [offset |-> off, bitfield |-> bf, width |-> w, bit_offset |-> bo]

\* n bits of mem from position b on, in a register.
Fetched(mem, b, n, unsigned) ==
  [k \in Register |-> IF k < n THEN mem[b + k] ELSE IF unsigned THEN Zero ELSE mem[b + n - 1]]

\* The loads and shifts fetch the bits of a bit-field.
LEMMA ReadField ==
  ASSUME NEW mem, NEW ty, NEW off, NEW bf, NEW w, NEW bo, bf = TRUE,
         ty.size \in Sizes, ty.unsigned \in BOOLEAN,
         off \in Nat, w \in Nat, w # 0, bo \in Nat, bo + w <= 8 * ty.size
  PROVE  ReadMember(mem, SlotAt(off, bf, w, bo), ty) = Fetched(mem, 8 * off + bo, w, ty.unsigned)
<1> DEFINE slot == SlotAt(off, bf, w, bo)
           s == 64 - w - bo
           u == [k \in Register |-> IF k < 8 * ty.size THEN mem[8 * off + k]
                                    ELSE IF ty.unsigned THEN Zero ELSE mem[8 * off + 8 * ty.size - 1]]
           up == [k \in Register |-> IF k < s THEN Zero ELSE u[k - s]]
<1>0. /\ slot.offset = off /\ slot.bitfield = TRUE /\ slot.width = w /\ slot.bit_offset = bo
      /\ w <= 64 /\ s \in 0 .. 63 /\ 8 * ty.size <= 64 /\ 8 * ty.size \in Nat
  BY DEF SlotAt, Sizes
<1>1. LoadUnit(mem, slot, ty) = u
  BY <1>0 DEF LoadUnit, Load
<1>2. slli(LoadUnit(mem, slot, ty), 64 - slot.width - slot.bit_offset) = up
  <2>1. 64 - slot.width - slot.bit_offset = s
    BY <1>0
  <2> HIDE DEF slot, s, u
  <2> QED BY <1>1, <2>1 DEF slli
<1>3. ReadMember(mem, slot, ty) =
        IF ty.unsigned THEN srli(up, 64 - w) ELSE srai(up, 64 - w)
  BY <1>0, <1>2 DEF ReadMember
<1>4. ASSUME NEW k \in 0 .. w - 1
      PROVE  k \in Register /\ ~(k + (64 - w) > 63) /\ up[k + (64 - w)] = mem[8 * off + bo + k]
  <2>1. k + (64 - w) \in Register /\ k + (64 - w) >= s /\ k + (64 - w) - s = bo + k
    BY <1>0 DEF Register
  <2>2. bo + k \in Register /\ bo + k < 8 * ty.size
    BY <1>0 DEF Register
  <2>3. u[bo + k] = mem[8 * off + (bo + k)] /\ 8 * off + (bo + k) = 8 * off + bo + k
    BY <2>2
  <2>4. up[k + (64 - w)] = u[bo + k]
    BY <1>0, <2>1
  <2>5. k \in Register /\ ~(k + (64 - w) > 63)
    BY <1>0 DEF Register
  <2> QED BY <2>3, <2>4, <2>5
<1>5. up[63] = mem[8 * off + bo + w - 1]
  <2>1. w - 1 \in 0 .. w - 1 /\ (w - 1) + (64 - w) = 63 /\ 8 * off + bo + (w - 1) = 8 * off + bo + w - 1
    BY <1>0
  <2>2. up[(w - 1) + (64 - w)] = mem[8 * off + bo + (w - 1)]
    BY <1>4, <2>1
  <2> HIDE DEF up
  <2> QED BY <2>1, <2>2
<1> HIDE DEF up, u, slot, s
<1>6. ASSUME NEW k \in Register
      PROVE  /\ ty.unsigned => srli(up, 64 - w)[k] = Fetched(mem, 8 * off + bo, w, TRUE)[k]
             /\ ~ty.unsigned => srai(up, 64 - w)[k] = Fetched(mem, 8 * off + bo, w, FALSE)[k]
  <2>1. CASE k < w
    <3>1. k \in 0 .. w - 1
      BY <2>1 DEF Register
    <3> QED BY <1>4, <2>1, <3>1 DEF srli, srai, Fetched
  <2>2. CASE ~(k < w)
    <3>1. k + (64 - w) > 63
      BY <1>0, <2>2 DEF Register
    <3> QED BY <1>5, <2>2, <3>1 DEF srli, srai, Fetched
  <2> QED BY <2>1, <2>2
<1>7. CASE ty.unsigned
  <2>1. ty.unsigned = TRUE
    BY <1>7
  <2>2. srli(up, 64 - w) = Fetched(mem, 8 * off + bo, w, TRUE)
    BY <1>6, <2>1 DEF srli, Fetched
  <2> QED BY <1>3, <2>1, <2>2 DEF slot
<1>8. CASE ~ty.unsigned
  <2>1. ty.unsigned = FALSE
    BY <1>8
  <2>2. srai(up, 64 - w) = Fetched(mem, 8 * off + bo, w, FALSE)
    BY <1>6, <2>1 DEF srai, Fetched
  <2> QED BY <1>3, <2>1, <2>2 DEF slot
<1> QED BY <1>7, <1>8

LEMMA ReadOrdinary ==
  ASSUME NEW mem, NEW ty, NEW off, NEW bf, NEW w, bf = FALSE,
         ty.size \in Sizes, ty.unsigned \in BOOLEAN, off \in Nat
  PROVE  ReadMember(mem, SlotAt(off, bf, w, 0), ty) = Fetched(mem, 8 * off, 8 * ty.size, ty.unsigned)
<1>1. ReadMember(mem, SlotAt(off, bf, w, 0), ty) = Load(mem, off, ty.size, ty.unsigned)
  BY DEF ReadMember, LoadUnit, SlotAt
<1> QED BY <1>1 DEF Load, Fetched

\* What is between the masks: the value at its place, and the rest of the unit.
LEMMA MergedIs ==
  ASSUME NEW mem, NEW ty, NEW value, NEW slot, NEW k,
         slot.width \in 1 .. 63, slot.bit_offset \in Nat, k \in Register
  PROVE  Merged(mem, slot, ty, value)[k] =
           IF k \in slot.bit_offset .. slot.bit_offset + slot.width - 1
           THEN value[k - slot.bit_offset] ELSE LoadUnit(mem, slot, ty)[k]
<1>0. PICK w \in 1 .. 63, bo \in Nat : slot.width = w /\ slot.bit_offset = bo
  OBVIOUS
<1> DEFINE u == LoadUnit(mem, slot, ty)
           t0 == slli(And(value, Mask(w)), bo)
           ones == Shifted(Mask(w), bo)
<1>1. Mask(w) = 0 .. w - 1
  <2>1. w % 64 = w
    BY SMT
  <2> QED BY <2>1 DEF Mask
<1>2. k \in ones <=> k \in bo .. bo + w - 1
  <2>1. ASSUME k \in ones PROVE k \in bo .. bo + w - 1
    <3>1. PICK j \in 0 .. w - 1 : k = j + bo
      BY <1>1, <2>1 DEF Shifted
    <3> QED BY <3>1
  <2>2. ASSUME k \in bo .. bo + w - 1 PROVE k \in ones
    <3>1. k - bo \in 0 .. w - 1 /\ k = (k - bo) + bo
      BY <2>2 DEF Register
    <3> QED BY <1>1, <3>1 DEF Shifted
  <2> QED BY <2>1, <2>2
<1>3. t0[k] = IF k \in bo .. bo + w - 1 THEN value[k - bo] ELSE Zero
  <2>1. t0[k] = IF k < bo THEN Zero ELSE And(value, Mask(w))[k - bo]
    BY DEF slli
  <2>2. CASE k < bo
    BY <2>1, <2>2 DEF Register
  <2>3. CASE ~(k < bo)
    <3>1. k - bo \in Register
      BY <2>3 DEF Register
    <3>2. And(value, Mask(w))[k - bo] = IF k - bo \in 0 .. w - 1 THEN value[k - bo] ELSE Zero
      BY <1>1, <3>1 DEF And
    <3>3. k - bo \in 0 .. w - 1 <=> k \in bo .. bo + w - 1
      BY <2>3 DEF Register
    <3> QED BY <2>1, <2>3, <3>2, <3>3
  <2> QED BY <2>2, <2>3
<1>4. Merged(mem, slot, ty, value) = Or(And(u, Register \ ones), t0)
  BY <1>0 DEF Merged
<1>5. And(u, Register \ ones)[k] = IF k \in ones THEN Zero ELSE u[k]
  BY DEF And
<1>6. Or(And(u, Register \ ones), t0)[k] =
        IF And(u, Register \ ones)[k] = Zero THEN t0[k]
        ELSE IF t0[k] = Zero THEN And(u, Register \ ones)[k] ELSE <<"lost">>
  BY DEF Or
<1> HIDE DEF u, t0, ones
<1>7. Or(And(u, Register \ ones), t0)[k] = IF k \in bo .. bo + w - 1 THEN value[k - bo] ELSE u[k]
  BY <1>2, <1>3, <1>5, <1>6
<1> QED BY <1>0, <1>4, <1>7 DEF u

\* A place for a value of type ty: ext bits from bit bo of the unit at off on.
Fits(ty, off, bf, w, bo, ext) ==
  /\ ty.size \in Sizes /\ off \in Nat /\ bf \in BOOLEAN /\ w \in Nat /\ bo \in Nat /\ ext \in Nat
  /\ bf => w \in 1 .. 63 /\ bo + w <= 8 * ty.size /\ ext = w
  /\ ~bf => bo = 0 /\ ext = 8 * ty.size

\* Bit k of the value, which is bit p of the memory.
BitOfValue(ty, off, bf, w, bo, ext, k, p) ==
  Fits(ty, off, bf, w, bo, ext) /\ k \in 0 .. ext - 1 /\ p = 8 * off + bo + k

\* Bit k of the unit, which is bit p of the memory and bit j of the field.
BitOfUnit(ty, off, bf, w, bo, k, p, j) ==
  /\ Fits(ty, off, bf, w, bo, w) /\ bf
  /\ k \in 0 .. 8 * ty.size - 1 /\ p = 8 * off + k /\ j = k - bo

InField(j, w) == j \in 0 .. w - 1

\* What is stored: bit k of the unit is a bit of the value or what it was.
LEMMA StoredReg ==
  ASSUME NEW mem, NEW ty, NEW value, NEW off, NEW bf, NEW w, NEW bo, NEW k, NEW p, NEW j,
         BitOfUnit(ty, off, bf, w, bo, k, p, j)
  PROVE  /\ InField(j, w) => Merged(mem, SlotAt(off, bf, w, bo), ty, value)[k] = value[j]
         /\ ~InField(j, w) => Merged(mem, SlotAt(off, bf, w, bo), ty, value)[k] = mem[p]
<1>0. /\ ty.size \in Sizes /\ off \in Nat /\ w \in 1 .. 63 /\ bo \in Nat /\ bo + w <= 8 * ty.size
      /\ k \in 0 .. 8 * ty.size - 1 /\ p = 8 * off + k /\ j = k - bo
  BY DEF BitOfUnit, Fits
<1> DEFINE slot == SlotAt(off, bf, w, bo)
<1>1. slot.width = w /\ slot.bit_offset = bo /\ slot.offset = off
  BY DEF SlotAt
<1>2. k \in Register
  BY <1>0 DEF Register, Sizes
<1>3. LoadUnit(mem, slot, ty)[k] = mem[p]
  <2>1. k < 8 * ty.size
    BY <1>0 DEF Sizes
  <2>2. LoadUnit(mem, slot, ty) = Load(mem, off, ty.size, ty.unsigned)
    BY <1>1 DEF LoadUnit
  <2>3. Load(mem, off, ty.size, ty.unsigned)[k] = mem[8 * off + k]
    BY <1>2, <2>1 DEF Load
  <2> QED BY <1>0, <2>2, <2>3
<1> HIDE DEF slot
<1>4. Merged(mem, slot, ty, value)[k] =
        IF k \in bo .. bo + w - 1 THEN value[k - bo] ELSE LoadUnit(mem, slot, ty)[k]
  <2>1. slot.width \in 1 .. 63 /\ slot.bit_offset \in Nat
    BY <1>0, <1>1
  <2>2. Merged(mem, slot, ty, value)[k] =
          IF k \in slot.bit_offset .. slot.bit_offset + slot.width - 1
          THEN value[k - slot.bit_offset] ELSE LoadUnit(mem, slot, ty)[k]
    BY <1>2, <2>1, MergedIs
  <2> QED BY <1>1, <2>2
<1>5. value[k - bo] = value[j] /\ (InField(j, w) <=> k \in bo .. bo + w - 1)
  BY <1>0 DEF InField
<1> QED BY <1>3, <1>4, <1>5 DEF slot

\* A store changes the bits of its member ...
LEMMA StoredOwn ==
  ASSUME NEW mem, NEW ty, NEW value, NEW off, NEW bf, NEW w, NEW bo, NEW ext, NEW p, NEW k,
         BitOfValue(ty, off, bf, w, bo, ext, k, p), p \in DOMAIN mem
  PROVE  WriteMember(mem, SlotAt(off, bf, w, bo), ty, value)[p] = value[k]
<1> DEFINE slot == SlotAt(off, bf, w, bo)
           reg == IF bf THEN Merged(mem, slot, ty, value) ELSE value
<1>0. slot.offset = off /\ slot.bitfield = bf
  BY DEF SlotAt
<1> USE DEF Fits, BitOfValue
<1>1. PICK n : n = bo + k /\ n = p - 8 * off
  OBVIOUS
<1>2. n \in 0 .. 8 * ty.size - 1
  BY <1>1 DEF Sizes
<1>3. WriteMember(mem, slot, ty, value)[p] = reg[n]
  BY <1>0, <1>1, <1>2 DEF WriteMember, Store
<1>4. CASE ~bf
  BY <1>1, <1>3, <1>4
<1>5. CASE bf
  <2>1. bf = TRUE /\ w \in 1 .. 63 /\ bo + w <= 8 * ty.size /\ ext = w
    BY <1>5
  <2>2. p = 8 * off + n /\ n \in bo .. bo + w - 1 /\ n - bo = k
    BY <1>1, <2>1
  <2>3. BitOfUnit(ty, off, bf, w, bo, n, p, k) /\ k \in 0 .. w - 1
    BY <1>2, <2>1, <2>2 DEF BitOfUnit
  <2>4. Merged(mem, SlotAt(off, bf, w, bo), ty, value)[n] = value[k]
    <3>1. BitOfUnit(ty, off, bf, w, bo, n, p, k)
      BY <2>3
    <3>2. InField(k, w)
      BY <2>3 DEF InField
    <3> QED BY ONLY <3>1, <3>2, StoredReg
  <2> QED BY <1>3, <2>1, <2>4
<1> QED BY <1>4, <1>5

\* ... and no others.
LEMMA StoredOther ==
  ASSUME NEW mem, NEW ty, NEW value, NEW off, NEW bf, NEW w, NEW bo, NEW ext, NEW p,
         Fits(ty, off, bf, w, bo, ext),
         p \in DOMAIN mem, p \in Nat, p < 8 * off + bo \/ p >= 8 * off + bo + ext
  PROVE  WriteMember(mem, SlotAt(off, bf, w, bo), ty, value)[p] = mem[p]
<1> DEFINE slot == SlotAt(off, bf, w, bo)
           reg == IF bf THEN Merged(mem, slot, ty, value) ELSE value
<1>0. slot.offset = off /\ slot.bitfield = bf
  BY DEF SlotAt
<1>1. off \in Nat /\ w \in Nat /\ bo \in Nat /\ p \in Nat /\ ext \in Nat
  BY DEF Fits
<1>2. PICK n \in Int : n = p - 8 * off /\ p = 8 * off + n
  BY <1>1
<1>3. WriteMember(mem, slot, ty, value)[p] = IF n \in 0 .. 8 * ty.size - 1 THEN reg[n] ELSE mem[p]
  BY <1>0, <1>2 DEF WriteMember, Store
<1>4. CASE ~(n \in 0 .. 8 * ty.size - 1)
  BY <1>3, <1>4
<1>5. CASE n \in 0 .. 8 * ty.size - 1
  <2>1. n < bo \/ n >= bo + ext
    BY <1>1, <1>2
  <2>2. bf
    BY <1>1, <1>2, <1>5, <2>1 DEF Fits, Sizes
  <2>3. bf = TRUE /\ ext = w
    BY <2>2 DEF Fits
  <2>4. PICK j \in Int : j = n - bo
    BY <1>1, <1>2
  <2>5. ~(j \in 0 .. w - 1)
    <3>1. n < bo \/ n >= bo + w
      BY <2>1, <2>3, Zenon
    <3>2. n \in Int /\ bo \in Nat /\ w \in Nat /\ j = n - bo
      BY <1>1, <1>2, <2>4, Zenon
    <3> QED BY ONLY <3>1, <3>2
  <2>6. Fits(ty, off, bf, w, bo, w)
    BY <2>3 DEF Fits
  <2>7. BitOfUnit(ty, off, bf, w, bo, n, p, j)
    BY <1>2, <1>5, <2>2, <2>4, <2>6 DEF BitOfUnit
  <2>8. ~InField(j, w)
    BY <2>5 DEF InField
  <2>9. Merged(mem, SlotAt(off, bf, w, bo), ty, value)[n] = mem[p]
    BY ONLY <2>7, <2>8, StoredReg
  <2> QED BY <1>3, <1>5, <2>3, <2>9
<1> QED BY <1>4, <1>5

-----------------------------------------------------------------------------
(* The members of one object *)

\* A scalar member: its bits lie within the object and within what is loaded.
LEMMA ScalarAt ==
  ASSUME IInv, LInv, SInv, phase = "done", ~Mixed, NEW i \in Scalars
  PROVE  /\ i \in 1 .. Len(places) /\ members[i] \in Item
         /\ members[i].ty.size \in Sizes /\ members[i].ty.unsigned \in BOOLEAN
         /\ members[i].bitfield \in BOOLEAN /\ members[i].width \in Nat
         /\ places[i].offset \in Nat /\ places[i].bit_offset \in Nat
         /\ Extent(members[i]) \in 1 .. 64
         /\ members[i].bitfield =>
              /\ Extent(members[i]) = members[i].width
              /\ places[i].bit_offset + members[i].width <= 8 * members[i].ty.size
         /\ ~members[i].bitfield =>
              places[i].bit_offset = 0 /\ Extent(members[i]) = 8 * members[i].ty.size
         /\ Start(i) = 8 * places[i].offset + places[i].bit_offset
         /\ Start(i) + Extent(members[i]) <= 8 * size
<1> DEFINE m == members[i]
<1>1. /\ i \in 1 .. Len(members) /\ i \in 1 .. Len(places)
      /\ m.ty.kind = "scalar" /\ ~ZeroWidth(m)
  BY DEF Scalars, LInv, Ended
<1>2. m \in Item /\ IsMember(m)
  BY <1>1, ElementOfSeq, ItemIsMember DEF IInv
<1>3. m.ty.size \in Sizes /\ m.ty.unsigned \in BOOLEAN
  BY <1>1, <1>2, ItemFacts DEF Sizes
<1>4. m.bitfield \in BOOLEAN /\ m.width \in Nat /\ (m.bitfield => m.width <= 8 * m.ty.size)
  BY <1>2 DEF IsMember
<1>5. places[i].offset \in Nat /\ places[i].bit_offset \in Nat
  <2>1. places[i] \in [offset : Nat, bit_offset : Nat]
    BY <1>1, ElementOfSeq DEF IInv, TypeOK
  <2> QED BY <2>1
<1>6. Start(i) = 8 * places[i].offset + places[i].bit_offset
  BY DEF Start
<1>7. m.bitfield => Extent(m) = m.width /\ m.width # 0
  BY <1>1 DEF Extent, ZeroWidth
<1>8. ~m.bitfield => Extent(m) = 8 * m.ty.size /\ places[i].bit_offset = 0
  BY <1>1 DEF Extent, SInv, Slotted
<1>9. Extent(m) \in 1 .. 64
  BY <1>3, <1>4, <1>7, <1>8 DEF Sizes
<1>10. size \in Nat /\ bits \in Nat /\ kind \in {"struct", "union"}
  BY KindsAssumption DEF IInv, TypeOK
<1> HIDE DEF m
<1>11. CASE kind = "struct"
  <2>1. /\ End(i) <= bits /\ bits <= 8 * size
        /\ m.bitfield => places[i].bit_offset + m.width <= 8 * m.ty.size
    BY <1>1, <1>11 DEF IInv, MembersDisjoint, UnitBits, m
  <2>2. End(i) = Start(i) + Extent(m)
    BY DEF End, m
  <2>3. Start(i) + Extent(m) <= 8 * size
    BY <1>5, <1>6, <1>9, <1>10, <2>1, <2>2
  <2> QED BY <1>1, <1>2, <1>3, <1>4, <1>5, <1>6, <1>7, <1>8, <1>9, <2>1, <2>3 DEF m
<1>12. CASE kind = "union"
  <2>1. places[i].offset = 0 /\ places[i].bit_offset = 0 /\ m.ty.size <= size
    BY <1>1, <1>12 DEF SInv, Slotted, m
  <2>2. Start(i) + Extent(m) <= 8 * size
    BY <1>3, <1>4, <1>6, <1>7, <1>8, <1>10, <2>1 DEF Sizes
  <2>3. m.bitfield => places[i].bit_offset + m.width <= 8 * m.ty.size
    BY <1>3, <1>4, <2>1 DEF Sizes
  <2> QED BY <1>1, <1>2, <1>3, <1>4, <1>5, <1>6, <1>7, <1>8, <1>9, <2>2, <2>3 DEF m
<1> QED BY <1>10, <1>11, <1>12

\* The code that reads a member fetches its bits.
LEMMA ReadIs ==
  ASSUME IInv, LInv, SInv, phase = "done", ~Mixed, NEW i \in Scalars, NEW mem
  PROVE  ReadMember(mem, Slot(i), members[i].ty) =
           Fetched(mem, Start(i), Extent(members[i]), members[i].ty.unsigned)
<1>0. PICK m, off, bo, ty, w, bf : /\ m = members[i] /\ ty = m.ty /\ w = m.width /\ bf = m.bitfield
                                   /\ off = places[i].offset /\ bo = places[i].bit_offset
  OBVIOUS
<1>1. /\ ty.size \in Sizes /\ ty.unsigned \in BOOLEAN
      /\ bf \in BOOLEAN /\ w \in Nat /\ off \in Nat /\ bo \in Nat
      /\ Extent(m) \in 1 .. 64 /\ Start(i) = 8 * off + bo
      /\ bf => Extent(m) = w /\ bo + w <= 8 * ty.size
      /\ ~bf => bo = 0 /\ Extent(m) = 8 * ty.size
  BY <1>0, ScalarAt
<1>2. Slot(i) = SlotAt(off, bf, w, bo)
  BY <1>0 DEF Slot, SlotAt
<1>3. CASE bf
  <2>1. /\ bf = TRUE /\ ty.size \in Sizes /\ ty.unsigned \in BOOLEAN
        /\ off \in Nat /\ w \in Nat /\ w # 0 /\ bo \in Nat /\ bo + w <= 8 * ty.size
    BY <1>1, <1>3
  <2>2. ReadMember(mem, SlotAt(off, bf, w, bo), ty) = Fetched(mem, 8 * off + bo, w, ty.unsigned)
    BY ONLY <2>1, ReadField
  <2>3. Start(i) = 8 * off + bo /\ Extent(m) = w
    BY <1>1, <1>3
  <2> QED BY <1>0, <1>2, <2>2, <2>3
<1>4. CASE ~bf
  <2>1. bf = FALSE /\ ty.size \in Sizes /\ ty.unsigned \in BOOLEAN /\ off \in Nat
    BY <1>1, <1>4
  <2>2. ReadMember(mem, SlotAt(off, bf, w, 0), ty) = Fetched(mem, 8 * off, 8 * ty.size, ty.unsigned)
    BY ONLY <2>1, ReadOrdinary
  <2>3. bo = 0 /\ Extent(m) = 8 * ty.size
    BY <1>1, <1>4
  <2>4. 8 * off + 0 = 8 * off
    BY <2>1
  <2>5. Start(i) = 8 * off
    BY <1>1, <2>3, <2>4
  <2> QED BY <1>0, <1>2, <2>2, <2>3, <2>5
<1> QED BY <1>3, <1>4

\* The code that writes a member changes its bits and no others.
LEMMA WriteIs ==
  ASSUME IInv, LInv, SInv, phase = "done", ~Mixed, NEW i \in Scalars, ~FullWidth(members[i])
  PROVE  /\ \A k \in 0 .. Extent(members[i]) - 1 :
              WriteMember(Old, Slot(i), members[i].ty, New)[Start(i) + k] = New[k]
         /\ \A p \in DOMAIN Old : p < Start(i) \/ p >= Start(i) + Extent(members[i]) =>
              WriteMember(Old, Slot(i), members[i].ty, New)[p] = Old[p]
<1>0. PICK m, off, bo, ty, w, bf, ext, mem, value :
        /\ m = members[i] /\ ty = m.ty /\ w = m.width /\ bf = m.bitfield /\ ext = Extent(m)
        /\ off = places[i].offset /\ bo = places[i].bit_offset /\ mem = Old /\ value = New
  OBVIOUS
<1>1. /\ ty.size \in Sizes /\ bf \in BOOLEAN /\ w \in Nat /\ off \in Nat /\ bo \in Nat
      /\ ext \in 1 .. 64 /\ Start(i) = 8 * off + bo
      /\ bf => ext = w /\ bo + w <= 8 * ty.size
      /\ ~bf => bo = 0 /\ ext = 8 * ty.size
      /\ 8 * off + bo + ext <= 8 * size
  BY <1>0, ScalarAt
<1>2. Slot(i) = SlotAt(off, bf, w, bo)
  BY <1>0 DEF Slot, SlotAt
<1>3. bf => w # 64
  BY <1>0 DEF FullWidth
<1>4. Fits(ty, off, bf, w, bo, ext)
  <2>1. ext \in Nat /\ bf => w \in 1 .. 63 /\ bo + w <= 8 * ty.size /\ ext = w
    BY <1>1, <1>3
  <2>2. ext \in Nat
    BY <1>1
  <2> QED BY <1>1, <2>1, <2>2 DEF Fits
<1>5. size \in Nat /\ DOMAIN mem = 0 .. 8 * size + 63
  BY <1>0 DEF IInv, TypeOK, Old
<1>6. ASSUME NEW k \in 0 .. ext - 1
      PROVE  WriteMember(mem, SlotAt(off, bf, w, bo), ty, value)[8 * off + bo + k] = value[k]
  <2>1. PICK p : p = 8 * off + bo + k
    OBVIOUS
  <2>2. p \in DOMAIN mem
    BY <1>1, <1>5, <2>1
  <2>3. BitOfValue(ty, off, bf, w, bo, ext, k, p)
    BY <1>4, <2>1 DEF BitOfValue
  <2>4. WriteMember(mem, SlotAt(off, bf, w, bo), ty, value)[p] = value[k]
    BY ONLY <2>2, <2>3, StoredOwn
  <2> QED BY <2>1, <2>4, Zenon
<1>7. ASSUME NEW p \in DOMAIN mem, p < 8 * off + bo \/ p >= 8 * off + bo + ext
      PROVE  WriteMember(mem, SlotAt(off, bf, w, bo), ty, value)[p] = mem[p]
  <2>1. p \in Nat
    BY <1>5
  <2> QED BY ONLY <1>4, <1>7, <2>1, p \in DOMAIN mem, StoredOther
<1>8. Start(i) = 8 * off + bo
  BY <1>1
<1> QED BY <1>0, <1>2, <1>6, <1>7, <1>8, Zenon

\* The unit of a member lies in an object that is not packed.
LEMMA UnitInObject ==
  ASSUME IInv, LInv, SInv, phase = "done", ~packed, NEW i \in Scalars
  PROVE  places[i].offset + members[i].ty.size <= size
<1> DEFINE m == members[i]
           off == places[i].offset
           sz == m.ty.size
<1>0. ~Mixed
  BY DEF Mixed
<1>1. /\ i \in 1 .. Len(places) /\ m \in Item /\ sz \in Sizes /\ off \in Nat
      /\ places[i].bit_offset \in Nat
      /\ m.bitfield \in BOOLEAN /\ Extent(m) \in 1 .. 64
      /\ Start(i) = 8 * off + places[i].bit_offset
      /\ Start(i) + Extent(m) <= 8 * size
      /\ ~m.bitfield => places[i].bit_offset = 0 /\ Extent(m) = 8 * sz
  BY <1>0, ScalarAt
<1> sz \in Nat \ {0}
  BY <1>1 DEF Sizes
<1>2. size \in Nat /\ bits \in Nat /\ align \in Nat \ {0} /\ kind \in {"struct", "union"}
  BY KindsAssumption DEF IInv, TypeOK
<1>3. CASE kind = "union"
  <2>1. off = 0 /\ sz <= size
    BY <1>1, <1>3 DEF SInv, Slotted
  <2> QED BY <1>1, <1>2, <2>1
<1>4. CASE ~m.bitfield
  <2> HIDE DEF m, off, sz
  <2>1. 8 * off + 8 * sz <= 8 * size
    BY <1>1, <1>4
  <2>2. off + sz <= size
    BY <1>1, <1>2, <2>1
  <2> QED BY <2>2 DEF m, off, sz
<1>5. CASE kind = "struct" /\ m.bitfield
  <2>1. PICK q \in Int : off = q * sz
    BY <1>1, <1>5 DEF SInv, Slotted
  <2>2. PICK z \in Int : size = z * sz
    <3>1. PICK f : Fills(f, Len(places) + 1) /\ LaidOut(f)
      BY <1>5 DEF LInv, Laying
    <3>2. MemAlign(m) <= align /\ MemAlign(m) \in AllAlignments /\ MemAlign(m) % sz = 0
      BY <1>1, <1>5, <3>1, ItemFacts DEF LaidOut
    <3>3. align % MemAlign(m) = 0
      BY <3>2, PowersAssumption DEF SInv
    <3>4. 8 * size = align_to(bits, 8 * align)
      BY <1>5 DEF LInv, Ended
    <3> DEFINE ma == MemAlign(m)
               u == 8 * align
    <3>5. ma \in Nat \ {0} /\ ma \in Int /\ sz \in Nat \ {0} /\ u \in Nat \ {0} /\ bits \in Int
      BY <1>1, <1>2, MemAlignType, ItemIsMember
    <3> HIDE DEF ma, sz, u
    <3>6. PICK a \in Int : ma = sz * a
      <4>1. ma % sz = 0
        BY <3>2 DEF ma
      <4>2. ma = sz * (ma \div sz) + (ma % sz) /\ ma \div sz \in Int
        BY <3>5, DivMod
      <4>3. sz * (ma \div sz) \in Int
        BY <3>5, <4>2
      <4>4. sz * (ma \div sz) + (ma % sz) = sz * (ma \div sz)
        BY <4>1, <4>3
      <4>5. ma = sz * (ma \div sz)
        BY <4>2, <4>4, Zenon
      <4> QED BY <4>2, <4>5, Zenon
    <3>7. PICK b \in Int : align = ma * b
      <4>1. align % ma = 0
        BY <3>3 DEF ma
      <4>2. align \in Int
        BY <1>2
      <4>3. align = ma * (align \div ma) + (align % ma) /\ align \div ma \in Int
        BY <3>5, <4>2, DivMod
      <4>4. ma * (align \div ma) \in Int
        BY <3>5, <4>3
      <4>5. ma * (align \div ma) + (align % ma) = ma * (align \div ma)
        BY <4>1, <4>4
      <4>6. align = ma * (align \div ma)
        BY <4>3, <4>5, Zenon
      <4> QED BY <4>3, <4>6, Zenon
    <3>8. PICK c \in Int : align_to(bits, u) = u * c
      BY <3>5, AlignTo
    <3>9. 8 * size = 8 * (align * c) /\ align * c \in Int
      BY <1>2, <3>4, <3>8 DEF u
    <3>10. size = align * c
      BY <1>2, <3>9
    <3>11. align * c = (a * b * c) * sz /\ a * b * c \in Int
      <4>1. sz \in Int
        BY <3>5
      <4> QED BY <3>6, <3>7, <4>1
    <3> QED BY <3>10, <3>11
  <2> HIDE DEF m, off, sz
  <2>3. off < size
    <3>1. 8 * off + places[i].bit_offset + Extent(m) <= 8 * size
      BY <1>1
    <3>2. off \in Nat /\ places[i].bit_offset \in Nat /\ Extent(m) \in 1 .. 64 /\ size \in Nat
      BY <1>1, <1>2
    <3> QED BY <3>1, <3>2
  <2>4. q * sz < z * sz
    BY <2>1, <2>2, <2>3
  <2>5. q < z
    BY <1>1, <2>4
  <2>6. (q + 1) * sz <= z * sz
    BY <1>1, <2>5
  <2>7. (q + 1) * sz = off + sz
    BY <1>1, <2>1
  <2> QED BY <2>2, <2>6, <2>7 DEF m, off, sz
<1> QED BY <1>2, <1>3, <1>4, <1>5

\* Writing one member and reading another, or the same, for every list of members:
\* bit-fields share units, but the masks and shifts touch the bits of one member.
THEOREM StructMembersIndependent == Spec => []MembersIndependent
<1>1. IInv /\ LInv /\ SInv => MembersIndependent
  <2> SUFFICES ASSUME IInv, LInv, SInv, phase = "done", ~Mixed,
                      NEW i \in Scalars, ~FullWidth(members[i])
               PROVE  LET after == WriteMember(Old, Slot(i), members[i].ty, New)
                          Read(j) == ReadMember(after, Slot(j), members[j].ty)
                      IN  /\ Read(i) = Converted(New, members[i])
                          /\ kind = "struct" => \A j \in Scalars \ {i} : Read(j) = Value(Old, j)
                          /\ ~packed => places[i].offset + members[i].ty.size <= size
    BY DEF MembersIndependent
  <2> DEFINE after == WriteMember(Old, Slot(i), members[i].ty, New)
  <2>1. size \in Nat /\ DOMAIN Old = 0 .. 8 * size + 63
    BY DEF IInv, TypeOK, Old
  <2>2. \A j \in Scalars :
          ReadMember(after, Slot(j), members[j].ty)
            = Fetched(after, Start(j), Extent(members[j]), members[j].ty.unsigned)
    BY ReadIs
  <2>3. /\ \A k \in 0 .. Extent(members[i]) - 1 : after[Start(i) + k] = New[k]
        /\ \A p \in DOMAIN Old : p < Start(i) \/ p >= Start(i) + Extent(members[i]) => after[p] = Old[p]
    BY WriteIs
  <2> HIDE DEF after
  <2>4. \A j \in Scalars :
          /\ Start(j) \in Nat /\ Extent(members[j]) \in 1 .. 64
          /\ Start(j) + Extent(members[j]) <= 8 * size
          /\ j \in 1 .. Len(places)
          /\ members[j].ty.unsigned \in BOOLEAN
    <3> TAKE j \in Scalars
    <3>1. /\ places[j].offset \in Nat /\ places[j].bit_offset \in Nat
          /\ Start(j) = 8 * places[j].offset + places[j].bit_offset
          /\ Extent(members[j]) \in 1 .. 64
          /\ Start(j) + Extent(members[j]) <= 8 * size
          /\ j \in 1 .. Len(places) /\ members[j].ty.unsigned \in BOOLEAN
      BY ScalarAt
    <3> QED BY <3>1
  <2>5. ReadMember(after, Slot(i), members[i].ty) = Converted(New, members[i])
    <3> DEFINE s == Start(i)
               e == Extent(members[i])
               unsigned == members[i].ty.unsigned
    <3>0. s \in Nat /\ e \in 1 .. 64 /\ s + e <= 8 * size /\ i \in Scalars
      BY <2>4
    <3>1. \A k \in 0 .. e - 1 : after[s + k] = New[k]
      BY <2>3
    <3> HIDE DEF s, e
    <3>2. after[s + e - 1] = New[e - 1]
      <4>1. e - 1 \in 0 .. e - 1 /\ s + (e - 1) = s + e - 1
        BY <3>0
      <4> QED BY <3>1, <4>1
    <3>3. Fetched(after, s, e, unsigned) =
            [k \in Register |-> IF k < e THEN New[k] ELSE IF unsigned THEN Zero ELSE New[e - 1]]
      <4>1. ASSUME NEW k \in Register, k < e PROVE after[s + k] = New[k]
        <5>1. k \in 0 .. e - 1
          BY <3>0, <4>1 DEF Register
        <5> QED BY <3>1, <5>1
      <4> QED BY <3>2, <4>1 DEF Fetched
    <3>4. Converted(New, members[i]) =
            [k \in Register |-> IF k < e THEN New[k] ELSE IF unsigned THEN Zero ELSE New[e - 1]]
      BY DEF Converted, e
    <3> QED BY <2>2, <3>0, <3>3, <3>4 DEF s, e
  <2>6. ASSUME kind = "struct", NEW j \in Scalars, j # i
        PROVE  ReadMember(after, Slot(j), members[j].ty) = Value(Old, j)
    <3> DEFINE s == Start(j)
               e == Extent(members[j])
               unsigned == members[j].ty.unsigned
               V == [k \in Register |-> Old[(Start(j) + k) % (8 * size + 64)]]
    <3>0. s \in Nat /\ e \in 1 .. 64 /\ s + e <= 8 * size
      BY <2>4
    <3>1. s + e <= Start(i) \/ Start(i) + Extent(members[i]) <= s
      <4>1. /\ i \in 1 .. Len(places) /\ j \in 1 .. Len(places)
            /\ ~ZeroWidth(members[i]) /\ ~ZeroWidth(members[j])
        BY <2>4 DEF Scalars
      <4>2. i \in 1 .. j - 1 \/ j \in 1 .. i - 1
        BY <2>6, <4>1
      <4>3. \A a \in 1 .. Len(places) : ~ZeroWidth(members[a]) =>
              \A b \in 1 .. a - 1 : ~ZeroWidth(members[b]) => End(b) <= Start(a)
        BY <2>6 DEF IInv, MembersDisjoint
      <4> QED BY <4>1, <4>2, <4>3 DEF End
    <3>2. Start(i) \in Nat /\ Extent(members[i]) \in 1 .. 64
      BY <2>4
    <3> HIDE DEF s, e
    <3>3. ASSUME NEW k \in 0 .. e - 1
          PROVE  after[s + k] = Old[s + k] /\ V[k] = Old[s + k]
      <4>1. PICK p : p = s + k
        OBVIOUS
      <4>2. after[s + k] = Old[s + k]
        <5>1. p \in 0 .. 8 * size + 63
          BY <2>1, <3>0, <4>1
        <5>2. p < Start(i) \/ p >= Start(i) + Extent(members[i])
          BY <3>0, <3>1, <3>2, <4>1
        <5>3. p \in DOMAIN Old
          BY <2>1, <5>1
        <5>4. after[p] = Old[p]
          BY <2>3, <5>2, <5>3
        <5> QED BY <4>1, <5>4, Zenon
      <4>3. k \in Register
        BY <3>0 DEF Register
      <4>4. (s + k) % (8 * size + 64) = s + k
        <5> DEFINE w == 8 * size + 64
        <5>1. w \in Nat \ {0} /\ s + k \in 0 .. w - 1 /\ s + k \in Int /\ s + k = w * 0 + (s + k)
          BY <2>1, <3>0
        <5> HIDE DEF w
        <5>2. (s + k) % w = s + k
          BY <5>1, DivUnique
        <5> QED BY <5>2 DEF w
      <4>5. V[k] = Old[(s + k) % (8 * size + 64)]
        BY <4>3 DEF s
      <4> QED BY <4>2, <4>4, <4>5
    <3>4. after[s + e - 1] = Old[s + e - 1] /\ V[e - 1] = Old[s + e - 1]
      <4>1. e - 1 \in 0 .. e - 1 /\ s + (e - 1) = s + e - 1
        BY <3>0
      <4> HIDE DEF V
      <4> QED BY <3>3, <4>1
    <3>5. Fetched(after, s, e, unsigned) =
            [k \in Register |-> IF k < e THEN V[k] ELSE IF unsigned THEN Zero ELSE V[e - 1]]
      <4>1. ASSUME NEW k \in Register, k < e PROVE after[s + k] = V[k]
        <5>1. k \in 0 .. e - 1
          BY <3>0, <4>1 DEF Register
        <5> HIDE DEF V
        <5> QED BY <3>3, <5>1
      <4> HIDE DEF V
      <4> QED BY <3>4, <4>1 DEF Fetched
    <3>6. Value(Old, j) =
            [k \in Register |-> IF k < e THEN V[k] ELSE IF unsigned THEN Zero ELSE V[e - 1]]
      BY DEF Converted, Value, e
    <3> QED BY <2>2, <3>5, <3>6 DEF s, e
  <2>7. ~packed => places[i].offset + members[i].ty.size <= size
    BY UnitInObject
  <2> QED BY <2>5, <2>6, <2>7 DEF after
<1> QED BY InitInv, NextInv, LInvInit, LInvNext, SInvInit, SInvNext, <1>1, PTL DEF Spec
=============================================================================
