--------------------------- MODULE HashMapProofs ---------------------------
(***************************************************************************)
(* hashmap.c for every number of keys and values, every hash function and   *)
(* every choice of sizes that satisfies the assumptions: the table stays    *)
(* sound, an operation affects its own key only, and where nothing is       *)
(* deleted the table is a dictionary.                                       *)
(***************************************************************************)
EXTENDS MCHashMap, FiniteSetTheorems, TLAPS

-----------------------------------------------------------------------------
(* Integer division.                                                       *)

\* Quotient and remainder.
LEMMA DivMod ==
  ASSUME NEW x \in Nat, NEW c \in Nat \ {0}
  PROVE  /\ x \div c \in Nat
         /\ x % c \in 0 .. c - 1
         /\ x = (c * (x \div c)) + (x % c)
  BY SMT

\* A quotient below a bound.
LEMMA DivBelow ==
  ASSUME NEW x \in Nat, NEW c \in Nat \ {0}, NEW H \in Nat, x \div c < H
  PROVE  x < H * c
<1> DEFINE d == x \div c
           r == x % c
<1>1. d \in Nat /\ r \in 0 .. c - 1 /\ x = (c * d) + r /\ d < H
  BY DivMod
<1> HIDE DEF d, r
<1>2. c * (d + 1) <= c * H
  BY <1>1, SMT
<1> QED
  BY <1>1, <1>2, SMT

\* A product bounds the quotient.
LEMMA DivAbove ==
  ASSUME NEW x \in Nat, NEW c \in Nat \ {0}, NEW H \in Nat, x < H * c
  PROVE  x \div c < H
<1> DEFINE d == x \div c
           r == x % c
<1>1. d \in Nat /\ r \in 0 .. c - 1 /\ x = (c * d) + r
  BY DivMod
<1> HIDE DEF d, r
<1>2. SUFFICES ASSUME d >= H PROVE FALSE
  BY <1>1, SMT DEF d
<1>3. c * d >= c * H
  BY <1>1, <1>2, SMT
<1> QED
  BY <1>1, <1>3, SMT

-----------------------------------------------------------------------------
(* Probing: as i runs over a table, so does the slot it reaches.           *)

\* A probe stays inside the table.
LEMMA SlotInRange ==
  ASSUME NEW k \in Keys, NEW c \in Nat \ {0}, NEW i \in Nat
  PROVE  Slot(k, i, c) \in 0 .. c - 1
<1>1. Hash[k] \in Nat
  BY HashAssumption
<1> QED
  BY <1>1, SMT DEF Slot

\* One round of a probe visits no slot twice.
LEMMA SlotInjective ==
  ASSUME NEW k \in Keys, NEW c \in Nat \ {0},
         NEW i \in 0 .. c - 1, NEW j \in 0 .. c - 1,
         Slot(k, i, c) = Slot(k, j, c)
  PROVE  i = j
<1> DEFINE h == Hash[k]
           p == (h + i) \div c
           q == (h + j) \div c
<1>1. h \in Nat
  BY HashAssumption
<1> HIDE DEF h
<1>2. /\ p \in Int /\ h + i = (c * p) + ((h + i) % c)
      /\ q \in Int /\ h + j = (c * q) + ((h + j) % c)
  BY <1>1, SMT
<1>3. (h + i) % c = (h + j) % c
  BY DEF Slot, h
<1> HIDE DEF p, q
<1>4. i - j = c * (p - q)
  BY <1>1, <1>2, <1>3, SMT
<1>5. CASE p = q
  <2>1. c * (p - q) = 0
    BY <1>2, <1>5, SMT
  <2> QED
    BY <2>1, <1>4, SMT
<1>6. CASE p > q
  <2>1. c * (p - q) >= c
    BY <1>2, <1>6, SMT
  <2> QED
    BY <2>1, <1>4, SMT
<1>7. CASE p < q
  <2>1. c * (p - q) <= -c
    BY <1>2, <1>7, SMT
  <2> QED
    BY <2>1, <1>4, SMT
<1> QED
  BY <1>2, <1>5, <1>6, <1>7, SMT

\* One round of a probe visits every slot.
LEMMA SlotOnto ==
  ASSUME NEW k \in Keys, NEW c \in Nat \ {0}, NEW s \in 0 .. c - 1
  PROVE  \E i \in 0 .. c - 1 : Slot(k, i, c) = s
<1> DEFINE h == Hash[k]
           r == h % c
           q == h \div c
<1>1. h \in Nat
  BY HashAssumption
<1> HIDE DEF h
<1>2. h = (c * q) + r /\ r \in 0 .. c - 1 /\ q \in Nat
  BY <1>1, SMT
<1> HIDE DEF r, q
<1>3. CASE s >= r
  <2>1. h + (s - r) = (c * q) + s
    BY <1>1, <1>2, SMT
  <2>2. ((c * q) + s) % c = s
    BY <1>2, SMT
  <2>3. s - r \in 0 .. c - 1
    BY <1>2, <1>3, SMT
  <2> QED
    BY <2>1, <2>2, <2>3 DEF Slot, h
<1>4. CASE s < r
  <2>1. h + ((s - r) + c) = (c * (q + 1)) + s
    BY <1>1, <1>2, SMT
  <2>2. ((c * (q + 1)) + s) % c = s
    BY <1>2, SMT
  <2>3. (s - r) + c \in 0 .. c - 1
    BY <1>2, <1>4, SMT
  <2> QED
    BY <2>1, <2>2, <2>3 DEF Slot, h
<1> QED
  BY <1>2, <1>3, <1>4, SMT

-----------------------------------------------------------------------------
(* What the operations on one table preserve.                              *)

TableOK(t) ==
  /\ TableTypeOK(t)
  /\ t.used = Cardinality(Occupied(t))
  /\ ProbeChain(t)

\* A table of n buckets has finitely many occupied ones.
LEMMA OccupiedFinite ==
  ASSUME NEW t, TableTypeOK(t)
  PROVE  IsFiniteSet(Occupied(t)) /\ Occupied(t) \subseteq 0 .. t.capacity - 1
<1>1. Occupied(t) \subseteq 0 .. t.capacity - 1
  BY DEF Occupied, TableTypeOK
<1>2. t.capacity - 1 \in Int
  BY SMT DEF TableTypeOK
<1>3. IsFiniteSet(0 .. t.capacity - 1)
  BY <1>2, FS_Interval
<1> QED
  BY <1>1, <1>3, FS_Subset

\* A new table is in order.
LEMMA EmptyTableOK ==
  ASSUME NEW c \in Nat
  PROVE  /\ TableOK(EmptyTable(c))
         /\ EmptyTable(c).capacity = c
         /\ EmptyTable(c).used = 0
<1> DEFINE t == EmptyTable(c)
<1>1. TableTypeOK(t)
  BY DEF TableTypeOK, EmptyTable, Entry, Sentinels
<1>2. Occupied(t) = {}
  BY DEF Occupied, EmptyTable
<1>3. ProbeChain(t)
  <2> SUFFICES ASSUME NEW k \in Keys, NEW i \in 0 .. c - 1
               PROVE  t.buckets[Slot(k, i, c)].key # k
    BY DEF ProbeChain, EmptyTable
  <2>1. Slot(k, i, c) \in 0 .. c - 1
    <3>1. c # 0 /\ i \in Nat
      BY SMT
    <3> QED
      BY <3>1, SlotInRange
  <2>2. t.buckets[Slot(k, i, c)].key = NULL
    BY <2>1 DEF EmptyTable
  <2> QED
    BY <2>2, SentinelAssumption
<1> QED
  BY <1>1, <1>2, <1>3, FS_EmptySet DEF TableOK, EmptyTable

\* Storing a key where its probe stops keeps a table in order.
LEMMA StoreAtOK ==
  ASSUME NEW t, TableOK(t), NEW k \in Keys, NEW v \in Vals \cup {Absent},
         NEW i \in 0 .. t.capacity - 1, StopsAt(t, k, InsertStops(k), i)
  PROVE  LET t2 == StoreAt(t, Slot(k, i, t.capacity), k, v)
         IN  /\ TableOK(t2)
             /\ t2.capacity = t.capacity
             /\ t2.used \in {t.used, t.used + 1}
<1> DEFINE c == t.capacity
           s == Slot(k, i, c)
           t2 == StoreAt(t, s, k, v)
<1>1. /\ TableTypeOK(t)
      /\ c \in Nat \ {0}
      /\ t.used \in Nat
      /\ i \in Nat
  BY SMT DEF TableOK, TableTypeOK
<1>2. s \in 0 .. c - 1
  BY <1>1, SlotInRange
<1>3. k # NULL /\ k # TOMBSTONE
  BY SentinelAssumption
<1>4. /\ t2.capacity = c
      /\ t2.buckets = [t.buckets EXCEPT ![s] = [key |-> k, val |-> v]]
      /\ t2.used = IF t.buckets[s].key = NULL THEN t.used + 1 ELSE t.used
      /\ t2 = [buckets |-> t2.buckets, capacity |-> t2.capacity, used |-> t2.used]
  BY DEF StoreAt
<1>5. t.buckets \in [0 .. c - 1 -> Entry]
  BY <1>1 DEF TableTypeOK
<1>6. [key |-> k, val |-> v] \in Entry
  BY DEF Entry
<1> HIDE DEF t2
<1>7. t2.buckets \in [0 .. c - 1 -> Entry]
  BY <1>4, <1>5, <1>6
<1>8. TableTypeOK(t2)
  BY <1>1, <1>4, <1>7, SMT DEF TableTypeOK
<1>9. /\ t2.buckets[s].key = k
      /\ \A r \in (0 .. c - 1) \ {s} : t2.buckets[r] = t.buckets[r]
  <2> DEFINE e == [key |-> k, val |-> v]
  <2>1. e.key = k
    OBVIOUS
  <2> HIDE DEF e
  <2>2. t2.buckets = [t.buckets EXCEPT ![s] = e]
    BY <1>4 DEF e
  <2> QED
    BY <1>2, <1>5, <2>1, <2>2
<1>10. t2.used = Cardinality(Occupied(t2))
  <2>1. Occupied(t2) = Occupied(t) \cup {s}
    BY <1>2, <1>3, <1>5, <1>7, <1>9 DEF Occupied
  <2>2. IsFiniteSet(Occupied(t)) /\ t.used = Cardinality(Occupied(t))
    BY <1>1, OccupiedFinite DEF TableOK
  <2>3. s \in Occupied(t) <=> t.buckets[s].key # NULL
    BY <1>2, <1>5 DEF Occupied
  <2>4. Cardinality(Occupied(t) \cup {s}) =
          IF s \in Occupied(t) THEN Cardinality(Occupied(t)) ELSE Cardinality(Occupied(t)) + 1
    BY <2>2, FS_AddElement
  <2> QED
    BY <1>4, <2>1, <2>2, <2>3, <2>4
<1>11. ProbeChain(t2)
  <2> SUFFICES ASSUME NEW key2 \in Keys, NEW m \in 0 .. c - 1, NEW j \in 0 .. m - 1,
                      t2.buckets[Slot(key2, m, c)].key = key2
               PROVE  t2.buckets[Slot(key2, j, c)].key # NULL
    BY <1>4 DEF ProbeChain
  <2>1. j \in 0 .. c - 1 /\ m \in Nat /\ j \in Nat
    BY <1>1, SMT
  <2>2. Slot(key2, m, c) \in 0 .. c - 1 /\ Slot(key2, j, c) \in 0 .. c - 1
    BY <1>1, <2>1, SlotInRange
  <2>3. CASE Slot(key2, j, c) = s
    BY <1>3, <1>9, <2>3
  <2>4. CASE Slot(key2, j, c) # s
    <3>1. SUFFICES t.buckets[Slot(key2, j, c)].key # NULL
      BY <1>9, <2>2, <2>4
    <3>2. CASE Slot(key2, m, c) = s
      <4>1. key2 = k
        BY <1>9, <3>2
      <4>2. m = i
        BY <1>1, <3>2, <4>1, SlotInjective
      <4> QED
        BY <4>1, <4>2 DEF StopsAt, InsertStops
    <3>3. CASE Slot(key2, m, c) # s
      <4>1. t.buckets[Slot(key2, m, c)].key = key2
        BY <1>9, <2>2, <3>3
      <4> QED
        BY <4>1 DEF TableOK, ProbeChain
    <3> QED
      BY <3>2, <3>3
  <2> QED
    BY <2>3, <2>4
<1>12. t2.used \in {t.used, t.used + 1}
  BY <1>4
<1> QED
  BY <1>4, <1>8, <1>10, <1>11, <1>12 DEF TableOK, t2

\* Turning a key into a tombstone keeps a table in order.
LEMMA TombstoneOK ==
  ASSUME NEW t, TableOK(t), NEW s \in 0 .. t.capacity - 1, HasKey(t, s)
  PROVE  LET t2 == Bury(t, s)
         IN  /\ TableOK(t2)
             /\ t2.capacity = t.capacity
             /\ t2.used = t.used
<1> DEFINE c == t.capacity
           t2 == Bury(t, s)
<1>1. /\ c \in Nat
      /\ t.used \in Nat
      /\ t.buckets \in [0 .. c - 1 -> Entry]
      /\ t = [buckets |-> t.buckets, capacity |-> t.capacity, used |-> t.used]
  BY DEF TableOK, TableTypeOK
<1>2. /\ t2.capacity = c
      /\ t2.used = t.used
      /\ t2.buckets = [t.buckets EXCEPT ![s].key = TOMBSTONE]
      /\ t2 = [buckets |-> t2.buckets, capacity |-> t2.capacity, used |-> t2.used]
  BY DEF Bury
<1> HIDE DEF t2
<1>3. /\ t2.buckets \in [0 .. c - 1 -> Entry]
      /\ t2.buckets[s].key = TOMBSTONE
      /\ \A r \in 0 .. c - 1 : r # s => t2.buckets[r] = t.buckets[r]
  BY <1>1, <1>2 DEF Entry, Sentinels
<1>4. TableTypeOK(t2)
  BY <1>1, <1>2, <1>3, SMT DEF TableTypeOK
<1>5. Occupied(t2) = Occupied(t)
  BY <1>1, <1>2, <1>3, SentinelAssumption DEF Occupied, HasKey, Sentinels
<1>6. ProbeChain(t2)
  <2> SUFFICES ASSUME NEW k \in Keys, NEW m \in 0 .. c - 1, NEW j \in 0 .. m - 1,
                      t2.buckets[Slot(k, m, c)].key = k
               PROVE  t2.buckets[Slot(k, j, c)].key # NULL
    BY <1>2 DEF ProbeChain
  <2>1. c \in Nat \ {0} /\ m \in Nat /\ j \in Nat
    BY <1>1, SMT
  <2>2. Slot(k, m, c) \in 0 .. c - 1 /\ Slot(k, j, c) \in 0 .. c - 1
    BY <2>1, SlotInRange
  <2>3. t.buckets[Slot(k, m, c)].key = k
    BY <1>3, <2>2, SentinelAssumption
  <2>4. t.buckets[Slot(k, j, c)].key # NULL
    BY <2>3 DEF TableOK, ProbeChain
  <2> QED
    BY <1>3, <2>2, <2>4, SentinelAssumption
<1> QED
  BY <1>2, <1>4, <1>5, <1>6 DEF TableOK, t2

\* A table that is not full has a free slot on every probe.
LEMMA FreeSlot ==
  ASSUME NEW t, TableOK(t), t.used < t.capacity, NEW k \in Keys
  PROVE  \E i \in 0 .. t.capacity - 1 : t.buckets[Slot(k, i, t.capacity)].key = NULL
<1> DEFINE c == t.capacity
<1>1. /\ TableTypeOK(t)
      /\ c \in Nat \ {0}
      /\ c - 1 \in Int
  BY SMT DEF TableOK, TableTypeOK
<1>2. Cardinality(0 .. c - 1) = c
  <2>1. Cardinality(0 .. c - 1) = IF 0 > c - 1 THEN 0 ELSE (c - 1) - 0 + 1
    <3>1. 0 \in Int /\ c - 1 \in Int
      BY <1>1, SMT
    <3> QED
      BY <3>1, FS_Interval
  <2> QED
    BY <1>1, <2>1, SMT
<1>3. Occupied(t) # 0 .. c - 1
  <2>1. Cardinality(Occupied(t)) < c
    BY DEF TableOK
  <2>2. c \in Nat /\ t.used \in Nat
    BY <1>1 DEF TableTypeOK
  <2> QED
    BY <1>2, <2>1, <2>2, SMT DEF TableOK
<1>4. PICK s \in 0 .. c - 1 : t.buckets[s].key = NULL
  BY <1>1, <1>3, OccupiedFinite DEF Occupied, TableTypeOK
<1>5. PICK i \in 0 .. c - 1 : Slot(k, i, c) = s
  BY <1>1, SlotOnto
<1> QED
  BY <1>4, <1>5

\* Below the high watermark one more key leaves a bucket free.
LEMMA RoomBelowWatermark ==
  ASSUME NEW t, TableTypeOK(t), t.capacity >= INIT_SIZE, Load(t) < HIGH_WATERMARK
  PROVE  t.used + 1 < t.capacity
<1> DEFINE c == t.capacity
           u == t.used
           H == HIGH_WATERMARK
<1>1. c \in Nat /\ u \in Nat /\ H \in 1 .. 100 /\ INIT_SIZE \in Nat
  BY SizeAssumption DEF TableTypeOK
<1>2. c > 0
  BY <1>1, SizeAssumption, SMT
<1>3. (u * 100) \div c < H
  BY DEF Load
<1>4. u * 100 < H * c
  <2>1. u * 100 \in Nat /\ c \in Nat \ {0} /\ H \in Nat
    BY <1>1, <1>2, SMT
  <2> QED
    BY <1>3, <2>1, DivBelow
<1>5. c * (100 - H) > 100
  <2>1. c * (100 - H) >= INIT_SIZE * (100 - H)
    BY <1>1, SMT
  <2> QED
    BY <1>1, <2>1, SizeAssumption, SMT
<1> QED
  BY <1>1, <1>4, <1>5, SMT

\* The keys among the first n buckets, counted.
LEMMA LiveBelowCount ==
  ASSUME NEW t, NEW n \in Nat
  PROVE  /\ IsFiniteSet(LiveBelow(t, n))
         /\ Cardinality(LiveBelow(t, n)) \in Nat
         /\ n = 0 => Cardinality(LiveBelow(t, n)) = 0
         /\ HasKey(t, n) => Cardinality(LiveBelow(t, n + 1)) = Cardinality(LiveBelow(t, n)) + 1
         /\ ~ HasKey(t, n) => Cardinality(LiveBelow(t, n + 1)) = Cardinality(LiveBelow(t, n))
<1>1. IsFiniteSet(LiveBelow(t, n))
  <2>1. 0 \in Int /\ n - 1 \in Int
    BY SMT
  <2>2. IsFiniteSet(0 .. n - 1) /\ LiveBelow(t, n) \subseteq 0 .. n - 1
    BY <2>1, FS_Interval DEF LiveBelow
  <2> QED
    BY <2>2, FS_Subset
<1>2. n = 0 => LiveBelow(t, n) = {}
  BY SMT DEF LiveBelow
<1>3. n \notin LiveBelow(t, n)
  BY SMT DEF LiveBelow
<1>4. 0 .. (n + 1) - 1 = (0 .. n - 1) \cup {n}
  BY SMT
<1>5. HasKey(t, n) => LiveBelow(t, n + 1) = LiveBelow(t, n) \cup {n}
  BY <1>4 DEF LiveBelow
<1>6. ~ HasKey(t, n) => LiveBelow(t, n + 1) = LiveBelow(t, n)
  BY <1>4 DEF LiveBelow
<1>7. Cardinality(LiveBelow(t, n) \cup {n}) = Cardinality(LiveBelow(t, n)) + 1
  BY <1>1, <1>3, FS_AddElement
<1>8. Cardinality(LiveBelow(t, n)) \in Nat
  BY <1>1, FS_CardinalityType
<1> QED
  BY <1>1, <1>2, <1>5, <1>6, <1>7, <1>8, FS_EmptySet

\* Fewer buckets hold no more keys.
LEMMA LiveBelowMonotone ==
  ASSUME NEW t, NEW n \in Nat, NEW m \in 0 .. n
  PROVE  Cardinality(LiveBelow(t, m)) <= Cardinality(LiveBelow(t, n))
<1>1. 0 .. m - 1 \subseteq 0 .. n - 1
  BY SMT
<1>2. LiveBelow(t, m) \subseteq LiveBelow(t, n)
  BY <1>1 DEF LiveBelow
<1> QED
  BY <1>2, LiveBelowCount, FS_Subset

-----------------------------------------------------------------------------
(* The inductive invariant.                                                *)

\* A table in order that the watermark keeps from filling up.
RoomyTable(t) ==
  /\ TableOK(t)
  /\ t.capacity # 0 => t.capacity >= INIT_SIZE /\ t.used < t.capacity

IInv ==
  /\ TypeOK
  /\ RoomyTable(map)
  /\ RoomyTable(map2)
  /\ pc # "idle" => map.capacity # 0
  /\ pc = "insert" => Load(map) < HIGH_WATERMARK
  /\ pc \in {"grow", "copy"} => map2.capacity # 0
  /\ pc \in {"idle", "insert", "grow"} => idx = 0
  /\ pc = "grow" => map2.used = 0
  /\ pc = "copy" => /\ (NKeys(map) * 100) \div map2.capacity < LOW_WATERMARK
                    /\ map2.used <= Cardinality(LiveBelow(map, idx))

\* A new table is roomy.
LEMMA EmptyTableRoomy ==
  ASSUME NEW c \in Nat, c = 0 \/ c >= INIT_SIZE
  PROVE  /\ RoomyTable(EmptyTable(c))
         /\ TableTypeOK(EmptyTable(c))
         /\ EmptyTable(c).capacity = c
         /\ EmptyTable(c).used = 0
<1>1. TableOK(EmptyTable(c)) /\ EmptyTable(c).capacity = c /\ EmptyTable(c).used = 0
  BY EmptyTableOK
<1> QED
  BY <1>1, SMT DEF RoomyTable, TableOK

\* The store of a put below the high watermark leaves a roomy table.
LEMMA StoreAtRoomy ==
  ASSUME NEW t, RoomyTable(t), t.capacity # 0, Load(t) < HIGH_WATERMARK,
         NEW k \in Keys, NEW v \in Vals \cup {Absent},
         NEW i \in 0 .. t.capacity - 1, StopsAt(t, k, InsertStops(k), i)
  PROVE  LET t2 == StoreAt(t, Slot(k, i, t.capacity), k, v)
         IN  /\ RoomyTable(t2)
             /\ t2.capacity = t.capacity
             /\ t2.used \in {t.used, t.used + 1}
<1> DEFINE t2 == StoreAt(t, Slot(k, i, t.capacity), k, v)
<1>1. TableOK(t2) /\ t2.capacity = t.capacity /\ t2.used \in {t.used, t.used + 1}
  BY StoreAtOK DEF RoomyTable
<1>2. TableTypeOK(t) /\ t.capacity >= INIT_SIZE /\ t.used < t.capacity
  BY DEF RoomyTable, TableOK
<1>3. t.used + 1 < t.capacity
  BY <1>2, RoomBelowWatermark
<1> HIDE DEF t2
<1>4. t2.used < t2.capacity
  BY <1>1, <1>2, <1>3
<1> QED
  BY <1>1, <1>2, <1>4 DEF RoomyTable, t2

\* Copying fits: while the copy loop runs, the new table is below the high
\* watermark, since it never holds more than nkeys entries.
LEMMA CopyFits ==
  ASSUME IInv, pc = "copy"
  PROVE  Load(map2) < HIGH_WATERMARK
<1> DEFINE c == map2.capacity
           u == map2.used
           n == NKeys(map)
<1>1. c \in Nat \ {0} /\ u \in Nat /\ idx \in 0 .. map.capacity /\ map.capacity \in Nat
  BY DEF IInv, TypeOK, TableTypeOK
<1>2. Cardinality(LiveBelow(map, idx)) <= n /\ Cardinality(LiveBelow(map, idx)) \in Nat /\ n \in Nat
  BY <1>1, LiveBelowMonotone, LiveBelowCount DEF NKeys
<1>3. u <= Cardinality(LiveBelow(map, idx)) /\ (n * 100) \div c < LOW_WATERMARK
  BY DEF IInv
<1> HIDE DEF c, u, n
<1>4. u * 100 <= n * 100 /\ u * 100 \in Nat /\ n * 100 \in Nat
  BY <1>1, <1>2, <1>3, SMT
<1>5. LOW_WATERMARK \in Nat /\ HIGH_WATERMARK \in Nat /\ LOW_WATERMARK <= HIGH_WATERMARK
  BY SizeAssumption, SMT
<1>6. n * 100 < LOW_WATERMARK * c
  BY <1>1, <1>3, <1>4, <1>5, DivBelow
<1>7. (u * 100) \div c < LOW_WATERMARK
  <2>1. LOW_WATERMARK * c \in Nat
    BY <1>1, <1>5, SMT
  <2> DEFINE bound == LOW_WATERMARK * c
  <2> HIDE DEF bound
  <2>2. u * 100 < bound
    BY <1>4, <1>6, <2>1, SMT DEF bound
  <2> QED
    BY <1>1, <1>4, <1>5, <2>2, DivAbove DEF bound
<1> QED
  <2>1. (u * 100) \div c \in Nat
    BY <1>1, <1>4, DivMod
  <2> QED
    BY <1>5, <1>7, <2>1 DEF Load, c, u

\* The initial state satisfies the invariant.
LEMMA InitIInv == Init => IInv
<1> SUFFICES ASSUME Init PROVE IInv
  OBVIOUS
<1>1. RoomyTable(EmptyTable(0)) /\ TableTypeOK(EmptyTable(0)) /\ EmptyTable(0).capacity = 0
  BY EmptyTableRoomy
<1>2. map = EmptyTable(0) /\ map2 = EmptyTable(0) /\ pc = "idle" /\ op = NoOp /\ idx = 0
  BY DEF Init
<1>3. NoOp \in Entry
  BY DEF NoOp, Entry, Sentinels
<1>4. idx \in 0 .. map.capacity
  BY <1>1, <1>2, SMT
<1> QED
  BY <1>1, <1>2, <1>3, <1>4 DEF IInv, TypeOK

\* hashmap_put2 up to its probe.
LEMMA CallIInv ==
  ASSUME IInv, NEW k \in Keys, NEW v \in Vals, Call(k, v)
  PROVE  IInv'
<1>1. /\ TypeOK /\ RoomyTable(map) /\ RoomyTable(map2)
      /\ pc = "idle" /\ op' = [key |-> k, val |-> v] /\ idx = 0 /\ idx' = 0
  BY DEF IInv, Call
<1>2. op' \in Entry /\ op'.key \in Keys /\ op'.val \in Vals
  BY <1>1 DEF Entry
<1>3. INIT_SIZE \in Nat \ {0} /\ HIGH_WATERMARK \in Nat \ {0}
  BY SizeAssumption, SMT
<1>4. map.capacity \in Nat /\ idx \in 0 .. map.capacity
  BY <1>1 DEF TypeOK, TableTypeOK
<1>5. CASE map.capacity = 0 /\ map' = EmptyTable(INIT_SIZE) /\ pc' = "insert" /\ UNCHANGED map2
  <2>1. /\ RoomyTable(map') /\ TableTypeOK(map')
        /\ map'.capacity = INIT_SIZE /\ map'.used = 0
    BY <1>3, <1>5, EmptyTableRoomy
  <2>2. Load(map') < HIGH_WATERMARK
    BY <1>3, <2>1, SMT DEF Load
  <2>3. idx' \in 0 .. map'.capacity
    BY <1>1, <1>3, <1>4, <1>5, <2>1, SMT
  <2> QED
    BY <1>1, <1>2, <1>3, <1>5, <2>1, <2>2, <2>3 DEF IInv, TypeOK
<1>6. CASE map.capacity > 0 /\ Load(map) < HIGH_WATERMARK /\ pc' = "insert" /\ UNCHANGED <<map, map2>>
  <2>1. map.capacity # 0
    BY <1>4, <1>6, SMT
  <2> QED
    BY <1>1, <1>2, <1>4, <1>6, <2>1 DEF IInv, TypeOK
<1>7. CASE map.capacity > 0 /\ map2' = EmptyTable(map.capacity) /\ pc' = "grow" /\ UNCHANGED map
  <2>1. map.capacity # 0 /\ map.capacity >= INIT_SIZE
    BY <1>1, <1>4, <1>7, SMT DEF RoomyTable
  <2>2. /\ RoomyTable(map2') /\ TableTypeOK(map2')
        /\ map2'.capacity # 0 /\ map2'.used = 0
    BY <1>4, <1>7, <2>1, EmptyTableRoomy
  <2> QED
    BY <1>1, <1>2, <1>4, <1>7, <2>1, <2>2 DEF IInv, TypeOK
<1> QED
  BY <1>5, <1>6, <1>7 DEF Call

\* The probe and the store of hashmap_put2.
LEMMA InsertIInv == IInv /\ Insert => IInv'
<1> SUFFICES ASSUME IInv, Insert PROVE IInv'
  OBVIOUS
<1>1. /\ TypeOK /\ RoomyTable(map) /\ RoomyTable(map2) /\ map.capacity # 0
      /\ Load(map) < HIGH_WATERMARK
      /\ op.key \in Keys /\ op.val \in Vals
      /\ pc' = "idle" /\ op' = NoOp /\ map2' = map2 /\ idx = 0 /\ idx' = 0
  BY DEF IInv, TypeOK, Insert
<1>2. PICK i \in 0 .. map.capacity - 1 :
        /\ StopsAt(map, op.key, InsertStops(op.key), i)
        /\ map' = StoreAt(map, Slot(op.key, i, map.capacity), op.key, op.val)
  BY DEF Insert
<1>3. RoomyTable(map') /\ map'.capacity = map.capacity
  BY <1>1, <1>2, StoreAtRoomy
<1>4. TableTypeOK(map')
  BY <1>3 DEF RoomyTable, TableOK
<1>5. NoOp \in Entry
  BY DEF NoOp, Entry, Sentinels
<1> QED
  BY <1>1, <1>3, <1>4, <1>5 DEF IInv, TypeOK

\* hashmap_delete2.
LEMMA DeleteIInv ==
  ASSUME IInv, NEW k \in Keys, Delete(k)
  PROVE  IInv'
<1>1. /\ TypeOK /\ RoomyTable(map) /\ RoomyTable(map2) /\ pc = "idle" /\ idx = 0
      /\ UNCHANGED <<pc, op, map2, idx>>
  BY DEF IInv, Delete
<1>2. PICK i \in 0 .. map.capacity - 1 :
        /\ map.buckets[Slot(k, i, map.capacity)].key = k
        /\ map' = Bury(map, Slot(k, i, map.capacity))
  BY DEF Delete
<1>3. Slot(k, i, map.capacity) \in 0 .. map.capacity - 1
  <2>1. map.capacity \in Nat \ {0} /\ i \in Nat
    BY <1>1, SMT DEF TypeOK, TableTypeOK
  <2> QED
    BY <2>1, SlotInRange
<1>4. HasKey(map, Slot(k, i, map.capacity))
  BY <1>2, SentinelAssumption DEF HasKey, Sentinels
<1>5. TableOK(map') /\ map'.capacity = map.capacity /\ map'.used = map.used
  BY <1>1, <1>2, <1>3, <1>4, TombstoneOK DEF RoomyTable
<1>6. TableTypeOK(map') /\ RoomyTable(map')
  BY <1>1, <1>5 DEF RoomyTable, TableOK
<1> QED
  BY <1>1, <1>5, <1>6 DEF IInv, TypeOK

\* The doubling loop of rehash.
LEMMA DoubleIInv == IInv /\ Double => IInv'
<1> SUFFICES ASSUME IInv, Double PROVE IInv'
  OBVIOUS
<1>1. /\ TypeOK /\ RoomyTable(map2) /\ pc = "grow" /\ map2.capacity # 0
      /\ map2' = EmptyTable(2 * map2.capacity)
      /\ UNCHANGED <<map, pc, op, idx>>
  BY DEF IInv, Double
<1>2. /\ 2 * map2.capacity \in Nat
      /\ 2 * map2.capacity # 0
      /\ 2 * map2.capacity >= INIT_SIZE
  BY <1>1, SizeAssumption, SMT DEF TypeOK, TableTypeOK, RoomyTable
<1>3. /\ RoomyTable(map2') /\ TableTypeOK(map2')
      /\ map2'.capacity # 0 /\ map2'.used = 0
  BY <1>1, <1>2, EmptyTableRoomy
<1> QED
  BY <1>1, <1>3 DEF IInv, TypeOK

\* The end of the doubling loop.
LEMMA SizedIInv == IInv /\ Sized => IInv'
<1> SUFFICES ASSUME IInv, Sized PROVE IInv'
  OBVIOUS
<1>1. /\ TypeOK /\ pc = "grow" /\ map2.used = 0 /\ idx = 0
      /\ (NKeys(map) * 100) \div map2.capacity < LOW_WATERMARK
      /\ pc' = "copy"
      /\ UNCHANGED <<map, op, map2, idx>>
  BY DEF IInv, Sized
<1>2. map2.used <= Cardinality(LiveBelow(map, idx))
  <2>1. Cardinality(LiveBelow(map, 0)) = 0
    BY LiveBelowCount, SMT
  <2> QED
    BY <1>1, <2>1
<1>3. NKeys(map)' = NKeys(map) /\ LiveBelow(map, idx)' = LiveBelow(map, idx)
  BY <1>1 DEF NKeys, LiveBelow, HasKey
<1> QED
  BY <1>1, <1>2, <1>3 DEF IInv, TypeOK

\* One iteration of the copy loop.
LEMMA CopyEntryIInv == IInv /\ CopyEntry => IInv'
<1> SUFFICES ASSUME IInv, CopyEntry PROVE IInv'
  OBVIOUS
<1>1. /\ TypeOK /\ RoomyTable(map) /\ RoomyTable(map2) /\ pc = "copy"
      /\ map2.capacity # 0
      /\ idx < map.capacity /\ idx' = idx + 1
      /\ UNCHANGED <<map, pc, op>>
      /\ (NKeys(map) * 100) \div map2.capacity < LOW_WATERMARK
      /\ map2.used <= Cardinality(LiveBelow(map, idx))
  BY DEF IInv, CopyEntry
<1>2. /\ idx \in Nat /\ map.capacity \in Nat /\ map2.used \in Nat
      /\ idx \in 0 .. map.capacity - 1
      /\ idx + 1 \in 0 .. map.capacity
  BY <1>1, SMT DEF TypeOK, TableTypeOK
<1>3. NKeys(map)' = NKeys(map) /\ LiveBelow(map, idx)' = LiveBelow(map, idx + 1)
  BY <1>1 DEF NKeys, LiveBelow, HasKey
<1>4. Cardinality(LiveBelow(map, idx)) \in Nat
  BY <1>2, LiveBelowCount
<1>5. CASE ~ HasKey(map, idx) /\ UNCHANGED map2
  <2>1. Cardinality(LiveBelow(map, idx + 1)) = Cardinality(LiveBelow(map, idx))
    BY <1>2, <1>5, LiveBelowCount
  <2> QED
    BY <1>1, <1>2, <1>3, <1>5, <2>1 DEF IInv, TypeOK
<1>6. CASE HasKey(map, idx) /\ ~ UNCHANGED map2
  <2> DEFINE ent == map.buckets[idx]
  <2>1. ent.key \in Keys /\ ent.val \in Vals \cup {Absent}
    BY <1>1, <1>2, <1>6 DEF TypeOK, TableTypeOK, Entry, HasKey
  <2>2. PICK i \in 0 .. map2.capacity - 1 :
          /\ StopsAt(map2, ent.key, InsertStops(ent.key), i)
          /\ map2' = StoreAt(map2, Slot(ent.key, i, map2.capacity), ent.key, ent.val)
    BY <1>6 DEF CopyEntry
  <2>3. Load(map2) < HIGH_WATERMARK
    BY <1>1, CopyFits
  <2> HIDE DEF ent
  <2>4. /\ RoomyTable(map2') /\ map2'.capacity = map2.capacity
        /\ map2'.used \in {map2.used, map2.used + 1}
    BY <1>1, <2>1, <2>2, <2>3, StoreAtRoomy
  <2>5. Cardinality(LiveBelow(map, idx + 1)) = Cardinality(LiveBelow(map, idx)) + 1
    BY <1>2, <1>6, LiveBelowCount
  <2>6. map2'.used <= Cardinality(LiveBelow(map, idx + 1))
    BY <1>1, <1>2, <1>4, <2>4, <2>5, SMT
  <2>7. TableTypeOK(map2')
    BY <2>4 DEF RoomyTable, TableOK
  <2> QED
    BY <1>1, <1>2, <1>3, <2>4, <2>6, <2>7 DEF IInv, TypeOK
<1>7. CASE HasKey(map, idx) /\ UNCHANGED map2
  <2>1. Cardinality(LiveBelow(map, idx + 1)) = Cardinality(LiveBelow(map, idx)) + 1
    BY <1>2, <1>7, LiveBelowCount
  <2>2. map2.used <= Cardinality(LiveBelow(map, idx + 1))
    BY <1>1, <1>2, <1>4, <2>1, SMT
  <2> QED
    BY <1>1, <1>2, <1>3, <1>7, <2>2 DEF IInv, TypeOK
<1> QED
  BY <1>5, <1>6, <1>7 DEF CopyEntry

\* The end of rehash.
LEMMA SwapIInv == IInv /\ Swap => IInv'
<1> SUFFICES ASSUME IInv, Swap PROVE IInv'
  OBVIOUS
<1>1. /\ TypeOK /\ RoomyTable(map2) /\ pc = "copy" /\ map2.capacity # 0
      /\ map' = map2 /\ map2' = EmptyTable(0) /\ pc' = "insert"
      /\ idx' = 0 /\ op' = op
  BY DEF IInv, Swap
<1>2. Load(map') < HIGH_WATERMARK
  BY <1>1, CopyFits
<1>3. RoomyTable(map2') /\ TableTypeOK(map2')
  BY <1>1, EmptyTableRoomy
<1>4. idx' \in 0 .. map'.capacity
  BY <1>1, SMT DEF TypeOK, TableTypeOK
<1> QED
  BY <1>1, <1>2, <1>3, <1>4 DEF IInv, TypeOK

\* assert(map2.used == nkeys) fails.
LEMMA AssertFailsIInv == IInv /\ AssertFails => IInv'
  BY DEF IInv, TypeOK, AssertFails

\* Every step of the hash table preserves the invariant.
LEMMA NextIInv == IInv /\ [Next]_vars => IInv'
<1> SUFFICES ASSUME IInv, [Next]_vars PROVE IInv'
  OBVIOUS
<1>1. CASE \E k \in Keys, v \in Vals : Call(k, v)
  BY <1>1, CallIInv
<1>2. CASE \E k \in Deletable : Delete(k)
  BY <1>2, DeleteIInv, DeletableAssumption
<1>3. CASE Insert
  BY <1>3, InsertIInv
<1>4. CASE Rehash
  BY <1>4, DoubleIInv, SizedIInv, CopyEntryIInv, SwapIInv, AssertFailsIInv DEF Rehash
<1>5. CASE UNCHANGED vars
  BY <1>5 DEF vars, IInv, TypeOK, RoomyTable, TableOK, TableTypeOK, NKeys, LiveBelow,
             HasKey, Load, Occupied, ProbeChain, Slot
<1> QED
  BY <1>1, <1>2, <1>3, <1>4, <1>5 DEF Next

\* IInv is an invariant.
THEOREM HashMapInvariant == Spec => []IInv
<1>1. Init => IInv
  BY InitIInv
<1>2. IInv /\ [Next]_vars => IInv'
  BY NextIInv
<1> QED
  BY <1>1, <1>2, PTL DEF Spec

-----------------------------------------------------------------------------
(* The results.                                                            *)

\* The variables of the hash table keep their types.
THEOREM HashMapTypeOK == Spec => []TypeOK
<1>1. IInv => TypeOK
  BY DEF IInv
<1> QED
  BY <1>1, HashMapInvariant, PTL

\* The counter behind the watermarks counts the buckets that are not NULL,
\* through every put, delete and rehash.
THEOREM HashMapUsed == Spec => []UsedIsOccupancy
<1>1. IInv => UsedIsOccupancy
  BY DEF IInv, RoomyTable, TableOK, UsedIsOccupancy
<1> QED
  BY <1>1, HashMapInvariant, PTL

\* No probe stops at a NULL bucket short of the key it looks for.
THEOREM HashMapNoHoles == Spec => []NoHoles
<1>1. IInv => NoHoles
  BY DEF IInv, RoomyTable, TableOK, NoHoles
<1> QED
  BY <1>1, HashMapInvariant, PTL

\* The calls of unreachable() in hashmap.c are unreachable: every probe of
\* every table meets a NULL bucket, for any hash function and any sizes
\* with INIT_SIZE * (100 - HIGH_WATERMARK) > 100.
THEOREM HashMapProbesEnd == Spec => []ProbesEnd
<1>1. IInv => ProbesEnd
  <2> SUFFICES ASSUME IInv, NEW t \in {map, map2}, NEW k \in Keys, t.capacity > 0
               PROVE  \E i \in 0 .. t.capacity - 1 :
                         t.buckets[Slot(k, i, t.capacity)].key = NULL
    BY DEF ProbesEnd
  <2>1. TableOK(t) /\ t.used < t.capacity
    <3>1. RoomyTable(t) /\ TableTypeOK(t)
      BY DEF IInv, TypeOK
    <3>2. t.capacity # 0
      BY <3>1, SMT DEF TableTypeOK
    <3> QED
      BY <3>1, <3>2 DEF RoomyTable
  <2> QED
    BY <2>1, FreeSlot
<1> QED
  BY <1>1, HashMapInvariant, PTL

\* The hashmap_put2 inside rehash() never rehashes the new table.
THEOREM HashMapNoNestedRehash == Spec => []NoNestedRehash
<1>1. IInv => NoNestedRehash
  BY CopyFits DEF NoNestedRehash
<1> QED
  BY <1>1, HashMapInvariant, PTL

-----------------------------------------------------------------------------
(* Lookups *)

\* The probe for k ends at distance i, with k.
Hit(t, k, i) == /\ StopsAt(t, k, FindStops(k), i)
                /\ t.buckets[Slot(k, i, t.capacity)].key = k

\* Of the buckets of one table, no two hold the same key.
Distinct(t) ==
  \A s1, s2 \in 0 .. t.capacity - 1 :
    t.buckets[s1].key \in Keys /\ t.buckets[s1].key = t.buckets[s2].key => s1 = s2

NoTombstones(t) == \A s \in 0 .. t.capacity - 1 : t.buckets[s].key # TOMBSTONE

\* A probe ends once.
LEMMA LookupHit ==
  ASSUME NEW t, TableTypeOK(t), NEW k \in Keys, NEW i \in 0 .. t.capacity - 1, Hit(t, k, i)
  PROVE  Lookup(t, k) = t.buckets[Slot(k, i, t.capacity)].val
<1> DEFINE hits == {j \in 0 .. t.capacity - 1 :
                      /\ StopsAt(t, k, FindStops(k), j)
                      /\ t.buckets[Slot(k, j, t.capacity)].key = k}
<1>1. t.capacity \in Nat
  BY DEF TableTypeOK
<1>2. i \in hits
  BY DEF Hit
<1>3. ASSUME NEW j \in hits PROVE j = i
  <2>1. j \in Int /\ i \in Int /\ 0 <= i /\ 0 <= j
    BY <1>1
  <2>2. k \in FindStops(k)
    BY DEF FindStops
  <2>3. ~(j < i)
    <3> SUFFICES ASSUME j < i PROVE FALSE
      OBVIOUS
    <3>1. j \in 0 .. i - 1
      BY <2>1
    <3> QED BY <2>2, <3>1 DEF Hit, StopsAt
  <2>4. ~(i < j)
    <3> SUFFICES ASSUME i < j PROVE FALSE
      OBVIOUS
    <3>1. i \in 0 .. j - 1
      BY <2>1
    <3> QED BY <2>2, <3>1 DEF Hit, StopsAt
  <2> QED BY <2>1, <2>3, <2>4
<1>4. hits = {i}
  BY <1>2, <1>3
<1>5. Lookup(t, k) = IF hits = {} THEN Absent
                     ELSE t.buckets[Slot(k, CHOOSE j \in hits : TRUE, t.capacity)].val
  BY DEF Lookup
<1> HIDE DEF hits
<1> QED BY <1>4, <1>5

\* A probe that does not end with k finds nothing.
LEMMA LookupMiss ==
  ASSUME NEW t, NEW k, \A i \in 0 .. t.capacity - 1 : ~Hit(t, k, i)
  PROVE  Lookup(t, k) = Absent
  BY DEF Lookup, Hit

\* Two tables in which the probe for k ends alike read alike.
LEMMA LookupSame ==
  ASSUME NEW t, NEW t2, TableTypeOK(t), TableTypeOK(t2), t2.capacity = t.capacity,
         NEW k \in Keys,
         \A i \in 0 .. t.capacity - 1 : Hit(t, k, i) <=> Hit(t2, k, i),
         \A i \in 0 .. t.capacity - 1 : Hit(t, k, i) =>
           t2.buckets[Slot(k, i, t.capacity)] = t.buckets[Slot(k, i, t.capacity)]
  PROVE  Lookup(t2, k) = Lookup(t, k)
<1>1. CASE \E i \in 0 .. t.capacity - 1 : Hit(t, k, i)
  <2>1. PICK i \in 0 .. t.capacity - 1 : Hit(t, k, i)
    BY <1>1
  <2> QED BY <2>1, LookupHit
<1>2. CASE \A i \in 0 .. t.capacity - 1 : ~Hit(t, k, i)
  BY <1>2, LookupMiss
<1> QED BY <1>1, <1>2

\* In a table in order whose keys are distinct, a key that is there is read.
LEMMA ReadsKey ==
  ASSUME NEW t, TableOK(t), Distinct(t), NEW k \in Keys,
         NEW s \in 0 .. t.capacity - 1, t.buckets[s].key = k
  PROVE  Lookup(t, k) = t.buckets[s].val
<1>1. TableTypeOK(t) /\ t.capacity \in Nat \ {0}
  BY SMT DEF TableOK, TableTypeOK
<1>2. PICK i \in 0 .. t.capacity - 1 : Slot(k, i, t.capacity) = s
  BY <1>1, SlotOnto
<1>3. ASSUME NEW j \in 0 .. i - 1
      PROVE  t.buckets[Slot(k, j, t.capacity)].key \notin FindStops(k)
  <2>1. j \in 0 .. t.capacity - 1 /\ j # i /\ j \in Nat
    BY <1>1
  <2>2. Slot(k, j, t.capacity) # s /\ Slot(k, j, t.capacity) \in 0 .. t.capacity - 1
    BY <1>1, <1>2, <2>1, SlotInjective, SlotInRange
  <2>3. t.buckets[Slot(k, j, t.capacity)].key # k
    BY <2>2 DEF Distinct
  <2>4. t.buckets[Slot(k, j, t.capacity)].key # NULL
    BY <1>2 DEF TableOK, ProbeChain
  <2> QED BY <2>3, <2>4 DEF FindStops
<1>4. Hit(t, k, i)
  BY <1>2, <1>3 DEF Hit, StopsAt, FindStops
<1> QED BY <1>1, <1>2, <1>4, LookupHit

\* A key that is not there is not.
LEMMA ReadsNothing ==
  ASSUME NEW t, TableTypeOK(t), NEW k \in Keys,
         \A s \in 0 .. t.capacity - 1 : t.buckets[s].key # k
  PROVE  Lookup(t, k) = Absent
<1> SUFFICES ASSUME NEW i \in 0 .. t.capacity - 1 PROVE ~Hit(t, k, i)
  BY LookupMiss
<1>1. t.capacity \in Nat \ {0} /\ i \in Nat
  BY SMT DEF TableTypeOK
<1> QED BY <1>1, SlotInRange DEF Hit

-----------------------------------------------------------------------------
(* One operation on a table *)

\* A store reads back, and no other key reads it.
LEMMA StoreAtReads ==
  ASSUME NEW t, TableOK(t), NEW k \in Keys, NEW v \in Vals \cup {Absent},
         NEW i \in 0 .. t.capacity - 1, StopsAt(t, k, InsertStops(k), i)
  PROVE  LET t2 == StoreAt(t, Slot(k, i, t.capacity), k, v)
         IN  /\ Lookup(t2, k) = v
             /\ \A o \in Keys \ {k} : Lookup(t2, o) = Lookup(t, o)
<1> DEFINE c == t.capacity
           s == Slot(k, i, c)
           e == [key |-> k, val |-> v]
           t2 == StoreAt(t, s, k, v)
<1>1. /\ TableTypeOK(t) /\ c \in Nat \ {0} /\ i \in Nat
      /\ t.buckets \in [0 .. c - 1 -> Entry]
  BY SMT DEF TableOK, TableTypeOK
<1>2. s \in 0 .. c - 1
  BY <1>1, SlotInRange
<1>3. k # NULL /\ k # TOMBSTONE
  BY SentinelAssumption
<1>4. e.key = k /\ e.val = v
  OBVIOUS
<1>5. t2.capacity = c /\ t2.buckets = [t.buckets EXCEPT ![s] = e]
  BY DEF StoreAt
<1>6. TableTypeOK(t2)
  BY StoreAtOK DEF TableOK
<1> HIDE DEF t2, e
<1>7. t2.buckets[s] = e /\ \A r \in 0 .. c - 1 : r # s => t2.buckets[r] = t.buckets[r]
  BY <1>1, <1>2, <1>5
<1>8. t.buckets[s].key \in {k, NULL, TOMBSTONE}
  BY DEF StopsAt, InsertStops
<1>9. Lookup(t2, k) = v
  <2>1. ASSUME NEW j \in 0 .. i - 1 PROVE t2.buckets[Slot(k, j, c)].key \notin FindStops(k)
    <3>1. j \in 0 .. c - 1 /\ j # i /\ j \in Nat
      BY <1>1
    <3>2. Slot(k, j, c) # s /\ Slot(k, j, c) \in 0 .. c - 1
      BY <1>1, <3>1, SlotInjective, SlotInRange
    <3> QED BY <1>7, <3>2 DEF StopsAt, InsertStops, FindStops
  <2>2. Hit(t2, k, i)
    BY <1>4, <1>5, <1>7, <2>1 DEF Hit, StopsAt, FindStops
  <2>3. i \in 0 .. t2.capacity - 1
    BY <1>5
  <2>4. Lookup(t2, k) = t2.buckets[Slot(k, i, t2.capacity)].val
    BY <1>6, <2>2, <2>3, LookupHit
  <2>5. t2.buckets[Slot(k, i, t2.capacity)] = e
    BY <1>5, <1>7
  <2> QED BY <1>4, <2>4, <2>5
<1>10. ASSUME NEW o \in Keys \ {k} PROVE Lookup(t2, o) = Lookup(t, o)
  <2>1. o # k /\ o # NULL /\ o # TOMBSTONE
    BY SentinelAssumption
  <2>2. ASSUME NEW m \in 0 .. c - 1
        PROVE  /\ Hit(t, o, m) <=> Hit(t2, o, m)
               /\ Hit(t, o, m) => t2.buckets[Slot(o, m, c)] = t.buckets[Slot(o, m, c)]
    <3>1. m \in Nat /\ Slot(o, m, c) \in 0 .. c - 1
      BY <1>1, SlotInRange
    <3>2. ASSUME NEW j \in 0 .. m - 1 PROVE Slot(o, j, c) \in 0 .. c - 1
      <4>1. j \in Nat
        OBVIOUS
      <4> QED BY <1>1, <4>1, SlotInRange
    <3>3. /\ t.buckets[Slot(o, m, c)].key = o => Slot(o, m, c) # s
          /\ t2.buckets[Slot(o, m, c)].key = o => Slot(o, m, c) # s
      BY <1>4, <1>7, <1>8, <2>1
    <3>4. Hit(t, o, m) => Hit(t2, o, m)
      <4> SUFFICES ASSUME Hit(t, o, m) PROVE Hit(t2, o, m)
        OBVIOUS
      <4>1. t2.buckets[Slot(o, m, c)].key = o
        BY <1>7, <3>1, <3>3 DEF Hit
      <4>2. ASSUME NEW j \in 0 .. m - 1 PROVE t2.buckets[Slot(o, j, c)].key \notin {o, NULL}
        BY <1>3, <1>4, <1>7, <2>1, <3>2 DEF Hit, StopsAt, FindStops
      <4> QED BY <1>5, <4>1, <4>2 DEF Hit, StopsAt, FindStops
    <3>5. Hit(t2, o, m) => Hit(t, o, m)
      <4> SUFFICES ASSUME Hit(t2, o, m) PROVE Hit(t, o, m)
        OBVIOUS
      <4>1. t.buckets[Slot(o, m, c)].key = o
        BY <1>5, <1>7, <3>1, <3>3 DEF Hit
      <4>2. ASSUME NEW j \in 0 .. m - 1 PROVE t.buckets[Slot(o, j, c)].key \notin {o, NULL}
        <5>1. t.buckets[Slot(o, j, c)].key # NULL
          BY <4>1 DEF TableOK, ProbeChain
        <5>2. t.buckets[Slot(o, j, c)].key # o
          BY <1>5, <1>7, <1>8, <2>1, <3>2 DEF Hit, StopsAt, FindStops
        <5> QED BY <5>1, <5>2
      <4> QED BY <4>1, <4>2 DEF Hit, StopsAt, FindStops
    <3>6. Hit(t, o, m) => t2.buckets[Slot(o, m, c)] = t.buckets[Slot(o, m, c)]
      BY <1>7, <3>1, <3>3 DEF Hit
    <3> QED BY <3>4, <3>5, <3>6
  <2>3. t2.capacity = t.capacity
    BY <1>5
  <2> QED BY <1>1, <1>6, <2>2, <2>3, LookupSame
<1> QED BY <1>9, <1>10 DEF t2

\* A delete changes what its own key reads and nothing else.
LEMMA BuryReads ==
  ASSUME NEW t, TableOK(t), NEW s \in 0 .. t.capacity - 1, NEW k \in Keys,
         t.buckets[s].key = k, NEW o \in Keys \ {k}
  PROVE  Lookup(Bury(t, s), o) = Lookup(t, o)
<1> DEFINE c == t.capacity
           t2 == Bury(t, s)
<1>1. /\ TableTypeOK(t) /\ c \in Nat \ {0} /\ t.buckets \in [0 .. c - 1 -> Entry]
  BY SMT DEF TableOK, TableTypeOK
<1>2. o # k /\ o # NULL /\ o # TOMBSTONE /\ k # NULL /\ k # TOMBSTONE
  BY SentinelAssumption
<1>3. HasKey(t, s)
  BY <1>2 DEF HasKey, Sentinels
<1>4. TableTypeOK(t2) /\ t2.capacity = c
  BY <1>3, TombstoneOK DEF TableOK
<1>5. t2.buckets = [t.buckets EXCEPT ![s].key = TOMBSTONE]
  BY DEF Bury
<1> HIDE DEF t2
<1>6. /\ t2.buckets[s].key = TOMBSTONE
      /\ \A r \in 0 .. c - 1 : r # s => t2.buckets[r] = t.buckets[r]
  BY <1>1, <1>5 DEF Entry
<1>7. ASSUME NEW m \in 0 .. c - 1
      PROVE  /\ Hit(t, o, m) <=> Hit(t2, o, m)
             /\ Hit(t, o, m) => t2.buckets[Slot(o, m, c)] = t.buckets[Slot(o, m, c)]
  <2>1. Slot(o, m, c) \in 0 .. c - 1
    <3>1. m \in Nat
      BY <1>1
    <3> QED BY <1>1, <3>1, SlotInRange
  <2>2. ASSUME NEW j \in 0 .. m - 1 PROVE Slot(o, j, c) \in 0 .. c - 1
    <3>1. j \in Nat
      OBVIOUS
    <3> QED BY <1>1, <3>1, SlotInRange
  <2>3. /\ t.buckets[Slot(o, m, c)].key = o => Slot(o, m, c) # s
        /\ t2.buckets[Slot(o, m, c)].key = o => Slot(o, m, c) # s
    BY <1>2, <1>6
  <2>4. \A j \in 0 .. m - 1 : t.buckets[Slot(o, j, c)].key \in {o, NULL}
                              <=> t2.buckets[Slot(o, j, c)].key \in {o, NULL}
    BY <1>2, <1>6, <2>2, SentinelAssumption
  <2> QED BY <1>4, <1>6, <2>1, <2>3, <2>4 DEF Hit, StopsAt, FindStops
<1> QED BY <1>1, <1>4, <1>7, LookupSame DEF t2

\* Without tombstones a store keeps the keys distinct.
LEMMA StoreAtDistinct ==
  ASSUME NEW t, TableOK(t), Distinct(t), NoTombstones(t),
         NEW k \in Keys, NEW v \in Vals \cup {Absent},
         NEW i \in 0 .. t.capacity - 1, StopsAt(t, k, InsertStops(k), i)
  PROVE  LET s == Slot(k, i, t.capacity)
             t2 == StoreAt(t, s, k, v)
         IN  /\ Distinct(t2) /\ NoTombstones(t2)
             /\ s \in 0 .. t.capacity - 1 /\ t2.capacity = t.capacity
             /\ t2.buckets[s] = [key |-> k, val |-> v]
             /\ t.buckets[s].key \in {k, NULL}
             /\ \A r \in 0 .. t.capacity - 1 : r # s => /\ t2.buckets[r] = t.buckets[r]
                                                        /\ t.buckets[r].key # k
<1> DEFINE c == t.capacity
           s == Slot(k, i, c)
           e == [key |-> k, val |-> v]
           t2 == StoreAt(t, s, k, v)
<1>1. c \in Nat \ {0} /\ i \in Nat /\ t.buckets \in [0 .. c - 1 -> Entry]
  BY SMT DEF TableOK, TableTypeOK
<1>2. s \in 0 .. c - 1
  BY <1>1, SlotInRange
<1>3. k # NULL /\ k # TOMBSTONE /\ e.key = k
  BY SentinelAssumption
<1>4. t2.capacity = c /\ t2.buckets = [t.buckets EXCEPT ![s] = e]
  BY DEF StoreAt
<1> HIDE DEF t2, e
<1>5. t2.buckets[s] = e /\ \A r \in 0 .. c - 1 : r # s => t2.buckets[r] = t.buckets[r]
  BY <1>1, <1>2, <1>4
<1>6. t.buckets[s].key \in {k, NULL}
  BY <1>2 DEF StopsAt, InsertStops, NoTombstones
<1>7. ASSUME NEW r \in 0 .. c - 1, r # s PROVE t.buckets[r].key # k
  <2> SUFFICES ASSUME t.buckets[r].key = k PROVE FALSE
    OBVIOUS
  <2>1. t.buckets[s].key = NULL
    BY <1>2, <1>6, <1>7 DEF Distinct
  <2>2. PICK m \in 0 .. c - 1 : Slot(k, m, c) = r
    BY <1>1, SlotOnto
  <2>3. ~(i < m)
    <3> SUFFICES ASSUME i < m PROVE FALSE
      OBVIOUS
    <3>1. i \in 0 .. m - 1
      BY <1>1
    <3> QED BY <2>1, <2>2, <3>1 DEF TableOK, ProbeChain
  <2>4. ~(m < i)
    <3> SUFFICES ASSUME m < i PROVE FALSE
      OBVIOUS
    <3>1. m \in 0 .. i - 1
      BY <1>1
    <3> QED BY <2>2, <3>1 DEF StopsAt, InsertStops
  <2>5. m = i
    BY <1>1, <2>3, <2>4
  <2> QED BY <1>7, <2>2, <2>5
<1>8. NoTombstones(t2)
  BY <1>3, <1>4, <1>5 DEF NoTombstones
<1>9. Distinct(t2)
  <2> SUFFICES ASSUME NEW s1 \in 0 .. c - 1, NEW s2 \in 0 .. c - 1,
                      t2.buckets[s1].key \in Keys, t2.buckets[s1].key = t2.buckets[s2].key
               PROVE  s1 = s2
    BY <1>4 DEF Distinct
  <2>1. CASE s1 = s
    BY <1>3, <1>5, <1>7, <2>1
  <2>2. CASE s2 = s
    BY <1>3, <1>5, <1>7, <2>2
  <2>3. CASE s1 # s /\ s2 # s
    BY <1>5, <2>3 DEF Distinct
  <2> QED BY <2>1, <2>2, <2>3
<1> QED BY <1>2, <1>4, <1>5, <1>6, <1>7, <1>8, <1>9 DEF t2, e

-----------------------------------------------------------------------------
(* The invariant of the copy loop *)

\* Every key below idx has a bucket in the new table, and every entry of the new
\* table is one from below idx: with duplicates in the old table, the last one.
CopiedBelow ==
  \A s \in 0 .. idx - 1 : HasKey(map, s) =>
    \E r \in 0 .. map2.capacity - 1 : map2.buckets[r].key = map.buckets[s].key
FromBelow ==
  \A r \in 0 .. map2.capacity - 1 : HasKey(map2, r) =>
    \E s \in 0 .. idx - 1 : HasKey(map, s) /\ map2.buckets[r] = map.buckets[s]

RehashInv ==
  pc \in {"grow", "copy"} =>
    Distinct(map2) /\ NoTombstones(map2) /\ CopiedBelow /\ FromBelow

IdleInv == pc = "idle" => op = NoOp

JInv == IInv /\ RehashInv /\ IdleInv

\* A table nothing was deleted from.
Clean == ~deletes => Distinct(map) /\ NoTombstones(map) /\ RehashAssert

\* A bucket of a table holds a key, or it is free or a tombstone.
LEMMA KeyOf ==
  ASSUME NEW t, TableTypeOK(t), NEW s \in 0 .. t.capacity - 1
  PROVE  /\ t.buckets[s] = [key |-> t.buckets[s].key, val |-> t.buckets[s].val]
         /\ t.buckets[s].val \in Vals \cup {Absent}
         /\ HasKey(t, s) <=> t.buckets[s].key \in Keys
<1>1. t.buckets[s] \in Entry
  BY DEF TableTypeOK
<1> QED BY <1>1, SentinelAssumption DEF Entry, HasKey, Sentinels

\* In a new table nothing is found.
LEMMA EmptyTableClean ==
  ASSUME NEW c \in Nat
  PROVE  LET t == EmptyTable(c)
         IN  /\ Distinct(t) /\ NoTombstones(t)
             /\ \A s \in 0 .. t.capacity - 1 : t.buckets[s].key = NULL /\ ~HasKey(t, s)
             /\ \A k \in Keys : Lookup(t, k) = Absent
<1> DEFINE t == EmptyTable(c)
<1>1. t.capacity = c /\ TableTypeOK(t) /\ \A s \in 0 .. c - 1 : t.buckets[s].key = NULL
  BY EmptyTableOK DEF EmptyTable, TableOK
<1> HIDE DEF t
<1>2. \A k \in Keys : Lookup(t, k) = Absent
  BY <1>1, ReadsNothing, SentinelAssumption
<1> QED BY <1>1, <1>2, SentinelAssumption DEF Distinct, NoTombstones, HasKey, Sentinels, t

\* When the loop is through, the assertion says that no key was there twice.
LEMMA AssertMeansDistinct ==
  ASSUME JInv, pc = "copy", idx = map.capacity
  PROVE  map2.used = NKeys(map) <=> Distinct(map)
<1> DEFINE S == LiveBelow(map, map.capacity)
           T == Occupied(map2)
           f == [s \in S |-> CHOOSE r \in 0 .. map2.capacity - 1 :
                               map2.buckets[r].key = map.buckets[s].key]
<1>1. /\ TableTypeOK(map) /\ TableTypeOK(map2) /\ map2.used = Cardinality(T)
      /\ Distinct(map2) /\ NoTombstones(map2) /\ CopiedBelow /\ FromBelow
  BY DEF JInv, IInv, TypeOK, RehashInv, RoomyTable, TableOK
<1>2. \A s \in S : s \in 0 .. map.capacity - 1 /\ HasKey(map, s) /\ map.buckets[s].key \in Keys
  BY <1>1, KeyOf DEF LiveBelow
<1>3. /\ T \subseteq 0 .. map2.capacity - 1
      /\ \A r \in T : map2.buckets[r].key \in Keys /\ HasKey(map2, r)
  <2>1. T \subseteq 0 .. map2.capacity - 1
    BY <1>1, OccupiedFinite
  <2>2. \A r \in T : HasKey(map2, r)
    BY <1>1, <2>1 DEF Occupied, NoTombstones, HasKey, Sentinels
  <2> QED BY <1>1, <2>1, <2>2, KeyOf
<1>4. ASSUME NEW s \in S
      PROVE  f[s] \in T /\ map2.buckets[f[s]].key = map.buckets[s].key
  <2>1. \E r \in 0 .. map2.capacity - 1 : map2.buckets[r].key = map.buckets[s].key
    BY <1>1, <1>2 DEF CopiedBelow
  <2>2. f[s] \in 0 .. map2.capacity - 1 /\ map2.buckets[f[s]].key = map.buckets[s].key
    BY <2>1
  <2> HIDE DEF f
  <2> QED BY <1>1, <1>2, <2>2, SentinelAssumption DEF Occupied, TableTypeOK
<1>5. ASSUME NEW r \in T PROVE \E s \in S : f[s] = r
  <2>1. PICK s \in 0 .. map.capacity - 1 : HasKey(map, s) /\ map2.buckets[r] = map.buckets[s]
    BY <1>1, <1>3 DEF FromBelow
  <2>2. s \in S
    BY <2>1 DEF LiveBelow
  <2>3. f[s] \in T /\ map2.buckets[f[s]].key = map2.buckets[r].key
    BY <1>4, <2>1, <2>2
  <2> HIDE DEF f, S
  <2>4. f[s] = r
    BY <1>1, <1>3, <2>3 DEF Distinct
  <2> QED BY <2>2, <2>4
<1>6. f \in [S -> T]
  BY <1>4
<1>7. f \in Surjection(S, T)
  BY <1>5, <1>6 DEF Surjection
<1>8. f \in Injection(S, T) <=> Distinct(map)
  <2>1. ASSUME f \in Injection(S, T) PROVE Distinct(map)
    <3> SUFFICES ASSUME NEW s1 \in 0 .. map.capacity - 1, NEW s2 \in 0 .. map.capacity - 1,
                        map.buckets[s1].key \in Keys, map.buckets[s1].key = map.buckets[s2].key
                 PROVE  s1 = s2
      BY DEF Distinct
    <3>1. s1 \in S /\ s2 \in S
      BY <1>1, KeyOf DEF LiveBelow
    <3>2. f[s1] = f[s2]
      BY <3>1
    <3> HIDE DEF f, S, T
    <3> QED BY <1>6, <2>1, <3>1, <3>2 DEF Injection, IsInjective
  <2>2. ASSUME Distinct(map) PROVE f \in Injection(S, T)
    <3>1. ASSUME NEW s1 \in S, NEW s2 \in S, f[s1] = f[s2] PROVE s1 = s2
      <4>1. map.buckets[s1].key = map.buckets[s2].key
        BY <1>4, <3>1
      <4> HIDE DEF f, S, T
      <4> QED BY <1>2, <2>2, <4>1 DEF Distinct
    <3> HIDE DEF f, S, T
    <3> QED BY <1>6, <3>1 DEF Injection, IsInjective
  <2> QED BY <2>1, <2>2
<1>9. IsFiniteSet(S)
  BY <1>1, LiveBelowCount DEF TableTypeOK
<1> HIDE DEF f, S, T
<1>10. Cardinality(T) = Cardinality(S) <=> f \in Injection(S, T)
  BY <1>7, <1>9, FS_Surjection
<1> QED BY <1>1, <1>8, <1>10 DEF NKeys, S

\* The new table reads as the old one does.
LEMMA SwapReads ==
  ASSUME JInv, Swap, NEW k \in Keys
  PROVE  Lookup(map2, k) = Lookup(map, k)
<1>1. /\ TableOK(map) /\ TableOK(map2) /\ TableTypeOK(map) /\ TableTypeOK(map2)
      /\ Distinct(map2) /\ CopiedBelow /\ FromBelow /\ idx = map.capacity
  BY DEF JInv, IInv, RoomyTable, TableOK, RehashInv, Swap
<1>2. Distinct(map)
  BY AssertMeansDistinct DEF Swap
<1>3. ASSUME NEW s \in 0 .. map.capacity - 1, map.buckets[s].key = k
      PROVE  Lookup(map2, k) = Lookup(map, k)
  <2>1. HasKey(map, s)
    BY <1>1, <1>3, KeyOf
  <2>2. PICK r \in 0 .. map2.capacity - 1 : map2.buckets[r].key = k
    BY <1>1, <1>3, <2>1 DEF CopiedBelow
  <2>3. HasKey(map2, r)
    BY <1>1, <2>2, KeyOf
  <2>4. PICK s2 \in 0 .. map.capacity - 1 : map2.buckets[r] = map.buckets[s2]
    BY <1>1, <2>3 DEF FromBelow
  <2>5. s2 = s
    BY <1>2, <1>3, <2>2, <2>4 DEF Distinct
  <2> QED BY <1>1, <1>2, <1>3, <2>2, <2>4, <2>5, ReadsKey
<1>4. ASSUME \A s \in 0 .. map.capacity - 1 : map.buckets[s].key # k
      PROVE  Lookup(map2, k) = Lookup(map, k)
  <2>1. ASSUME NEW r \in 0 .. map2.capacity - 1 PROVE map2.buckets[r].key # k
    <3> SUFFICES ASSUME map2.buckets[r].key = k PROVE FALSE
      OBVIOUS
    <3>1. HasKey(map2, r)
      BY <1>1, KeyOf
    <3> QED BY <1>1, <1>4, <3>1 DEF FromBelow
  <2> QED BY <1>1, <1>4, <2>1, ReadsNothing
<1> QED BY <1>3, <1>4

-----------------------------------------------------------------------------
(* The invariant is one *)

\* No rehash is under way at the start.
LEMMA InitJInv == Init => JInv
  BY InitIInv DEF JInv, Init, RehashInv, IdleInv

\* An empty table is where the copy loop begins.
LEMMA BeginsEmpty ==
  ASSUME NEW c \in Nat, map2' = EmptyTable(c), idx' = 0
  PROVE  (Distinct(map2) /\ NoTombstones(map2) /\ CopiedBelow /\ FromBelow)'
<1>1. /\ Distinct(map2') /\ NoTombstones(map2')
      /\ \A r \in 0 .. map2'.capacity - 1 : ~HasKey(map2', r)
  BY EmptyTableClean
<1>2. 0 .. idx' - 1 = {}
  OBVIOUS
<1> QED BY <1>1, <1>2 DEF CopiedBelow, FromBelow

\* One round of the copy loop carries one more bucket over.
LEMMA CopyEntryRehashInv ==
  ASSUME JInv, CopyEntry
  PROVE  (Distinct(map2) /\ NoTombstones(map2) /\ CopiedBelow /\ FromBelow)'
<1>1. /\ TableTypeOK(map) /\ TableTypeOK(map2) /\ TableOK(map2)
      /\ Distinct(map2) /\ NoTombstones(map2) /\ CopiedBelow /\ FromBelow
      /\ idx \in 0 .. map.capacity - 1 /\ idx' = idx + 1 /\ map' = map
  BY SMT DEF JInv, IInv, TypeOK, TableTypeOK, RehashInv, RoomyTable, TableOK, CopyEntry
<1>2. 0 .. idx' - 1 = (0 .. idx - 1) \cup {idx}
  BY <1>1
<1>3. CASE ~HasKey(map, idx) /\ map2' = map2
  BY <1>1, <1>2, <1>3 DEF CopiedBelow, FromBelow
<1>4. CASE HasKey(map, idx)
  <2> DEFINE k == map.buckets[idx].key
             v == map.buckets[idx].val
             c == map2.capacity
  <2>1. k \in Keys /\ v \in Vals \cup {Absent} /\ map.buckets[idx] = [key |-> k, val |-> v]
    BY <1>1, <1>4, KeyOf
  <2>2. PICK i \in 0 .. c - 1 : /\ StopsAt(map2, k, InsertStops(k), i)
                                /\ map2' = StoreAt(map2, Slot(k, i, c), k, v)
    BY <1>4 DEF CopyEntry
  <2> DEFINE new == Slot(k, i, c)
  <2> HIDE DEF k, v
  <2>3. /\ Distinct(map2') /\ NoTombstones(map2') /\ new \in 0 .. c - 1
        /\ map2'.capacity = c /\ map2'.buckets[new] = [key |-> k, val |-> v]
        /\ map2.buckets[new].key \in {k, NULL}
        /\ \A r \in 0 .. c - 1 : r # new => map2'.buckets[r] = map2.buckets[r]
    BY <1>1, <2>1, <2>2, StoreAtDistinct
  <2> HIDE DEF new
  <2>4. CopiedBelow'
    <3> SUFFICES ASSUME NEW s \in (0 .. idx - 1) \cup {idx}, HasKey(map, s)
                 PROVE  \E r \in 0 .. c - 1 : map2'.buckets[r].key = map.buckets[s].key
      BY <1>1, <1>2, <2>3 DEF CopiedBelow
    <3>1. CASE s = idx
      BY <2>1, <2>3, <3>1
    <3>2. CASE s \in 0 .. idx - 1
      <4>1. PICK r \in 0 .. c - 1 : map2.buckets[r].key = map.buckets[s].key
        BY <1>1, <3>2 DEF CopiedBelow
      <4>2. CASE r = new
        <5>1. map.buckets[s].key # NULL
          BY DEF HasKey, Sentinels
        <5>2. map.buckets[s].key = k
          BY <2>3, <4>1, <4>2, <5>1
        <5> QED BY <2>3, <5>2
      <4>3. CASE r # new
        BY <2>3, <4>1, <4>3
      <4> QED BY <4>2, <4>3
    <3> QED BY <3>1, <3>2
  <2>5. FromBelow'
    <3> SUFFICES ASSUME NEW r \in 0 .. c - 1, HasKey(map2', r)
                 PROVE  \E s \in (0 .. idx - 1) \cup {idx} :
                           HasKey(map, s) /\ map2'.buckets[r] = map.buckets[s]
      BY <1>1, <1>2, <2>3 DEF FromBelow
    <3>1. CASE r = new
      BY <1>4, <2>1, <2>3, <3>1
    <3>2. CASE r # new
      <4>1. HasKey(map2, r) /\ map2'.buckets[r] = map2.buckets[r]
        BY <2>3, <3>2 DEF HasKey
      <4> QED BY <1>1, <4>1 DEF FromBelow
    <3> QED BY <3>1, <3>2
  <2> QED BY <2>3, <2>4, <2>5
<1> QED BY <1>3, <1>4 DEF CopyEntry

\* Every step of the hash table preserves the invariant of the copy loop, deletes
\* included.
LEMMA NextJInv ==
  ASSUME JInv, [Next]_vars
  PROVE  JInv'
<1>1. IInv' /\ IInv /\ TypeOK
  BY NextIInv DEF JInv, IInv
<1>2. CASE \E k \in Keys, v \in Vals : Call(k, v)
  <2>1. PICK k \in Keys, v \in Vals : Call(k, v)
    BY <1>2
  <2>2. pc = "idle" /\ idx = 0 /\ idx' = 0 /\ map.capacity \in Nat
    BY <1>1, <2>1 DEF Call, IInv, TypeOK, TableTypeOK
  <2>3. \/ pc' = "insert"
        \/ pc' = "grow" /\ map2' = EmptyTable(map.capacity)
    BY <2>1 DEF Call
  <2>4. RehashInv'
    BY <2>2, <2>3, BeginsEmpty DEF RehashInv
  <2> QED BY <1>1, <2>3, <2>4 DEF JInv, IdleInv
<1>3. CASE \E k \in Deletable : Delete(k)
  BY <1>1, <1>3 DEF JInv, Delete, RehashInv, IdleInv
<1>4. CASE Insert
  BY <1>1, <1>4 DEF JInv, Insert, RehashInv, IdleInv
<1>5. CASE Double
  <2>1. 2 * map2.capacity \in Nat /\ idx' = 0 /\ map2' = EmptyTable(2 * map2.capacity)
    BY <1>1, <1>5 DEF Double, IInv, TypeOK, TableTypeOK
  <2>2. RehashInv'
    BY <2>1, BeginsEmpty DEF RehashInv
  <2> QED BY <1>1, <1>5, <2>2 DEF JInv, Double, IdleInv
<1>6. CASE Sized
  BY <1>1, <1>6 DEF JInv, Sized, RehashInv, IdleInv, CopiedBelow, FromBelow
<1>7. CASE CopyEntry
  BY <1>1, <1>7, CopyEntryRehashInv DEF JInv, CopyEntry, RehashInv, IdleInv
<1>8. CASE Swap
  BY <1>1, <1>8 DEF JInv, Swap, RehashInv, IdleInv
<1>9. CASE AssertFails
  BY <1>1, <1>9 DEF JInv, AssertFails, RehashInv, IdleInv
<1>10. CASE UNCHANGED vars
  BY <1>1, <1>10 DEF JInv, vars, RehashInv, IdleInv, CopiedBelow, FromBelow
<1> QED BY <1>2, <1>3, <1>4, <1>5, <1>6, <1>7, <1>8, <1>9, <1>10 DEF Next, Rehash

\* As long as nothing is deleted the table stays clean.
LEMMA MCNextClean ==
  ASSUME JInv, Clean, [MCNext]_mcvars
  PROVE  Clean'
<1> SUFFICES ASSUME ~deletes', [MCNext]_mcvars
             PROVE  (Distinct(map) /\ NoTombstones(map) /\ RehashAssert)'
  BY DEF Clean
<1>1. /\ ~deletes /\ Distinct(map) /\ NoTombstones(map) /\ RehashAssert
      /\ TypeOK /\ TableOK(map)
  BY DEF MCNext, mcvars, Clean, JInv, IInv, RoomyTable
<1>2. CASE \E k \in Keys, v \in Vals : Call(k, v)
  <2>1. INIT_SIZE \in Nat
    BY SizeAssumption
  <2>2. map' = map \/ map' = EmptyTable(INIT_SIZE)
    BY <1>2 DEF Call
  <2> QED BY <1>1, <1>2, <2>1, <2>2, EmptyTableClean DEF RehashAssert, Call
<1>3. CASE \E k \in Deletable : Delete(k)
  <2>1. CASE MCNext
    BY <1>1, <1>3, <2>1 DEF MCNext, Deleting
  <2>2. CASE UNCHANGED mcvars
    BY <1>1, <2>2 DEF mcvars, vars, RehashAssert
  <2> QED BY <2>1, <2>2
<1>4. CASE Insert
  <2>1. op.key \in Keys /\ op.val \in Vals
    BY <1>1, <1>4 DEF TypeOK, Insert
  <2>2. PICK i \in 0 .. map.capacity - 1 :
          /\ StopsAt(map, op.key, InsertStops(op.key), i)
          /\ map' = StoreAt(map, Slot(op.key, i, map.capacity), op.key, op.val)
    BY <1>4 DEF Insert
  <2> QED BY <1>1, <1>4, <2>1, <2>2, StoreAtDistinct DEF RehashAssert, Insert
<1>5. CASE Double \/ Sized \/ CopyEntry
  BY <1>1, <1>5 DEF Double, Sized, CopyEntry, RehashAssert
<1>6. CASE Swap
  BY <1>1, <1>6 DEF Swap, RehashAssert, JInv, RehashInv
<1>7. CASE AssertFails
  BY <1>1, <1>7, AssertMeansDistinct DEF AssertFails
<1>8. CASE UNCHANGED vars
  BY <1>1, <1>8 DEF vars, RehashAssert
<1> QED
  BY <1>2, <1>3, <1>4, <1>5, <1>6, <1>7, <1>8 DEF MCNext, mcvars, Next, Rehash

-----------------------------------------------------------------------------
(* What a step does to the dictionary *)

\* The steps of a put change nothing until its store, and that is the put.
LEMMA StepContents ==
  ASSUME JInv
  PROVE  /\ \A k \in Keys, v \in Vals : Call(k, v) => Contents' = Contents
         /\ Insert => Contents' = [Contents EXCEPT ![op.key] = op.val]
         /\ Rehash => Contents' = Contents
<1>1. TypeOK /\ TableOK(map) /\ TableTypeOK(map)
  BY DEF JInv, IInv, TypeOK, RoomyTable
<1>2. ASSUME map' = map PROVE Contents' = Contents
  BY <1>2 DEF Contents
<1>3. ASSUME NEW k \in Keys, NEW v \in Vals, Call(k, v) PROVE Contents' = Contents
  <2>1. CASE map.capacity = 0 /\ map' = EmptyTable(INIT_SIZE)
    <3>1. ASSUME NEW o \in Keys PROVE Lookup(map', o) = Lookup(map, o)
      <4>1. Lookup(map', o) = Absent
        BY <2>1, EmptyTableClean, SizeAssumption
      <4>2. 0 .. map.capacity - 1 = {}
        BY <2>1
      <4> QED BY <1>1, <4>1, <4>2, ReadsNothing
    <3> QED BY <3>1 DEF Contents
  <2> QED BY <1>2, <1>3, <2>1 DEF Call
<1>4. ASSUME Insert PROVE Contents' = [Contents EXCEPT ![op.key] = op.val]
  <2>1. op.key \in Keys /\ op.val \in Vals
    BY <1>1, <1>4 DEF TypeOK, Insert
  <2>2. PICK i \in 0 .. map.capacity - 1 :
          /\ StopsAt(map, op.key, InsertStops(op.key), i)
          /\ map' = StoreAt(map, Slot(op.key, i, map.capacity), op.key, op.val)
    BY <1>4 DEF Insert
  <2>3. /\ Lookup(map', op.key) = op.val
        /\ \A o \in Keys \ {op.key} : Lookup(map', o) = Lookup(map, o)
    BY <1>1, <2>1, <2>2, StoreAtReads
  <2> QED BY <2>1, <2>3 DEF Contents
<1>5. ASSUME Swap PROVE Contents' = Contents
  <2>1. \A k \in Keys : Lookup(map', k) = Lookup(map, k)
    BY <1>5, SwapReads DEF Swap
  <2> QED BY <2>1 DEF Contents
<1>6. Double \/ Sized \/ CopyEntry \/ AssertFails => Contents' = Contents
  BY <1>2 DEF Double, Sized, CopyEntry, AssertFails
<1> QED BY <1>3, <1>4, <1>5, <1>6 DEF Rehash

\* A delete changes what its own key reads.
LEMMA DeleteContents ==
  ASSUME JInv, NEW k \in Keys, Delete(k), NEW o \in Keys \ {k}
  PROVE  Contents'[o] = Contents[o]
<1>1. TableOK(map) /\ map.capacity \in Nat
  BY DEF JInv, IInv, RoomyTable, TypeOK, TableTypeOK
<1>2. PICK i \in 0 .. map.capacity - 1 :
        /\ map.buckets[Slot(k, i, map.capacity)].key = k
        /\ map' = Bury(map, Slot(k, i, map.capacity))
  BY DEF Delete
<1>3. Slot(k, i, map.capacity) \in 0 .. map.capacity - 1
  <2>1. map.capacity \in Nat \ {0} /\ i \in Nat
    BY <1>1
  <2> QED BY <2>1, SlotInRange
<1>4. Lookup(map', o) = Lookup(map, o)
  BY <1>1, <1>2, <1>3, BuryReads
<1> QED BY <1>4 DEF Contents

-----------------------------------------------------------------------------
(* The results *)

\* JInv is an invariant.
THEOREM HashMapJInvariant == Spec => []JInv
<1>1. Init => JInv
  BY InitJInv
<1>2. JInv /\ [Next]_vars => JInv'
  BY NextJInv
<1> QED BY <1>1, <1>2, PTL DEF Spec

Effects ==
  /\ pc = "insert" => Contents' = [Contents EXCEPT ![op.key] = op.val]
  /\ pc = "idle" => \E k \in Keys : \A o \in Keys \ {k} : Contents'[o] = Contents[o]
  /\ pc \in {"grow", "copy"} => Contents' = Contents

\* With any tombstones and duplicates that deletes have left, a put makes its own
\* key read the new value, a delete changes what its own key reads only, and a
\* rehash that does not end in its assertion changes what no key reads.
THEOREM HashMapOpEffects == Spec => OpEffects
<1>1. JInv /\ [Next]_vars => [Effects]_vars
  <2> SUFFICES ASSUME JInv, Next PROVE Effects
    OBVIOUS
  <2>1. CASE \E k \in Keys, v \in Vals : Call(k, v)
    BY <2>1, StepContents DEF Effects, Call
  <2>2. CASE \E k \in Deletable : Delete(k)
    BY <2>2, DeleteContents, DeletableAssumption DEF Effects, Delete
  <2>3. CASE Insert
    BY <2>3, StepContents DEF Effects, Insert
  <2>4. CASE Rehash
    <3>1. pc \in {"grow", "copy"}
      BY <2>4 DEF Rehash, Double, Sized, CopyEntry, Swap, AssertFails
    <3> QED BY <2>4, <3>1, StepContents DEF Effects
  <2> QED BY <2>1, <2>2, <2>3, <2>4 DEF Next
<1> QED BY <1>1, HashMapJInvariant, PTL DEF Spec, OpEffects, Effects

\* A table nothing is deleted from has no tombstones and no key twice.
THEOREM HashMapClean == MCSpec => [](JInv /\ Clean)
<1>1. MCInit => JInv /\ Clean
  <2> SUFFICES ASSUME MCInit PROVE JInv /\ Clean
    OBVIOUS
  <2>1. Init
    BY DEF MCInit
  <2>2. Distinct(map) /\ NoTombstones(map) /\ RehashAssert
    BY <2>1, EmptyTableClean DEF Init, RehashAssert
  <2> QED BY <2>1, <2>2, InitJInv DEF Clean
<1>2. JInv /\ Clean /\ [MCNext]_mcvars => (JInv /\ Clean)'
  <2>1. [MCNext]_mcvars => [Next]_vars
    BY DEF MCNext, mcvars
  <2> QED BY <2>1, NextJInv, MCNextClean
<1> QED BY <1>1, <1>2, PTL DEF MCSpec

\* Where nothing is deleted no key is in two buckets, and the assertion of rehash()
\* holds.
THEOREM HashMapSound == MCSpec => []SoundWithoutDelete
<1>1. JInv /\ Clean => SoundWithoutDelete
  <2> SUFFICES ASSUME JInv, Clean, ~deletes PROVE NoDuplicates
    BY DEF SoundWithoutDelete, Clean
  <2>1. TableTypeOK(map) /\ DOMAIN map.buckets = 0 .. map.capacity - 1
    BY DEF JInv, IInv, TypeOK, TableTypeOK
  <2> QED BY <2>1, KeyOf DEF NoDuplicates, Clean, Distinct
<1> QED BY <1>1, HashMapClean, PTL

DictStep == ~deletes => [Symbols!Next]_<<Contents, op>>

\* Where nothing is deleted the hash table is the dictionary of SymbolTable: the
\* store of a put is its step Put, the call its step Begin, a rehash stutters.
THEOREM HashMapIsDictionary == MCSpec => ImplementsSymbolTable
<1>1. MCInit => Symbols!Init
  <2> SUFFICES ASSUME MCInit PROVE Symbols!Init
    OBVIOUS
  <2>1. map = EmptyTable(0) /\ op = NoOp
    BY DEF MCInit, Init
  <2>2. \A k \in Keys : Lookup(map, k) = Absent
    BY <2>1, EmptyTableClean
  <2> QED BY <2>1, <2>2 DEF Symbols!Init, Contents
<1>2. JInv /\ [MCNext]_mcvars => [DictStep]_mcvars
  <2> SUFFICES ASSUME JInv, MCNext, ~deletes PROVE [Symbols!Next]_<<Contents, op>>
    BY DEF DictStep
  <2>1. TypeOK /\ IdleInv
    BY DEF JInv, IInv
  <2>2. CASE \E k \in Keys, v \in Vals : Call(k, v)
    <3>1. PICK k \in Keys, v \in Vals : Call(k, v)
      BY <2>2
    <3>2. Contents' = Contents
      BY <3>1, StepContents
    <3>3. op = NoOp /\ op' = [key |-> k, val |-> v]
      BY <2>1, <3>1 DEF Call, IdleInv
    <3> QED BY <3>2, <3>3 DEF Symbols!Next, Symbols!Begin
  <2>3. CASE \E k \in Deletable : Delete(k)
    BY <2>3 DEF MCNext, Deleting
  <2>4. CASE Insert
    <3>1. op.key \in Keys /\ op' = NoOp
      BY <2>1, <2>4 DEF Insert, TypeOK
    <3>2. op # NoOp
      BY <3>1, SentinelAssumption DEF NoOp
    <3> QED BY <2>4, <3>1, <3>2, StepContents DEF Symbols!Next, Symbols!Put
  <2>5. CASE Rehash
    <3>1. op' = op
      BY <2>5 DEF Rehash, Double, Sized, CopyEntry, Swap, AssertFails
    <3> QED BY <2>5, <3>1, StepContents
  <2> QED BY <2>2, <2>3, <2>4, <2>5 DEF MCNext, Next
<1> QED BY <1>1, <1>2, HashMapClean, PTL DEF MCSpec, ImplementsSymbolTable, DictStep
============================================================================
