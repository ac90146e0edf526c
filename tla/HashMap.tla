------------------------------ MODULE HashMap ------------------------------
(***************************************************************************)
(* The open-addressing hash table of hashmap.c, with its linear probing,   *)
(* its tombstones and its rehash.  One step is one call of get_entry's     *)
(* callers, one iteration of a loop of rehash(), or the probe-and-store    *)
(* of hashmap_put2(); the program is sequential, so the split into steps   *)
(* is only visible to the invariants, which hold inside rehash() as well.  *)
(***************************************************************************)
EXTENDS Integers, FiniteSets

CONSTANTS Keys, Vals,
          Hash,             \* fnv_hash: [Keys -> Nat]
          INIT_SIZE, HIGH_WATERMARK, LOW_WATERMARK,
          Deletable,        \* keys a caller passes to hashmap_delete2
          NULL, TOMBSTONE,  \* the two values of ent->key that are no key
          Absent            \* the NULL hashmap_get2 returns

ASSUME HashAssumption == Hash \in [Keys -> Nat]
ASSUME SentinelAssumption == /\ NULL \notin Keys
                             /\ TOMBSTONE \notin Keys
                             /\ NULL # TOMBSTONE
                             /\ Absent \notin Vals
\* One slot stays free below the high watermark: 16 * (100 - 70) > 100.
ASSUME SizeAssumption == /\ INIT_SIZE \in Nat
                         /\ LOW_WATERMARK \in 1..HIGH_WATERMARK
                         /\ HIGH_WATERMARK \in 1..100
                         /\ INIT_SIZE * (100 - HIGH_WATERMARK) > 100
ASSUME DeletableAssumption == Deletable \subseteq Keys

VARIABLES map,   \* the struct HashMap the callers hold
          pc,    \* where hashmap_put2 is: "idle" when no call is running
          op,    \* its arguments key and val
          map2,  \* rehash()'s new table
          idx    \* rehash()'s loop counter i

vars == <<map, pc, op, map2, idx>>

-----------------------------------------------------------------------------
(* Tables *)

Sentinels == {NULL, TOMBSTONE}

Entry == [key : Keys \cup Sentinels, val : Vals \cup {Absent}]

EmptyTable(cap) ==
  [buckets  |-> [s \in 0 .. cap - 1 |-> [key |-> NULL, val |-> Absent]],
   capacity |-> cap,
   used     |-> 0]

NoOp == [key |-> NULL, val |-> Absent]

\* The i-th bucket the probe for k looks at.
Slot(k, i, cap) == (Hash[k] + i) % cap

\* The probe for k meets its first bucket whose key is in stop at distance i.
StopsAt(t, k, stop, i) ==
  /\ t.buckets[Slot(k, i, t.capacity)].key \in stop
  /\ \A j \in 0 .. i - 1 : t.buckets[Slot(k, j, t.capacity)].key \notin stop

\* Faulty get_entry: a tombstone ends the probe.
FindStopsAtTombstone(k) == {k, NULL, TOMBSTONE}

\* match() and the NULL test of get_entry.
FindStops(k) == {k, NULL}
\* Faulty get_or_insert_entry: match() is not tried.
InsertStopsUnmatched(k) == {NULL, TOMBSTONE}

\* get_or_insert_entry also takes the first tombstone it meets.
InsertStops(k) == {k, NULL, TOMBSTONE}

\* Faulty: the value of a key that is present is not replaced.
StoreAtOnce(t, s, k, v) ==
  [buckets  |-> IF t.buckets[s].key = k THEN t.buckets
                ELSE [t.buckets EXCEPT ![s] = [key |-> k, val |-> v]],
   capacity |-> t.capacity,
   used     |-> IF t.buckets[s].key = NULL THEN t.used + 1 ELSE t.used]

\* Faulty: a tombstone that is taken over is counted again.
StoreAtRecounted(t, s, k, v) ==
  [buckets  |-> [t.buckets EXCEPT ![s] = [key |-> k, val |-> v]],
   capacity |-> t.capacity,
   used     |-> IF t.buckets[s].key = k THEN t.used ELSE t.used + 1]

\* Claim the entry at slot s for k and set its value.
StoreAt(t, s, k, v) ==
  [buckets  |-> [t.buckets EXCEPT ![s] = [key |-> k, val |-> v]],
   capacity |-> t.capacity,
   used     |-> IF t.buckets[s].key = NULL THEN t.used + 1 ELSE t.used]

\* Faulty: the bucket of a deleted key is emptied.
BuryAsNull(t, s) ==
  [buckets  |-> [t.buckets EXCEPT ![s].key = NULL],
   capacity |-> t.capacity,
   used     |-> t.used - 1]

\* Delete the entry at slot s: it keeps its value and still counts as used.
Bury(t, s) ==
  [buckets  |-> [t.buckets EXCEPT ![s].key = TOMBSTONE],
   capacity |-> t.capacity,
   used     |-> t.used]

HasKey(t, s) == t.buckets[s].key \notin Sentinels

LiveBelow(t, n) == {s \in 0 .. n - 1 : HasKey(t, s)}

NKeys(t) == Cardinality(LiveBelow(t, t.capacity))

\* Faulty: the watermark looks at the keys and forgets the tombstones.
LoadOfKeys(t) == (NKeys(t) * 100) \div t.capacity

Load(t) == (t.used * 100) \div t.capacity

\* hashmap_get2
Lookup(t, k) ==
  LET hits == {i \in 0 .. t.capacity - 1 : /\ StopsAt(t, k, FindStops(k), i)
                                           /\ t.buckets[Slot(k, i, t.capacity)].key = k}
  IN  IF hits = {} THEN Absent
      ELSE t.buckets[Slot(k, CHOOSE i \in hits : TRUE, t.capacity)].val

-----------------------------------------------------------------------------
(* Operations *)

Init == /\ map = EmptyTable(0)
        /\ pc = "idle"
        /\ op = NoOp
        /\ map2 = EmptyTable(0)
        /\ idx = 0

\* Entry of hashmap_put2: allocate the first table, or decide on a rehash.
Call(k, v) ==
  /\ pc = "idle"
  /\ op' = [key |-> k, val |-> v]
  /\ UNCHANGED idx
  /\ \/ /\ map.capacity = 0
        /\ map' = EmptyTable(INIT_SIZE)
        /\ pc' = "insert"
        /\ UNCHANGED map2
     \/ /\ map.capacity > 0
        /\ Load(map) < HIGH_WATERMARK
        /\ pc' = "insert"
        /\ UNCHANGED <<map, map2>>
     \/ /\ map.capacity > 0
        /\ Load(map) >= HIGH_WATERMARK
        /\ map2' = EmptyTable(map.capacity)
        /\ pc' = "grow"
        /\ UNCHANGED map

\* The probe of get_or_insert_entry and the store of hashmap_put2.
Insert ==
  /\ pc = "insert"
  /\ \E i \in 0 .. map.capacity - 1 :
       /\ StopsAt(map, op.key, InsertStops(op.key), i)
       /\ map' = StoreAt(map, Slot(op.key, i, map.capacity), op.key, op.val)
  /\ pc' = "idle"
  /\ op' = NoOp
  /\ UNCHANGED <<map2, idx>>

\* hashmap_delete2
Delete(k) ==
  /\ pc = "idle"
  /\ \E i \in 0 .. map.capacity - 1 :
       LET s == Slot(k, i, map.capacity)
       IN  /\ StopsAt(map, k, FindStops(k), i)
           /\ map.buckets[s].key = k
           /\ map' = Bury(map, s)
  /\ UNCHANGED <<pc, op, map2, idx>>

\* Faulty: the capacity is recomputed but not doubled.
DoubleByOne ==
  /\ pc = "grow"
  /\ (NKeys(map) * 100) \div map2.capacity >= LOW_WATERMARK
  /\ map2' = EmptyTable(1 * map2.capacity)
  /\ UNCHANGED <<map, pc, op, idx>>

\* rehash: the size of the new table.
Double ==
  /\ pc = "grow"
  /\ (NKeys(map) * 100) \div map2.capacity >= LOW_WATERMARK
  /\ map2' = EmptyTable(2 * map2.capacity)
  /\ UNCHANGED <<map, pc, op, idx>>

\* Faulty: the number of keys is compared with a percentage.
SizedUnscaled ==
  /\ pc = "grow"
  /\ NKeys(map) \div map2.capacity < LOW_WATERMARK
  /\ pc' = "copy"
  /\ UNCHANGED <<map, op, map2, idx>>

Sized ==
  /\ pc = "grow"
  /\ (NKeys(map) * 100) \div map2.capacity < LOW_WATERMARK
  /\ pc' = "copy"
  /\ UNCHANGED <<map, op, map2, idx>>

\* rehash: one iteration of the copy loop, hashmap_put2(&map2, ...).
CopyEntry ==
  /\ pc = "copy"
  /\ idx < map.capacity
  /\ idx' = idx + 1
  /\ \/ /\ ~ HasKey(map, idx)
        /\ UNCHANGED map2
     \/ /\ HasKey(map, idx)
        /\ LET ent == map.buckets[idx]
           IN  \E i \in 0 .. map2.capacity - 1 :
                 /\ StopsAt(map2, ent.key, InsertStops(ent.key), i)
                 /\ map2' = StoreAt(map2, Slot(ent.key, i, map2.capacity), ent.key, ent.val)
  /\ UNCHANGED <<map, pc, op>>

\* rehash: assert(map2.used == nkeys), then *map = map2.
Swap ==
  /\ pc = "copy"
  /\ idx = map.capacity
  /\ map2.used = NKeys(map)
  /\ map' = map2
  /\ map2' = EmptyTable(0)
  /\ pc' = "insert"
  /\ idx' = 0
  /\ UNCHANGED op

AssertFails ==
  /\ pc = "copy"
  /\ idx = map.capacity
  /\ map2.used # NKeys(map)
  /\ pc' = "aborted"
  /\ UNCHANGED <<map, op, map2, idx>>

Rehash == Double \/ Sized \/ CopyEntry \/ Swap \/ AssertFails

Next == \/ \E k \in Keys, v \in Vals : Call(k, v)
        \/ \E k \in Deletable : Delete(k)
        \/ Insert
        \/ Rehash

Spec == Init /\ [][Next]_vars

\* A put that was started is finished: the compiler runs on.
FairSpec == Spec /\ WF_vars(Insert \/ Rehash)

-----------------------------------------------------------------------------
(* Properties *)

TableTypeOK(t) == /\ t = [buckets |-> t.buckets, capacity |-> t.capacity, used |-> t.used]
                  /\ t.capacity \in Nat
                  /\ t.used \in Nat
                  /\ t.buckets \in [0 .. t.capacity - 1 -> Entry]

\* The variables keep their types: the tables are tables, a running put has
\* a key and a value, and the loop counter stays within the old table.
TypeOK == /\ TableTypeOK(map)
          /\ TableTypeOK(map2)
          /\ pc \in {"idle", "insert", "grow", "copy", "aborted"}
          /\ op \in Entry
          /\ pc # "idle" => op.key \in Keys /\ op.val \in Vals
          /\ idx \in 0 .. map.capacity

Occupied(t) == {s \in DOMAIN t.buckets : t.buckets[s].key # NULL}

\* The counter the watermark is computed from is the number of buckets that
\* are not NULL: hashmap_delete2 leaves it, reusing a tombstone leaves it,
\* and rehash() recounts it.
UsedIsOccupancy == /\ map.used = Cardinality(Occupied(map))
                   /\ map2.used = Cardinality(Occupied(map2))

\* No hole between a key and the bucket its probe starts at: a lookup that
\* stops at NULL has not missed the key behind it.
ProbeChain(t) ==
  \A k \in Keys, i \in 0 .. t.capacity - 1 :
    t.buckets[Slot(k, i, t.capacity)].key = k
      => \A j \in 0 .. i - 1 : t.buckets[Slot(k, j, t.capacity)].key # NULL

NoHoles == ProbeChain(map) /\ ProbeChain(map2)

\* The probe loops of get_entry and get_or_insert_entry return before they
\* fall through to unreachable(), in the caller's table and in the table a
\* rehash is filling, whatever key is looked for.
ProbesEnd ==
  \A t \in {map, map2}, k \in Keys :
    t.capacity > 0 => \E i \in 0 .. t.capacity - 1 :
                        t.buckets[Slot(k, i, t.capacity)].key = NULL

\* hashmap_put2(&map2, ...) inside rehash() never starts a rehash of map2.
NoNestedRehash == pc = "copy" => Load(map2) < HIGH_WATERMARK

\* No key occupies two buckets (what makes map2.used reach nkeys).
NoDuplicates ==
  \A s1, s2 \in DOMAIN map.buckets :
    HasKey(map, s1) /\ map.buckets[s1].key = map.buckets[s2].key => s1 = s2

\* hashmap.c:67, assert(map2.used == nkeys).
RehashAssert == pc # "aborted"

Contents == [k \in Keys |-> Lookup(map, k)]

\* Whatever tombstones the table holds, a put makes its own key read the new
\* value, a delete changes what its own key reads and nothing else, and no
\* step of a rehash changes what any key reads.
OpEffects ==
  [][ /\ pc = "insert" => Contents' = [Contents EXCEPT ![op.key] = op.val]
      /\ pc = "idle" => \E k \in Keys : \A o \in Keys \ {k} : Contents'[o] = Contents[o]
      /\ pc \in {"grow", "copy"} => Contents' = Contents ]_vars

\* The dictionary the hash table stands for: what its lookups return, and the
\* put that is under way.
Symbols == INSTANCE SymbolTable WITH dict <- Contents, put <- op

\* A put that was started comes to an end: the doubling loop and the copy loop
\* of rehash() do.
PutReturns == pc = "insert" \/ pc = "grow" ~> pc \in {"idle", "aborted"}
=============================================================================
