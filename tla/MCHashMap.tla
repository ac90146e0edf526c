------------------------------ MODULE MCHashMap ------------------------------
(* Small hash tables: k1 and k2 share every home slot, k3 is their          *)
(* neighbour, so that the probes run around the end of the first table.     *)
(* A table is one from which nothing is ever deleted (a scope, a tag table, *)
(* a file cache) or the macro table, from which #undef deletes.             *)
EXTENDS HashMap

CONSTANTS k1, k2, k3

MCHash == [k \in Keys |-> CASE k \in {k1, k2} -> 2
                            [] k = k3 -> 3]

VARIABLE deletes    \* whether this is a table some caller deletes from

mcvars == <<vars, deletes>>

Deleting == \E k \in Deletable : Delete(k)

MCInit == Init /\ deletes \in BOOLEAN

MCNext == Next /\ (Deleting => deletes) /\ UNCHANGED deletes

MCSpec == MCInit /\ [][MCNext]_mcvars /\ WF_vars(Insert \/ Rehash)

-----------------------------------------------------------------------------
\* hashmap.c:61: as long as nothing is deleted no key occupies two buckets,
\* and the assertion of rehash() holds.
SoundWithoutDelete == ~deletes => NoDuplicates /\ RehashAssert

\* As long as nothing is deleted the hash table implements the dictionary:
\* its first contents and each of its steps are the dictionary's.
ImplementsSymbolTable ==
  Symbols!Init /\ [][~deletes => [Symbols!Next]_<<Contents, op>>]_mcvars
=============================================================================
