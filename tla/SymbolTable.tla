---------------------------- MODULE SymbolTable ----------------------------
(***************************************************************************)
(* What the users of hashmap.c rely on: a dictionary from names to         *)
(* values.  The scopes, the macro table, the tag tables and the file       *)
(* caches of toycc are all written against this abstraction.               *)
(***************************************************************************)
CONSTANTS Keys, Vals,
          Deletable,    \* the names some caller may delete
          NoOp,         \* no put is under way
          Absent        \* what a lookup of an unknown name yields (NULL)

VARIABLES dict,
          put           \* the arguments of the put under way, or NoOp

Init == /\ dict = [k \in Keys |-> Absent]
        /\ put = NoOp

Begin(k, v) ==
  /\ put = NoOp
  /\ put' = [key |-> k, val |-> v]
  /\ UNCHANGED dict

Put ==
  /\ put # NoOp
  /\ dict' = [dict EXCEPT ![put.key] = put.val]
  /\ put' = NoOp

Delete(k) ==
  /\ put = NoOp
  /\ dict' = [dict EXCEPT ![k] = Absent]
  /\ UNCHANGED put

Next == \/ \E k \in Keys, v \in Vals : Begin(k, v)
        \/ Put
        \/ \E k \in Deletable : Delete(k)

Spec == Init /\ [][Next]_<<dict, put>>
=============================================================================
