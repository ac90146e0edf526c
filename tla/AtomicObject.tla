---------------------------- MODULE AtomicObject ----------------------------
(***************************************************************************)
(* What C promises of an object of atomic type: every call applies its     *)
(* whole effect in one step, once, and returns what that step gave it.     *)
(***************************************************************************)
EXTENDS AtomicCalls

VARIABLES mem,      \* the value of the object
          call,     \* the call each thread makes
          result    \* what it returned, or Pending

Act(t) ==
  /\ result[t] = Pending
  /\ mem' = Apply(call[t], mem).next
  /\ result' = [result EXCEPT ![t] = Apply(call[t], mem).result]
  /\ UNCHANGED call

Init == result = [t \in Threads |-> Pending]

Next == \E t \in Threads : Act(t)

Spec == Init /\ [][Next]_<<mem, call, result>>
=============================================================================
