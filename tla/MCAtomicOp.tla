----------------------------- MODULE MCAtomicOp -----------------------------
(* Three threads on a word of three bits (-4 .. 3).    *)
EXTENDS AtomicOp

Add(n) == [op |-> "add", arg |-> n, expected |-> 0]

MCCalls == {Add(1), Add(-3),
            [op |-> "exchange", arg |-> 2, expected |-> 0],
            [op |-> "store", arg |-> 0, expected |-> 0],
            [op |-> "cas", arg |-> 3, expected |-> 0]}
=============================================================================
