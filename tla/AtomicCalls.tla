---------------------------- MODULE AtomicCalls ----------------------------
(***************************************************************************)
(* The calls a thread makes on an object of atomic type, and what each     *)
(* does to the value: shared by the promise (AtomicObject) and by the code *)
(* toycc emits for it (AtomicOp).                                          *)
(***************************************************************************)
EXTENDS Integers

CONSTANTS Threads,
          HALF,   \* 2^31: a word holds WORD values, HALF of them negative
          Kind    \* type of the object: "int", "uint" (4 bytes) or "long" (8 bytes)

ASSUME HalfAssumption == HALF \in Nat \ {0}
ASSUME KindAssumption == Kind \in {"int", "uint", "long"}

WORD == 2 * HALF

Low(v) == v % WORD

Sext(u) == IF u >= HALF THEN u - WORD ELSE u

\* The C value v converted to the type of the object.
Narrow(v) == CASE Kind = "int"  -> Sext(Low(v))
               [] Kind = "uint" -> Low(v)
               [] Kind = "long" -> v

Call == [op : {"add", "exchange", "store", "cas"}, arg : Int, expected : Int]

\* The C semantics: the new value of the object and what the call returns.
Outcome(next, ok, val) == [next |-> next, result |-> <<ok, val>>]

Apply(c, v) ==
  CASE c.op = "add"      -> Outcome(Narrow(v + c.arg), "yes", Narrow(v + c.arg))
    [] c.op = "exchange" -> Outcome(Narrow(c.arg), "yes", v)
    [] c.op = "store"    -> Outcome(Narrow(c.arg), "yes", Narrow(c.arg))
    [] c.op = "cas"      -> IF v = Narrow(c.expected)
                            THEN Outcome(Narrow(c.arg), "yes", v)
                            ELSE Outcome(v, "no", v)

Pending == << >>
=============================================================================
