---------------------------- MODULE MCStatements ----------------------------
(* Small functions of statements of every kind, and larger ones of some.    *)
EXTENDS Statements, TLC

MCRanges == {<<1, 1>>, <<2, 3>>, <<3, 2>>}

NoMore == [k \in Kinds \cup {"all"} |-> 0]
Anything == [k \in Kinds |-> CASE k \in {"expr", "case", "block"} -> 2 [] OTHER -> 1] @@ ("all" :> 5)

\* A loop that begins or ends between the cases of a switch, and the reverse.
SwitchAndLoop ==
  {[NoMore EXCEPT !["all"] = 8, !["block"] = 2, !["switch"] = 1, !["case"] = 2, !["expr"] = 2,
                  ![loop] = 1, ![exit] = 1] : loop \in {"do", "for"}, exit \in {"break", "continue"}}
\* Loops in loops, left from the middle.
NestedLoops ==
  [NoMore EXCEPT !["all"] = 7, !["block"] = 2, !["while"] = 1, !["do"] = 1, !["if"] = 1,
                 !["expr"] = 1, !["break"] = 1, !["continue"] = 1]
\* Jumps into and out of loops.
Jumps ==
  [NoMore EXCEPT !["all"] = 7, !["block"] = 2, !["for"] = 1, !["if"] = 1, !["goto"] = 1, !["label"] = 1,
                 !["expr"] = 2, !["return"] = 1]

MCLimits == {Anything, NestedLoops, Jumps} \cup SwitchAndLoop
=============================================================================
