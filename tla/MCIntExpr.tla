------------------------------ MODULE MCIntExpr ------------------------------
(* Integers of two, three and four bits.                                     *)
EXTENDS IntExpr, TLC

MCBits == [t \in AllTypes |-> CASE t \in {"bool", "char", "uchar"} -> 2
                                [] t \in {"int", "uint"}   -> 3
                                [] OTHER                   -> 4]
===============================================================================
