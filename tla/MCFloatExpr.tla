----------------------------- MODULE MCFloatExpr -----------------------------
(* Functions of up to seven operations, which may call one function of each  *)
(* kind.  One that is not plain has nothing more to show.                     *)
EXTENDS FloatExpr

MCCallees ==
  {[body |-> "leaf", param |-> "ldouble", result |-> "ldouble"],
   [body |-> "holds", param |-> "none", result |-> "ldouble"],
   [body |-> "library", param |-> "double", result |-> "int"]}
=============================================================================
