------------------------------ MODULE MCLinkage ------------------------------
(* Two functions that may be interchanged and one variable; the bound on    *)
(* objects ends every translation unit.                                     *)
EXTENDS Linkage, TLC

Interchangeable == Permutations(Funs)
=============================================================================
