------------------------------ MODULE MC_SNZI ------------------------------
(***************************************************************************)
(* Model-checking instances of SNZI.  Each .cfg file gives the constants  *)
(* of one instance: the class, the tree shape and the client bounds.       *)
(* No symmetry is declared: threads are bound to leaves by their ids.      *)
(***************************************************************************)
EXTENDS SNZI

=============================================================================
