----------------------------- MODULE MCCowTls -----------------------------
(***************************************************************************)
(* Instances of CowTls for TLC.  Threads are interchangeable.  No action   *)
(* reads last, so states that differ only in it have the same successors   *)
(* and one of them is enough; TLC still compares every step, its new last  *)
(* included, with the abstract specification.                              *)
(***************************************************************************)
EXTENDS CowTls, TLC

Interchangeable == Permutations(Threads)

WithoutLast == <<initialize, tableVars, pageVars, alive, corrupt>>
=============================================================================
