-------------------------- MODULE MCSharedStorage --------------------------
(***************************************************************************)
(* Instance of SharedStorage for TLC.                                      *)
(***************************************************************************)
EXTENDS SharedStorage, TLC

\* Calls and task ids are interchangeable.
Symmetry == Permutations(Calls) \cup Permutations(Tasks)
=============================================================================
