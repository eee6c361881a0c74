---------------------------- MODULE MCRedisBroker ----------------------------
(***************************************************************************)
(* Instances of RedisBroker for TLC.                                       *)
(***************************************************************************)
EXTENDS RedisBroker, TLC

Symmetry == Permutations(Consumers) \cup Permutations(Handles) \cup Permutations(Ids)
              \cup Permutations(Ops)
=============================================================================
