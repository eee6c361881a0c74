-------------------------- MODULE MCMemoryEventBus --------------------------
(***************************************************************************)
(* Instances of MemoryEventBus for TLC: one client that connects, reads,   *)
(* drops its connection and resumes, against two publishers.               *)
(***************************************************************************)
EXTENDS MemoryEventBus

\* Publishers are interchangeable.
Symmetry == Permutations(Publishers)
=============================================================================
