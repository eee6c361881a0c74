----------------------------- MODULE MCA2ATask -----------------------------
(***************************************************************************)
(* Instances of A2ATask for TLC.  r1 sends the first message, r2 retries   *)
(* it, r3 and r4 are follow-ups; each configuration picks the requests it  *)
(* needs.                                                                  *)
(***************************************************************************)
EXTENDS A2ATask, TLC

CONSTANTS r1, r2, r3, r4, m1, m2, m3

\* r3 and r4 are two attempts to send the same follow-up.
RetriedFollowUp == (r1 :> m1) @@ (r2 :> m1) @@ (r3 :> m2) @@ (r4 :> m2)
\* r3 and r4 are two different follow-ups.
RivalFollowUps == (r1 :> m1) @@ (r2 :> m1) @@ (r3 :> m2) @@ (r4 :> m3)

Of(f) == [r \in Requests |-> f[r]]
MCRetried == Of(RetriedFollowUp)
MCRival == Of(RivalFollowUps)

\* Runs are interchangeable, and so are the cancel calls.
Symmetry == Permutations(Runs) \cup Permutations(Cancels)
=============================================================================
