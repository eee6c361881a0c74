------------------------------- MODULE Broker -------------------------------
(***************************************************************************)
(* The broker as a pool of pending run operations of one task, each with   *)
(* its attempt number (broker/memory.py).  Operations of one task differ   *)
(* only in their attempt here; the model may deliver them in any order,    *)
(* which covers several worker processes and delayed redelivery.           *)
(***************************************************************************)
EXTENDS Naturals

CONSTANT MaxRetries   \* WorkerAdapter max_retries

ASSUME MaxRetriesAssumption == MaxRetries \in Nat \ {0}

\* A nack at attempt MaxRetries is never sent; a redelivering backend can
\* still hand over an operation with a higher attempt.
Attempts == 1 .. (MaxRetries + 1)

VARIABLE queued   \* number of pending operations per attempt

BrokerTypeOK == queued \in [Attempts -> Nat]

BrokerInit == queued = [a \in Attempts |-> 0]

\* run_task: a first attempt is sent.
RunTask == queued' = [queued EXCEPT ![1] = @ + 1]

\* Mutant: a handle without an operation behind it.
Receive_Unchecked(a) == queued' = [queued EXCEPT ![a] = @ - 1]

\* receive_task_operations yields a handle.
Receive(a) ==
  /\ queued[a] > 0
  /\ queued' = [queued EXCEPT ![a] = @ - 1]

\* nack: re-enqueue with the attempt incremented.
Nack(a) == queued' = [queued EXCEPT ![a + 1] = @ + 1]
=============================================================================
