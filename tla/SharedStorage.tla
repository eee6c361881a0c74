--------------------------- MODULE SharedStorage ---------------------------
(***************************************************************************)
(* A deployment with a shared backend, SQL or Redis, and the properties    *)
(* both owe to the rest of a2akit.                                         *)
(***************************************************************************)
EXTENDS SqlStorage, RedisStorage

VARIABLE backend   \* the storage the server was configured with

allVars == <<vars, backend>>

Backends == {"sql", "redis"}

SharedInit == Init /\ backend \in Backends

Sql(o) == backend = "sql" /\ SqlStep(o) /\ UNCHANGED backend
Redis(o) == backend = "redis" /\ RedisStep(o) /\ UNCHANGED backend
Expire(c, k) == backend = "redis" /\ ExpireKey(c, k) /\ UNCHANGED backend

SharedNext ==
  \/ \E o \in Calls : Sql(o) \/ Redis(o)
  \/ \E c \in Contexts, k \in Keys : Expire(c, k)

SharedSpec == SharedInit /\ [][SharedNext]_allVars

-----------------------------------------------------------------------------
\* The type invariant of both backends.
SharedTypeOK == TypeOK /\ backend \in Backends

\* update_task reads, merges in Python and writes back, yet every step of
\* either backend is an atomic merge on the current row, an insert of a fresh
\* id, a removal, or invisible: no update is lost and nothing leaves a
\* terminal state, whatever the other callers do in between.
ImplementsVersionedStore == StoreSpec

Applied(o) == {i \in DOMAIN rows[target[o]].log : rows[target[o]].log[i] = o}

\* An update that returned a version is in the row exactly once as long as
\* the row exists, over all its attempts; one that raised ConcurrencyError,
\* TaskTerminalStateError or TaskNotFoundError has left no trace.
AppliedOnce ==
  \A o \in Calls :
    arg[o].kind \in Updates =>
      /\ out[o] = "ok" /\ Live(target[o]) => Cardinality(Applied(o)) = 1
      /\ out[o] # "ok" => Applied(o) = {}

\* A retried message creates no second task: at most one task carries an
\* idempotency key in its context.  With Redis the TTL of the key may have run
\* out before, or of two racing deletes of an older task the slower one took
\* the younger task's key with it.
OneTaskPerKey ==
  \A t, u \in Tasks :
    /\ Live(t) /\ Live(u)
    /\ rows[t].ctx = rows[u].ctx /\ rows[t].key = rows[u].key
    /\ rows[t].key # Nil /\ <<rows[t].ctx, rows[t].key>> \notin forgotten
    => t = u

\* A set idempotency key leads to a task that exists and carries it, so that
\* a retry can be answered; no interleaving of creates and deletes leaves a
\* key behind that makes every retry fail.
KeyLeadsToTask ==
  \A ck \in DOMAIN idem :
    idem[ck] # Nil =>
      Live(idem[ck]) /\ <<rows[idem[ck]].ctx, rows[idem[ck]].key>> = ck

\* Redis: list_tasks by context finds every task of the context, except one
\* that was created while a delete_context that had listed the others without
\* it went on to drop the whole index.
HiddenOnlyByContextDelete ==
  backend = "redis" =>
    \A t \in Tasks :
      Live(t) /\ t \notin index[rows[t].ctx] =>
        \E o \in Calls : /\ arg[o].kind = "delete_context" /\ out[o] = "ok"
                         /\ arg[o].ctx = rows[t].ctx /\ t \notin listed[o]

\* update_context returns without having written only when the context was
\* deleted under it; two first writers of one context never cost the data of
\* either without such a delete.
ContextLostOnlyByDelete ==
  \A o \in Calls :
    arg[o].kind = "context" /\ out[o] = "not_found" =>
      \E d \in Calls : arg[d].kind = "delete_context" /\ out[d] = "ok"
=============================================================================
