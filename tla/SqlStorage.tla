----------------------------- MODULE SqlStorage -----------------------------
(***************************************************************************)
(* SQLStorageBase with its SQLite and PostgreSQL subclasses.  A SELECT and *)
(* the UPDATE that follows it see two moments of the database (READ        *)
(* COMMITTED in PostgreSQL; the sqlite3 driver opens no transaction for a  *)
(* SELECT), so each statement is a step; the guarded UPDATE itself, the    *)
(* INSERT under the unique index and the deletes are atomic.               *)
(***************************************************************************)
EXTENDS StorageCalls

\* SELECT of the row and the checks on it: existence, the expected version,
\* then the terminal guard.
SelectRow(o) ==
  /\ pc[o] = "read"
  /\ Remember(o)
  /\ LET row == rows[target[o]]
     IN \/ /\ ~Live(target[o])
           /\ Return(o, "not_found")
        \/ /\ Live(target[o])
           /\ arg[o].kind = "pinned" /\ row.version # expected[o]
           /\ Return(o, "conflict")
        \/ /\ Live(target[o])
           /\ arg[o].kind = "blind" \/ row.version = expected[o]
           /\ Guarded(row, arg[o].state)
           /\ Return(o, "terminal")
        \/ /\ Live(target[o])
           /\ arg[o].kind = "blind" \/ row.version = expected[o]
           /\ ~Guarded(row, arg[o].state)
           /\ Goto(o, "write")
           /\ UNCHANGED out
  /\ UNCHANGED <<storeVars, arg, target, listed, todo, expected, tries,
                 ctxData, redisVars>>

\* Mutant: UPDATE without the version in its WHERE clause.
UpdateGuarded_NoVersion(o) ==
  /\ pc[o] = "write"
  /\ WriteBack(o)
  /\ Return(o, "ok")
  /\ UNCHANGED <<arg, target, listed, todo, updateVars, ctxData, redisVars>>

\* UPDATE ... WHERE id = :id AND version = :read_version, by its rowcount.
UpdateGuarded(o) ==
  /\ pc[o] = "write"
  /\ \/ /\ rows[target[o]].version = got[o].version
        /\ WriteBack(o)
        /\ Return(o, "ok")
        /\ UNCHANGED tries
     \/ /\ rows[target[o]].version # got[o].version
        /\ LoseRace(o)
  /\ UNCHANGED <<arg, target, listed, todo, expected, got, ctxData, redisVars>>

\* The rows with the idempotency key of call o in its context.
SameKey(o) ==
  {t \in Tasks : Live(t) /\ rows[t].ctx = arg[o].ctx /\ rows[t].key = arg[o].key}

\* Mutant: the partial unique index is missing.
InsertIdempotent_NoIndex(o) ==
  /\ pc[o] = "insert"
  /\ arg[o].key # Nil
  /\ Goto(o, "fetch")
  /\ Insert(target[o], arg[o].ctx, arg[o].key)
  /\ UNCHANGED <<arg, target, listed, todo, out, updateVars, ctxData, redisVars>>

\* INSERT OR IGNORE / ON CONFLICT DO NOTHING under the unique index on
\* (context_id, idempotency_key).
InsertIdempotent(o) ==
  /\ pc[o] = "insert"
  /\ arg[o].key # Nil
  /\ Goto(o, "fetch")
  /\ IF SameKey(o) = {} THEN Insert(target[o], arg[o].ctx, arg[o].key)
                        ELSE UNCHANGED storeVars
  /\ UNCHANGED <<arg, target, listed, todo, out, updateVars, ctxData, redisVars>>

\* The SELECT that follows: our own row (or no row at all) goes on to
\* load_task, somebody else's is returned as it is.
FetchBack(o) ==
  /\ pc[o] = "fetch"
  /\ \/ /\ SameKey(o) \subseteq {target[o]}
        /\ Goto(o, "load")
        /\ UNCHANGED <<target, out>>
     \/ \E t \in SameKey(o) \ {target[o]} :
          /\ target' = [target EXCEPT ![o] = t]
          /\ Return(o, "ok")
  /\ UNCHANGED <<storeVars, arg, listed, todo, updateVars, ctxData, redisVars>>

\* create_task without a key.
InsertPlain(o) ==
  /\ pc[o] = "insert"
  /\ arg[o].key = Nil
  /\ Insert(target[o], arg[o].ctx, Nil)
  /\ Goto(o, "load")
  /\ UNCHANGED <<arg, target, listed, todo, out, updateVars, ctxData, redisVars>>

\* delete_task.
DeleteRow(o) ==
  /\ pc[o] = "hint"
  /\ Remove({target[o]})
  /\ Return(o, IF Live(target[o]) THEN "ok" ELSE "not_found")
  /\ UNCHANGED <<arg, target, listed, todo, updateVars, ctxData, redisVars>>

\* delete_context: the tasks and the context data go in one transaction.
DeleteContext(o) ==
  /\ pc[o] = "list"
  /\ Remove({t \in Tasks : Live(t) /\ rows[t].ctx = arg[o].ctx})
  /\ ctxData' = [ctxData EXCEPT ![arg[o].ctx] = Nil]
  /\ Return(o, "ok")
  /\ UNCHANGED <<arg, target, listed, todo, updateVars, redisVars>>

HasData(o) == ctxData[arg[o].ctx] # Nil

StoreData(o) == ctxData' = [ctxData EXCEPT ![arg[o].ctx] = o]

\* update_context: UPDATE first ...
UpdateContext(o) ==
  /\ pc[o] = "ctx_update"
  /\ \/ HasData(o) /\ StoreData(o) /\ Return(o, "ok")
     \/ ~HasData(o) /\ Goto(o, "ctx_insert") /\ UNCHANGED <<ctxData, out>>
  /\ UNCHANGED <<storeVars, arg, target, listed, todo, updateVars, redisVars>>

\* Mutant: the IntegrityError is swallowed.
InsertContext_Swallowed(o) ==
  /\ pc[o] = "ctx_insert"
  /\ IF HasData(o) THEN UNCHANGED ctxData ELSE StoreData(o)
  /\ Return(o, IF HasData(o) THEN "not_found" ELSE "ok")
  /\ UNCHANGED <<storeVars, arg, target, listed, todo, updateVars, redisVars>>

\* ... then INSERT, which an IntegrityError turns into ...
InsertContext(o) ==
  /\ pc[o] = "ctx_insert"
  /\ \/ ~HasData(o) /\ StoreData(o) /\ Return(o, "ok")
     \/ HasData(o) /\ Goto(o, "ctx_retry") /\ UNCHANGED <<ctxData, out>>
  /\ UNCHANGED <<storeVars, arg, target, listed, todo, updateVars, redisVars>>

\* ... one more UPDATE.  When the row is gone again nothing is written and
\* nobody is told; the outcome "not_found" records it.
RetryContext(o) ==
  /\ pc[o] = "ctx_retry"
  /\ IF HasData(o) THEN StoreData(o) ELSE UNCHANGED ctxData
  /\ Return(o, IF HasData(o) THEN "ok" ELSE "not_found")
  /\ UNCHANGED <<storeVars, arg, target, listed, todo, updateVars, redisVars>>

SqlStep(o) ==
  \/ Call(o) \/ GetVersion(o) \/ SelectRow(o) \/ UpdateGuarded(o)
  \/ InsertIdempotent(o) \/ FetchBack(o) \/ InsertPlain(o) \/ LoadCreated(o)
  \/ DeleteRow(o) \/ DeleteContext(o)
  \/ UpdateContext(o) \/ InsertContext(o) \/ RetryContext(o)
=============================================================================
