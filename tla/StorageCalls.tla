---------------------------- MODULE StorageCalls ----------------------------
(***************************************************************************)
(* The calls that coroutines of several server processes make to one       *)
(* shared storage backend, and the state both backends have in common.     *)
(* A call is made once; what it was asked to do stays in arg, so that the  *)
(* properties can speak about calls that have returned.                    *)
(***************************************************************************)
EXTENDS VersionedStore, FiniteSets

CONSTANTS MaxAttempts,  \* attempts of a blind update_task (8 in the code)
          Kinds         \* the kinds of calls that are made

AllKinds == {"blind", "pinned", "create", "delete", "delete_context", "context"}

ASSUME StorageAssumption ==
  /\ MaxAttempts \in Nat \ {0}
  /\ Kinds \subseteq AllKinds

\* What a call was asked: an update names the state to move to (or None) and
\* is blind or pinned to the version get_version returned.
Args == [kind : AllKinds \cup {None}, ctx : Contexts \cup {Nil},
         key : Keys \cup {Nil}, state : States \cup {None}]

Updates == {"blind", "pinned"}

Outcomes == {"pending", "ok", "not_found", "conflict", "terminal"}

VARIABLES
  pc,         \* where each call is; "idle" before it is made, "done" after
  arg,        \* its arguments
  target,     \* the task it is about
  expected,   \* the version a pinned update expects
  got,        \* the row it has read
  tries,      \* the attempts it has made
  listed,     \* delete_context: the tasks it has found ...
  todo,       \* ... and has still to delete
  out,        \* how it ended
  ctxData,    \* context id -> the call that wrote its data, or Nil
  index,      \* Redis: context id -> the set of its task ids
  idem,       \* Redis: idempotency key -> its task, or Nil
  forgotten   \* Redis: the idempotency keys that were lost while their task lived on

updateVars == <<expected, got, tries>>
callVars == <<pc, arg, target, listed, todo, out, updateVars>>
redisVars == <<index, idem, forgotten>>
vars == <<storeVars, callVars, ctxData, redisVars>>

Labels == {"idle", "get_version", "read", "write", "insert", "fetch", "load",
           "list", "hint", "remove", "drop_index", "ctx_update", "ctx_insert",
           "ctx_retry", "done"}

TypeOK ==
  /\ rows \in [Tasks -> Rows]
  /\ used \subseteq Tasks
  /\ pc \in [Calls -> Labels]
  /\ arg \in [Calls -> Args]
  /\ target \in [Calls -> Tasks \cup {Nil}]
  /\ expected \in [Calls -> Nat]
  /\ got \in [Calls -> Rows]
  /\ tries \in [Calls -> Nat]
  /\ listed \in [Calls -> SUBSET Tasks]
  /\ todo \in [Calls -> SUBSET Tasks]
  /\ out \in [Calls -> Outcomes]
  /\ ctxData \in [Contexts -> Calls \cup {Nil}]
  /\ index \in [Contexts -> SUBSET Tasks]
  /\ idem \in [Contexts \X Keys -> Tasks \cup {Nil}]
  /\ forgotten \subseteq (Contexts \X Keys)

Init ==
  /\ StoreInit
  /\ pc = [o \in Calls |-> "idle"]
  /\ arg = [o \in Calls |-> [kind |-> None, ctx |-> Nil, key |-> Nil,
                             state |-> None]]
  /\ target = [o \in Calls |-> Nil]
  /\ expected = [o \in Calls |-> 0]
  /\ got = [o \in Calls |-> AbsentRow]
  /\ tries = [o \in Calls |-> 0]
  /\ listed = [o \in Calls |-> {}]
  /\ todo = [o \in Calls |-> {}]
  /\ out = [o \in Calls |-> "pending"]
  /\ ctxData = [c \in Contexts |-> Nil]
  /\ index = [c \in Contexts |-> {}]
  /\ idem = [ck \in Contexts \X Keys |-> Nil]
  /\ forgotten = {}

-----------------------------------------------------------------------------
Goto(o, label) == pc' = [pc EXCEPT ![o] = label]

Return(o, outcome) ==
  /\ Goto(o, "done")
  /\ out' = [out EXCEPT ![o] = outcome]

\* A coroutine makes call o.
Begin(o, kind, c, k, st, t, label) ==
  /\ pc[o] = "idle"
  /\ kind \in Kinds
  /\ Goto(o, label)
  /\ arg' = [arg EXCEPT ![o] = [kind |-> kind, ctx |-> c, key |-> k,
                                state |-> st]]
  /\ target' = [target EXCEPT ![o] = t]
  /\ UNCHANGED <<storeVars, listed, todo, out, updateVars, ctxData, redisVars>>

\* update_task of a task whose id the caller knows: it was created once.
CallUpdate(o) ==
  \E t \in used, st \in {"working", "completed", None} :
    \/ Begin(o, "blind", Nil, Nil, st, t, "read")
    \/ Begin(o, "pinned", Nil, Nil, st, t, "get_version")

\* create_task: the backend draws a uuid that nobody has used; with an
\* idempotency key when the message has an id.
CallCreate(o) ==
  \E t \in Tasks \ (used \cup {target[p] : p \in Calls}),
     c \in Contexts, k \in Keys \cup {Nil} :
    Begin(o, "create", c, k, None, t, "insert")

CallDelete(o) ==
  \E t \in used : Begin(o, "delete", Nil, Nil, None, t, "hint")

CallDeleteContext(o) ==
  \E c \in Contexts : Begin(o, "delete_context", c, Nil, None, Nil, "list")

CallUpdateContext(o) ==
  \E c \in Contexts : Begin(o, "context", c, Nil, None, Nil, "ctx_update")

Call(o) ==
  \/ CallUpdate(o)
  \/ CallCreate(o)
  \/ CallDelete(o)
  \/ CallDeleteContext(o)
  \/ CallUpdateContext(o)

\* get_version of the caller, ahead of a pinned update.  A caller that finds
\* no row never makes the update.
GetVersion(o) ==
  /\ pc[o] = "get_version"
  /\ \/ /\ Live(target[o])
        /\ expected' = [expected EXCEPT ![o] = rows[target[o]].version]
        /\ Goto(o, "read")
        /\ UNCHANGED out
     \/ /\ ~Live(target[o])
        /\ Return(o, "not_found")
        /\ UNCHANGED expected
  /\ UNCHANGED <<storeVars, arg, target, listed, todo, got, tries,
                 ctxData, redisVars>>

\* The load_task that ends create_task: the row may be gone again.
LoadCreated(o) ==
  /\ pc[o] = "load"
  /\ Return(o, IF Live(target[o]) THEN "ok" ELSE "not_found")
  /\ UNCHANGED <<storeVars, arg, target, listed, todo, updateVars, ctxData, redisVars>>

\* The merge is computed from the row that was read, so the attempt starts
\* by remembering it.
Remember(o) ==
  got' = [got EXCEPT ![o] = rows[target[o]]]

\* Write back what was merged from the row that was read.
WriteBack(o) ==
  /\ rows' = [rows EXCEPT ![target[o]] = Merged(got[o], o, arg[o].state)]
  /\ UNCHANGED used

\* Somebody else wrote in between: a pinned update raises, a blind one
\* starts over until its attempts are used up.
LoseRace(o) ==
  /\ tries' = [tries EXCEPT ![o] = @ + 1]
  /\ \/ /\ arg[o].kind = "blind"
        /\ tries[o] + 1 < MaxAttempts
        /\ Goto(o, "read")
        /\ UNCHANGED out
     \/ /\ arg[o].kind = "pinned" \/ tries[o] + 1 = MaxAttempts
        /\ Return(o, "conflict")
  /\ UNCHANGED storeVars
=============================================================================
