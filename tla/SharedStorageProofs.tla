------------------------ MODULE SharedStorageProofs ------------------------
(***************************************************************************)
(* Proofs about SharedStorage for any number of calls, tasks, contexts,    *)
(* keys and attempts: both backends implement VersionedStore, updates are  *)
(* applied once, and idempotency keys lead to their task.                  *)
(***************************************************************************)
EXTENDS SharedStorage, FiniteSetTheorems, TLAPS

\* Where a call is tells what it is about.
LocatedAt(o) ==
  /\ pc[o] \in {"get_version", "read", "write", "remove"} => target[o] \in used
  /\ pc[o] \in {"get_version", "read", "write"} => arg[o].kind \in Updates
  /\ pc[o] \in {"insert", "hint"} => target[o] \in Tasks
  /\ pc[o] \in {"insert", "list"} => arg[o].ctx \in Contexts
  /\ pc[o] \in {"hint", "remove"} /\ arg[o].kind # "delete" => arg[o].ctx \in Contexts
  /\ pc[o] # "done" => out[o] = "pending"

Located == \A o \in Calls : LocatedAt(o)

\* A row that exists was inserted, into a context.
RowsKnown == \A t \in Tasks : Live(t) => t \in used /\ rows[t].ctx \in Contexts

\* The row a call has read is the present one or an older one, and so is the
\* version it was pinned to before it read.  A write that finds the version it
\* insists on therefore merges into the present row.
PastAt(o) ==
  /\ pc[o] = "write" =>
       /\ got[o].version > 0
       /\ Live(target[o]) =>
            /\ got[o].version <= rows[target[o]].version
            /\ got[o].version = rows[target[o]].version => got[o] = rows[target[o]]
       /\ arg[o].kind = "pinned" => expected[o] <= got[o].version
       /\ backend = "sql" => ~Guarded(got[o], arg[o].state)
  /\ pc[o] = "read" /\ arg[o].kind = "pinned" /\ Live(target[o]) =>
       expected[o] <= rows[target[o]].version

ReadsArePast == \A o \in Calls : PastAt(o)

StoreInv == SharedTypeOK /\ Located /\ RowsKnown /\ ReadsArePast

-----------------------------------------------------------------------------
(* Types                                                                   *)

\* What a merge writes is a row with the next version, the same context and
\* the same key.
LEMMA MergedRow ==
  ASSUME NEW row \in Rows, NEW o \in Calls, NEW st \in States \cup {None}
  PROVE  /\ Merged(row, o, st) \in Rows
         /\ Merged(row, o, st).version = row.version + 1
         /\ Merged(row, o, st).ctx = row.ctx
         /\ Merged(row, o, st).key = row.key
         /\ Merged(row, o, st).log = Append(row.log, o)
<1>1. row.log \in Seq(Calls) /\ row.version \in Nat /\ row.state \in States
  BY DEF Rows
<1>2. Append(row.log, o) \in Seq(Calls) /\ row.version + 1 \in Nat
  BY <1>1
<1>3. (IF st = None THEN row.state ELSE st) \in States
  BY <1>1
<1> QED BY <1>2, <1>3 DEF Merged, Rows

\* The rows of a new and of an absent task are rows.
LEMMA FreshRows ==
  /\ AbsentRow \in Rows
  /\ \A c \in Contexts \cup {Nil}, k \in Keys \cup {Nil} :
       /\ NewRow(c, k) \in Rows
       /\ NewRow(c, k).version = 1
       /\ NewRow(c, k).ctx = c
       /\ NewRow(c, k).key = k
       /\ NewRow(c, k).log = <<>>
  /\ AbsentRow.version = 0
  /\ AbsentRow.log = <<>>
  BY DEF AbsentRow, NewRow, Rows, States

\* A call that starts keeps the types.
LEMMA CallTypes ==
  ASSUME TypeOK, NEW o \in Calls, Call(o)
  PROVE  TypeOK'
<1>0. /\ {"blind", "pinned", "create", "delete", "delete_context", "context"} \subseteq AllKinds
      /\ {"read", "get_version", "insert", "hint", "list", "ctx_update"} \subseteq Labels
      /\ {"working", "completed", None} \subseteq States \cup {None}
  BY DEF AllKinds, Labels, States
<1>1. ASSUME NEW kind \in AllKinds, NEW c \in Contexts \cup {Nil}, NEW k \in Keys \cup {Nil},
             NEW st \in States \cup {None}, NEW t \in Tasks \cup {Nil}, NEW label \in Labels,
             Begin(o, kind, c, k, st, t, label)
      PROVE  TypeOK'
  <2>1. [kind |-> kind, ctx |-> c, key |-> k, state |-> st] \in Args
    BY DEF Args
  <2> QED BY <1>1, <2>1 DEF TypeOK, Begin, Goto, storeVars, updateVars, redisVars
<1>2. used \subseteq Tasks BY DEF TypeOK
<1>3. CASE CallUpdate(o) BY <1>0, <1>1, <1>2, <1>3 DEF CallUpdate
<1>4. CASE CallCreate(o) BY <1>0, <1>1, <1>4 DEF CallCreate
<1>5. CASE CallDelete(o) BY <1>0, <1>1, <1>2, <1>5 DEF CallDelete
<1>6. CASE CallDeleteContext(o) BY <1>0, <1>1, <1>6 DEF CallDeleteContext
<1>7. CASE CallUpdateContext(o) BY <1>0, <1>1, <1>7 DEF CallUpdateContext
<1> QED BY <1>3, <1>4, <1>5, <1>6, <1>7 DEF Call

\* Removing and inserting rows keeps the types of the store.
LEMMA StoreTypes ==
  ASSUME TypeOK
  PROVE  /\ \A ts : Remove(ts) => rows' \in [Tasks -> Rows] /\ used' \subseteq Tasks
         /\ \A t \in Tasks, c \in Contexts \cup {Nil}, k \in Keys \cup {Nil} :
              Insert(t, c, k) => rows' \in [Tasks -> Rows] /\ used' \subseteq Tasks
         /\ \A o \in Calls : target[o] \in Tasks /\ WriteBack(o) =>
              rows' \in [Tasks -> Rows] /\ used' \subseteq Tasks
<1>1. \A ts : Remove(ts) => rows' \in [Tasks -> Rows] /\ used' \subseteq Tasks
  BY FreshRows DEF Remove, TypeOK
<1>2. \A t \in Tasks, c \in Contexts \cup {Nil}, k \in Keys \cup {Nil} :
        Insert(t, c, k) => rows' \in [Tasks -> Rows] /\ used' \subseteq Tasks
  <2> SUFFICES ASSUME NEW t \in Tasks, NEW c \in Contexts \cup {Nil}, NEW k \in Keys \cup {Nil},
                      Insert(t, c, k)
               PROVE  rows' \in [Tasks -> Rows] /\ used' \subseteq Tasks
    OBVIOUS
  <2>1. NewRow(c, k) \in Rows BY FreshRows
  <2> QED BY <2>1 DEF Insert, TypeOK
<1>3. \A o \in Calls : target[o] \in Tasks /\ WriteBack(o) =>
              rows' \in [Tasks -> Rows] /\ used' \subseteq Tasks
  <2>1. \A o \in Calls : Merged(got[o], o, arg[o].state) \in Rows
    BY MergedRow DEF TypeOK, Args
  <2> QED BY <2>1 DEF WriteBack, TypeOK
<1> QED BY <1>1, <1>2, <1>3

\* A call moves to a label and ends with an outcome.
LEMMA Moves ==
  ASSUME TypeOK, NEW o \in Calls
  PROVE  /\ \A l \in Labels : Goto(o, l) => pc' \in [Calls -> Labels]
         /\ \A r \in Outcomes :
              Return(o, r) => pc' \in [Calls -> Labels] /\ out' \in [Calls -> Outcomes]
<1>1. \A l \in Labels : Goto(o, l) => pc' \in [Calls -> Labels]
  BY DEF Goto, TypeOK
<1>2. "done" \in Labels BY DEF Labels
<1> QED BY <1>1, <1>2 DEF Return, TypeOK

\* So does a call that is done with one deletion.
LEMMA AfterDeleteTypes ==
  ASSUME TypeOK, NEW o \in Calls, NEW b \in BOOLEAN, AfterDelete(o, b)
  PROVE  /\ pc' \in [Calls -> Labels] /\ out' \in [Calls -> Outcomes]
         /\ todo' \in [Calls -> SUBSET Tasks]
<1>l. /\ {"drop_index", "list"} \subseteq Labels
      /\ {"ok", "not_found"} \subseteq Outcomes
  BY DEF Labels, Outcomes
<1>1. CASE arg[o].kind = "delete" BY <1>l, <1>1, Moves DEF AfterDelete, TypeOK
<1>2. CASE arg[o].kind # "delete" BY <1>l, <1>2, Moves DEF AfterDelete, TypeOK
<1> QED BY <1>1, <1>2

\* Every step of a call that was made keeps the types.
LEMMA StepTypes ==
  ASSUME TypeOK, Located, NEW o \in Calls
  PROVE  /\ SqlStep(o) => TypeOK'
         /\ RedisStep(o) => TypeOK'
<1> USE DEF storeVars, updateVars, redisVars
<1>0. /\ pc[o] \in Labels /\ arg[o] \in Args /\ arg[o].ctx \in Contexts \cup {Nil}
      /\ arg[o].key \in Keys \cup {Nil} /\ used \subseteq Tasks
  BY DEF TypeOK, Args
<1>l. /\ Labels = {"idle", "get_version", "read", "write", "insert", "fetch", "load", "list", "hint",
                   "remove", "drop_index", "ctx_update", "ctx_insert", "ctx_retry", "done"}
      /\ Outcomes = {"pending", "ok", "not_found", "conflict", "terminal"}
  BY DEF Labels, Outcomes
<1>1. ASSUME GetVersion(o) PROVE TypeOK'
  <2>1. target[o] \in Tasks BY <1>0, <1>1 DEF GetVersion, Located, LocatedAt
  <2>2. rows[target[o]].version \in Nat BY <2>1 DEF TypeOK, Rows
  <2>3. pc' \in [Calls -> Labels] /\ out' \in [Calls -> Outcomes]
    BY <1>l, Moves, <1>1 DEF GetVersion, TypeOK
  <2>4. expected' \in [Calls -> Nat] BY <2>2, <1>1 DEF GetVersion, TypeOK
  <2> QED BY <2>3, <2>4, <1>1 DEF TypeOK, GetVersion
<1>2. ASSUME SelectRow(o) PROVE TypeOK'
  BY <1>0, <1>l, <1>2 DEF TypeOK, Located, LocatedAt, Goto, Return, SelectRow, Remember
<1>3. ASSUME UpdateGuarded(o) PROVE TypeOK'
  <2>1. target[o] \in Tasks BY <1>0, <1>3 DEF UpdateGuarded, Located, LocatedAt
  <2>2. rows' \in [Tasks -> Rows] /\ used' \subseteq Tasks
    BY <2>1, StoreTypes, <1>3 DEF UpdateGuarded, LoseRace, TypeOK
  <2>3. tries' \in [Calls -> Nat] BY <1>3 DEF UpdateGuarded, LoseRace, TypeOK
  <2>4. pc' \in [Calls -> Labels] /\ out' \in [Calls -> Outcomes]
    BY <1>l, Moves, <1>3 DEF UpdateGuarded, LoseRace, TypeOK
  <2> QED BY <2>2, <2>3, <2>4, <1>3 DEF TypeOK, UpdateGuarded
<1>4. ASSUME InsertIdempotent(o) PROVE TypeOK'
  BY <1>0, <1>l, <1>4, StoreTypes DEF TypeOK, Located, LocatedAt, Goto, Return, InsertIdempotent
<1>5. ASSUME FetchBack(o) PROVE TypeOK'
  BY <1>0, <1>l, <1>5 DEF TypeOK, Located, LocatedAt, Goto, Return, FetchBack, SameKey
<1>6. ASSUME InsertPlain(o) PROVE TypeOK'
  BY <1>0, <1>l, <1>6, StoreTypes DEF TypeOK, Located, LocatedAt, Goto, Return, InsertPlain
<1>7. ASSUME LoadCreated(o) PROVE TypeOK'
  BY <1>0, <1>l, <1>7 DEF TypeOK, Located, LocatedAt, Goto, Return, LoadCreated
<1>8. ASSUME DeleteRow(o) PROVE TypeOK'
  BY <1>0, <1>l, <1>8, StoreTypes DEF TypeOK, Located, LocatedAt, Goto, Return, DeleteRow
<1>9. ASSUME DeleteContext(o) PROVE TypeOK'
  BY <1>0, <1>l, <1>9, StoreTypes DEF TypeOK, Located, LocatedAt, Goto, Return, DeleteContext
<1>10. ASSUME UpdateContext(o) PROVE TypeOK'
  <2>1. pc' \in [Calls -> Labels] /\ out' \in [Calls -> Outcomes]
    BY <1>l, Moves, <1>10 DEF UpdateContext, TypeOK
  <2>2. ctxData' \in [Contexts -> Calls \cup {Nil}] BY <1>10 DEF UpdateContext, StoreData, TypeOK
  <2> QED BY <2>1, <2>2, <1>10 DEF TypeOK, UpdateContext
<1>11. ASSUME InsertContext(o) PROVE TypeOK'
  <2>1. pc' \in [Calls -> Labels] /\ out' \in [Calls -> Outcomes]
    BY <1>l, Moves, <1>11 DEF InsertContext, TypeOK
  <2>2. ctxData' \in [Contexts -> Calls \cup {Nil}] BY <1>11 DEF InsertContext, StoreData, TypeOK
  <2> QED BY <2>1, <2>2, <1>11 DEF TypeOK, InsertContext
<1>12. ASSUME RetryContext(o) PROVE TypeOK'
  BY <1>0, <1>l, <1>12 DEF TypeOK, Located, LocatedAt, Goto, Return, RetryContext, HasData, StoreData
<1>13. ASSUME ReadHash(o) PROVE TypeOK'
  BY <1>0, <1>l, <1>13 DEF TypeOK, Located, LocatedAt, Goto, Return, ReadHash, Remember
<1>14. ASSUME UpdateScript(o) PROVE TypeOK'
  <2>1. target[o] \in Tasks BY <1>0, <1>14 DEF UpdateScript, Located, LocatedAt
  <2>2. rows' \in [Tasks -> Rows] /\ used' \subseteq Tasks
    BY <2>1, StoreTypes, <1>14 DEF UpdateScript, LoseRace, TypeOK
  <2>3. tries' \in [Calls -> Nat] BY <1>14 DEF UpdateScript, LoseRace, TypeOK
  <2>4. pc' \in [Calls -> Labels] /\ out' \in [Calls -> Outcomes]
    BY <1>l, Moves, <1>14 DEF UpdateScript, LoseRace, TypeOK
  <2> QED BY <2>2, <2>3, <2>4, <1>14 DEF TypeOK, UpdateScript
<1>15. ASSUME CreateScript(o) PROVE TypeOK'
  <2>1. target[o] \in Tasks /\ arg[o].ctx \in Contexts /\ arg[o].key \in Keys
    BY <1>0, <1>15 DEF CreateScript, Located, LocatedAt
  <2>2. rows' \in [Tasks -> Rows] /\ used' \subseteq Tasks
    BY <1>0, <2>1, StoreTypes, <1>15 DEF CreateScript, TypeOK
  <2>3. pc' \in [Calls -> Labels] BY <1>l, Moves, <1>15 DEF CreateScript
  <2>4. target' \in [Calls -> Tasks \cup {Nil}] BY <2>1, <1>15 DEF CreateScript, TypeOK
  <2>5. index' \in [Contexts -> SUBSET Tasks] BY <2>1, <1>15 DEF CreateScript, AddToIndex, TypeOK
  <2>6. idem' \in [Contexts \X Keys -> Tasks \cup {Nil}] BY <2>1, <1>15 DEF CreateScript, TypeOK
  <2> QED BY <2>2, <2>3, <2>4, <2>5, <2>6, <1>15 DEF TypeOK, CreateScript
<1>16. ASSUME CreateMulti(o) PROVE TypeOK'
  BY <1>0, <1>l, <1>16, StoreTypes DEF TypeOK, Located, LocatedAt, Goto, Return, CreateMulti, AddToIndex
<1>17. ASSUME ReadHint(o) PROVE TypeOK'
  <2>1. target[o] \in Tasks BY <1>17 DEF ReadHint, Located, LocatedAt
  <2>2. /\ pc' \in [Calls -> Labels] /\ out' \in [Calls -> Outcomes]
        /\ todo' \in [Calls -> SUBSET Tasks]
    <3>1. CASE Live(target[o]) BY <1>l, <3>1, Moves, <1>17 DEF ReadHint, TypeOK
    <3>2. CASE ~Live(target[o])
      <4>1. AfterDelete(o, FALSE) BY <3>2, <1>17 DEF ReadHint
      <4> QED BY <4>1, AfterDeleteTypes
    <3> QED BY <3>1, <3>2
  <2>3. got' \in [Calls -> Rows] BY <2>1, <1>17 DEF ReadHint, TypeOK
  <2> QED BY <2>2, <2>3, <1>17 DEF TypeOK, ReadHint
<1>18. ASSUME DeleteMulti(o) PROVE TypeOK'
  <2>1. /\ pc' \in [Calls -> Labels] /\ out' \in [Calls -> Outcomes]
        /\ todo' \in [Calls -> SUBSET Tasks]
    <3>1. Live(target[o]) \in BOOLEAN BY DEF Live
    <3>2. AfterDelete(o, Live(target[o])) BY <1>18 DEF DeleteMulti
    <3> QED BY <3>1, <3>2, AfterDeleteTypes
  <2>2. rows' \in [Tasks -> Rows] /\ used' \subseteq Tasks BY StoreTypes, <1>18 DEF DeleteMulti
  <2>3. index' \in [Contexts -> SUBSET Tasks] BY <1>18 DEF DeleteMulti, TypeOK
  <2>4. /\ idem' \in [Contexts \X Keys -> Tasks \cup {Nil}]
        /\ forgotten' \subseteq (Contexts \X Keys)
    BY <1>18 DEF DeleteMulti, TypeOK
  <2> QED BY <2>1, <2>2, <2>3, <2>4, <1>18 DEF TypeOK, DeleteMulti
<1>19. ASSUME ListContext(o) PROVE TypeOK'
  BY <1>0, <1>l, <1>19 DEF TypeOK, Located, LocatedAt, Goto, Return, ListContext
<1>20. ASSUME DeleteNext(o) PROVE TypeOK'
  BY <1>0, <1>l, <1>20 DEF TypeOK, Located, LocatedAt, Goto, Return, DeleteNext
<1>21. ASSUME DropIndex(o) PROVE TypeOK'
  BY <1>0, <1>l, <1>21 DEF TypeOK, Located, LocatedAt, Goto, Return, DropIndex
<1>22. ASSUME SetContext(o) PROVE TypeOK'
  BY <1>0, <1>l, <1>22 DEF TypeOK, Located, LocatedAt, Goto, Return, SetContext
<1>c. Call(o) => TypeOK' BY CallTypes
<1> QED
  BY <1>c, <1>1, <1>2, <1>3, <1>4, <1>5, <1>6, <1>7, <1>8, <1>9, <1>10, <1>11, <1>12, <1>13, <1>14, <1>15, <1>16, <1>17, <1>18, <1>19, <1>20, <1>21, <1>22 DEF SqlStep, RedisStep

\* Starting a call: what it is about.
LEMMA Begins ==
  ASSUME TypeOK, NEW o \in Calls, Call(o)
  PROVE  /\ UNCHANGED <<storeVars, out, expected, got, idem, forgotten>>
         /\ pc[o] = "idle"
         /\ \A p \in Calls \ {o} : pc'[p] = pc[p] /\ arg'[p] = arg[p] /\ target'[p] = target[p]
         /\ \/ /\ pc'[o] \in {"read", "get_version"} /\ target'[o] \in used
               /\ arg'[o].kind = IF pc'[o] = "read" THEN "blind" ELSE "pinned"
            \/ pc'[o] = "insert" /\ target'[o] \in Tasks /\ arg'[o].ctx \in Contexts
            \/ pc'[o] = "hint" /\ target'[o] \in Tasks /\ arg'[o].kind = "delete"
            \/ pc'[o] = "list" /\ arg'[o].ctx \in Contexts
            \/ pc'[o] = "ctx_update"
<1> USE DEF TypeOK, Begin, Goto, storeVars, updateVars, redisVars
<1>1. CASE CallUpdate(o) BY <1>1 DEF CallUpdate
<1>2. CASE CallCreate(o) BY <1>2 DEF CallCreate
<1>3. CASE CallDelete(o) BY <1>3 DEF CallDelete
<1>4. CASE CallDeleteContext(o) BY <1>4 DEF CallDeleteContext
<1>5. CASE CallUpdateContext(o) BY <1>5 DEF CallUpdateContext
<1> QED BY <1>1, <1>2, <1>3, <1>4, <1>5 DEF Call

\* A step of one call leaves the others where they are.
Apart(o) ==
  \A p \in Calls \ {o} :
    /\ pc'[p] = pc[p] /\ arg'[p] = arg[p] /\ target'[p] = target[p] /\ out'[p] = out[p]
    /\ expected'[p] = expected[p] /\ got'[p] = got[p]

\* Every step of either backend is one call's alone.
LEMMA Frame ==
  ASSUME TypeOK, NEW o \in Calls, SqlStep(o) \/ RedisStep(o)
  PROVE  Apart(o)
<1> USE DEF TypeOK, Goto, Return, storeVars, updateVars, redisVars, Apart
<1>c. CASE Call(o) BY <1>c, Begins
<1>1. CASE GetVersion(o) BY <1>1 DEF GetVersion
<1>2. CASE SelectRow(o) BY <1>2 DEF SelectRow, Remember
<1>3. CASE UpdateGuarded(o) BY <1>3 DEF UpdateGuarded, LoseRace
<1>4. CASE InsertIdempotent(o) BY <1>4 DEF InsertIdempotent
<1>5. CASE FetchBack(o) BY <1>5 DEF FetchBack
<1>6. CASE InsertPlain(o) BY <1>6 DEF InsertPlain
<1>7. CASE LoadCreated(o) BY <1>7 DEF LoadCreated
<1>8. CASE DeleteRow(o) BY <1>8 DEF DeleteRow
<1>9. CASE DeleteContext(o) BY <1>9 DEF DeleteContext
<1>10. CASE UpdateContext(o) BY <1>10 DEF UpdateContext
<1>11. CASE InsertContext(o) BY <1>11 DEF InsertContext
<1>12. CASE RetryContext(o) BY <1>12 DEF RetryContext
<1>13. CASE ReadHash(o) BY <1>13 DEF ReadHash, Remember
<1>14. CASE UpdateScript(o) BY <1>14 DEF UpdateScript, LoseRace
<1>15. CASE CreateScript(o) BY <1>15 DEF CreateScript
<1>16. CASE CreateMulti(o) BY <1>16 DEF CreateMulti
<1>17. CASE ReadHint(o) BY <1>17 DEF ReadHint, AfterDelete
<1>18. CASE DeleteMulti(o) BY <1>18 DEF DeleteMulti, AfterDelete
<1>19. CASE ListContext(o) BY <1>19 DEF ListContext
<1>20. CASE DeleteNext(o) BY <1>20 DEF DeleteNext
<1>21. CASE DropIndex(o) BY <1>21 DEF DropIndex
<1>22. CASE SetContext(o) BY <1>22 DEF SetContext
<1> QED
  BY <1>c, <1>1, <1>2, <1>3, <1>4, <1>5, <1>6, <1>7, <1>8, <1>9, <1>10, <1>11, <1>12, <1>13, <1>14, <1>15, <1>16, <1>17, <1>18, <1>19, <1>20, <1>21, <1>22 DEF SqlStep, RedisStep

-----------------------------------------------------------------------------
(* What a step does to the rows                                            *)

\* The write of an update that is accepted, merged into the present row.
Writes(o) ==
  /\ pc[o] = "write" /\ out[o] = "pending"
  /\ target[o] \in Tasks /\ arg[o].state \in States \cup {None}
  /\ Merge(target[o], o, arg[o].state)
  /\ pc'[o] = "done" /\ out'[o] = "ok" /\ arg'[o] = arg[o] /\ target'[o] = target[o]

\* The row a create inserts.
Creates(o) ==
  /\ pc[o] = "insert" /\ target[o] \in Tasks
  /\ arg[o].ctx \in Contexts /\ arg[o].key \in Keys \cup {Nil}
  /\ Insert(target[o], arg[o].ctx, arg[o].key)
  /\ pc'[o] \in {"fetch", "load"} /\ out'[o] = out[o]

\* The version check of either backend finds a row unchanged since it was read.
LEMMA WriteOnPresentRow ==
  ASSUME TypeOK, Located, ReadsArePast, NEW o \in Calls, pc[o] = "write",
         \/ rows[target[o]].version = got[o].version
         \/ Live(target[o]) /\ rows[target[o]].version = OccVersion(o)
  PROVE  Live(target[o]) /\ got[o] = rows[target[o]]
<1>1. PastAt(o) /\ target[o] \in Tasks /\ arg[o].kind \in Updates
  BY DEF ReadsArePast, Located, LocatedAt, TypeOK
<1>2. rows[target[o]].version \in Nat /\ got[o].version \in Nat /\ expected[o] \in Nat
  BY <1>1 DEF TypeOK, Rows
<1>3. Live(target[o]) BY <1>1, <1>2 DEF PastAt, Live
<1>4. rows[target[o]].version = got[o].version
  BY <1>1, <1>2, <1>3 DEF PastAt, OccVersion, Live
<1> QED BY <1>1, <1>3, <1>4 DEF PastAt

\* The last round trip of an update merges into the present row and returns,
\* or leaves the rows alone and does not return a version.
LEMMA UpdateEffect ==
  ASSUME StoreInv, NEW o \in Calls, (backend = "sql" /\ UpdateGuarded(o)) \/ UpdateScript(o)
  PROVE  Writes(o) \/ (UNCHANGED storeVars /\ out'[o] # "ok")
<1> USE DEF storeVars
<1>0. TypeOK /\ Located /\ ReadsArePast /\ PastAt(o) /\ LocatedAt(o)
  BY DEF StoreInv, SharedTypeOK, Located, ReadsArePast
<1>t. /\ arg[o].state \in States \cup {None} /\ used \subseteq Tasks
      /\ pc \in [Calls -> Labels] /\ out \in [Calls -> Outcomes]
  BY <1>0 DEF TypeOK, Args
<1>p. out[o] = "pending" BY <1>0 DEF LocatedAt, UpdateGuarded, UpdateScript
<1>w. ASSUME pc[o] = "write", Live(target[o]), got[o] = rows[target[o]],
             ~Guarded(rows[target[o]], arg[o].state), WriteBack(o), Return(o, "ok"),
             UNCHANGED <<arg, target>>
      PROVE  Writes(o)
  <2>1. Merge(target[o], o, arg[o].state) BY <1>w DEF Merge, WriteBack
  <2>2. pc'[o] = "done" /\ out'[o] = "ok" BY <1>w, <1>t DEF Return, Goto
  <2> QED BY <1>0, <1>t, <1>w, <2>1, <2>2 DEF Writes, LocatedAt
<1>1. CASE backend = "sql" /\ UpdateGuarded(o)
  <2>1. CASE rows[target[o]].version = got[o].version
    <3>1. Live(target[o]) /\ got[o] = rows[target[o]]
      BY <1>0, <1>1, <2>1, WriteOnPresentRow DEF UpdateGuarded
    <3>2. ~Guarded(rows[target[o]], arg[o].state)
      BY <1>0, <1>1, <3>1 DEF PastAt, UpdateGuarded
    <3> QED BY <1>1, <2>1, <3>1, <3>2, <1>w DEF UpdateGuarded
  <2>2. CASE rows[target[o]].version # got[o].version
    BY <1>1, <2>2, <1>p, <1>t DEF UpdateGuarded, LoseRace, Return
  <2> QED BY <2>1, <2>2
<1>2. CASE UpdateScript(o)
  <2>1. CASE /\ Live(target[o]) /\ rows[target[o]].version = OccVersion(o)
             /\ ~Guarded(rows[target[o]], arg[o].state)
    <3>1. got[o] = rows[target[o]]
      BY <1>0, <1>2, <2>1, WriteOnPresentRow DEF UpdateScript
    <3> QED BY <1>2, <2>1, <3>1, <1>w DEF UpdateScript
  <2>2. CASE ~(/\ Live(target[o]) /\ rows[target[o]].version = OccVersion(o)
               /\ ~Guarded(rows[target[o]], arg[o].state))
    BY <1>2, <2>2, <1>p, <1>t DEF UpdateScript, LoseRace, Return
  <2> QED BY <2>1, <2>2
<1> QED BY <1>1, <1>2

\* Each step of either backend is one atomic merge, an insert, a removal, or
\* leaves the rows alone.
LEMMA StoreEffect ==
  ASSUME StoreInv, NEW o \in Calls, Sql(o) \/ Redis(o)
  PROVE  \/ UNCHANGED storeVars
         \/ Writes(o)
         \/ Creates(o)
         \/ \E ts \in SUBSET Tasks : Remove(ts)
<1> USE DEF storeVars
<1>0. TypeOK /\ Located /\ ReadsArePast /\ PastAt(o) /\ LocatedAt(o)
  BY DEF StoreInv, SharedTypeOK, Located, ReadsArePast
<1>t. /\ arg[o].state \in States \cup {None} /\ used \subseteq Tasks
      /\ arg[o].key \in Keys \cup {Nil}
      /\ pc \in [Calls -> Labels] /\ out \in [Calls -> Outcomes]
  BY <1>0 DEF TypeOK, Args
<1>c. CASE Call(o) BY <1>c, <1>0, Begins
<1>q. ASSUME \/ GetVersion(o) \/ SelectRow(o) \/ FetchBack(o) \/ LoadCreated(o)
             \/ UpdateContext(o) \/ InsertContext(o) \/ RetryContext(o) \/ ReadHash(o)
             \/ ReadHint(o) \/ ListContext(o) \/ DeleteNext(o) \/ DropIndex(o)
             \/ SetContext(o)
      PROVE  UNCHANGED storeVars
  BY <1>q DEF GetVersion, SelectRow, FetchBack, LoadCreated, UpdateContext, InsertContext,
     RetryContext, ReadHash, ReadHint, ListContext, DeleteNext, DropIndex, SetContext
<1>1. CASE (backend = "sql" /\ UpdateGuarded(o)) \/ UpdateScript(o)
  BY <1>1, UpdateEffect
<1>3. CASE InsertIdempotent(o)
  BY <1>0, <1>t, <1>3 DEF InsertIdempotent, Creates, LocatedAt, Goto
<1>4. CASE InsertPlain(o)
  BY <1>0, <1>t, <1>4 DEF InsertPlain, Creates, LocatedAt, Goto
<1>5. CASE CreateScript(o)
  BY <1>0, <1>t, <1>5 DEF CreateScript, Creates, LocatedAt, Goto
<1>6. CASE CreateMulti(o)
  BY <1>0, <1>t, <1>6 DEF CreateMulti, Creates, LocatedAt, Goto
<1>7. CASE DeleteRow(o)
  BY <1>0, <1>7 DEF DeleteRow, LocatedAt
<1>8. CASE DeleteContext(o)
  BY <1>8 DEF DeleteContext
<1>9. CASE DeleteMulti(o)
  BY <1>0, <1>t, <1>9 DEF DeleteMulti, LocatedAt
<1> QED
  BY <1>c, <1>q, <1>1, <1>3, <1>4, <1>5, <1>6, <1>7, <1>8, <1>9
     DEF Sql, Redis, SqlStep, RedisStep

\* Between two states a row that was inserted stays as it is, disappears for
\* good, or gets the next version.
Successor(t) ==
  \/ rows'[t] = rows[t]
  \/ rows'[t].version = 0
  \/ /\ Live(t) /\ rows'[t].version = rows[t].version + 1
     /\ rows'[t].ctx = rows[t].ctx /\ rows'[t].key = rows[t].key

\* No step of a call does anything else to a row that was inserted before.
LEMMA Evolves ==
  ASSUME StoreInv, NEW o \in Calls, Sql(o) \/ Redis(o)
  PROVE  used \subseteq used' /\ \A t \in used : Successor(t)
<1>0. TypeOK /\ used \subseteq Tasks /\ rows \in [Tasks -> Rows]
  BY DEF StoreInv, SharedTypeOK, TypeOK
<1>1. CASE UNCHANGED storeVars BY <1>1 DEF storeVars, Successor
<1>2. CASE Writes(o)
  <2>1. rows[target[o]] \in Rows BY <1>0, <1>2 DEF Writes
  <2>2. \A t \in used : t # target[o] => rows'[t] = rows[t]
    BY <1>0, <1>2 DEF Writes, Merge
  <2>3. rows'[target[o]] = Merged(rows[target[o]], o, arg[o].state)
    BY <1>0, <1>2 DEF Writes, Merge
  <2>4. Successor(target[o])
    BY <2>1, <2>3, <1>2, MergedRow DEF Writes, Merge, Successor
  <2>5. used' = used BY <1>2 DEF Writes, Merge
  <2> QED BY <2>2, <2>4, <2>5 DEF Successor
<1>3. CASE Creates(o) BY <1>0, <1>3 DEF Creates, Insert, Successor
<1>4. CASE \E ts \in SUBSET Tasks : Remove(ts)
  BY <1>0, <1>4, FreshRows DEF Remove, Successor
<1> QED BY <1>1, <1>2, <1>3, <1>4, StoreEffect

\* What exists after a step existed before it or was inserted by it.
LEMMA RowsKnownStep ==
  ASSUME StoreInv, NEW o \in Calls, Sql(o) \/ Redis(o)
  PROVE  RowsKnown'
<1>0. TypeOK /\ used \subseteq Tasks /\ rows \in [Tasks -> Rows] /\ RowsKnown
  BY DEF StoreInv, SharedTypeOK, TypeOK
<1>1. CASE UNCHANGED storeVars BY <1>0, <1>1 DEF storeVars, RowsKnown, Live
<1>2. CASE Writes(o)
  <2>1. rows[target[o]] \in Rows BY <1>0, <1>2 DEF Writes
  <2>2. \A t \in Tasks : t # target[o] => rows'[t] = rows[t]
    BY <1>0, <1>2 DEF Writes, Merge
  <2>3. rows'[target[o]].ctx = rows[target[o]].ctx
    BY <1>0, <1>2, <2>1, MergedRow DEF Writes, Merge
  <2> QED BY <1>0, <1>2, <2>2, <2>3 DEF Writes, Merge, RowsKnown, Live
<1>3. CASE Creates(o)
  <2>1. \A t \in Tasks : t # target[o] => rows'[t] = rows[t]
    BY <1>0, <1>3 DEF Creates, Insert
  <2>2. rows'[target[o]].ctx = arg[o].ctx
    BY <1>0, <1>3, FreshRows DEF Creates, Insert
  <2>3. used' = used \cup {target[o]} BY <1>3 DEF Creates, Insert
  <2>4. arg[o].ctx \in Contexts BY <1>3 DEF Creates
  <2> QED BY <1>0, <2>1, <2>2, <2>3, <2>4 DEF RowsKnown, Live
<1>4. CASE \E ts \in SUBSET Tasks : Remove(ts)
  BY <1>0, <1>4, FreshRows DEF Remove, RowsKnown, Live
<1> QED BY <1>1, <1>2, <1>3, <1>4, StoreEffect

\* A call that has listed, read or deleted goes on to a place that fits.
LEMMA LocatedStep ==
  ASSUME StoreInv, NEW o \in Calls, Sql(o) \/ Redis(o)
  PROVE  Located'
<1>0. /\ TypeOK /\ used \subseteq Tasks /\ used \subseteq used' /\ LocatedAt(o) /\ RowsKnown
      /\ SqlStep(o) \/ RedisStep(o)
  BY Evolves DEF StoreInv, SharedTypeOK, TypeOK, Located, Sql, Redis
<1>1. \A p \in Calls \ {o} : LocatedAt(p)'
  <2>1. Apart(o) BY <1>0, Frame
  <2>2. \A p \in Calls : LocatedAt(p) BY DEF StoreInv, Located
  <2> QED BY <1>0, <2>1, <2>2 DEF Apart, LocatedAt
<1>2. LocatedAt(o)'
  <2> USE DEF Goto, Return, storeVars, updateVars, redisVars, LocatedAt
  <2>t. /\ pc \in [Calls -> Labels] /\ out \in [Calls -> Outcomes]
        /\ target \in [Calls -> Tasks \cup {Nil}]
    BY <1>0 DEF TypeOK
  <2>c. CASE Call(o) BY <1>0, <2>c, Begins DEF Updates
  <2>1. CASE GetVersion(o) BY <1>0, <2>t, <2>1 DEF GetVersion
  <2>2. CASE SelectRow(o) BY <1>0, <2>t, <2>2 DEF SelectRow
  <2>3. CASE UpdateGuarded(o) BY <1>0, <2>t, <2>3 DEF UpdateGuarded, LoseRace
  <2>4. CASE InsertIdempotent(o) BY <1>0, <2>t, <2>4 DEF InsertIdempotent
  <2>5. CASE FetchBack(o) BY <1>0, <2>t, <2>5 DEF FetchBack
  <2>6. CASE InsertPlain(o) BY <1>0, <2>t, <2>6 DEF InsertPlain
  <2>7. CASE LoadCreated(o) BY <1>0, <2>t, <2>7 DEF LoadCreated
  <2>8. CASE DeleteRow(o) BY <1>0, <2>t, <2>8 DEF DeleteRow
  <2>9. CASE DeleteContext(o) BY <1>0, <2>t, <2>9 DEF DeleteContext
  <2>10. CASE UpdateContext(o) BY <1>0, <2>t, <2>10 DEF UpdateContext
  <2>11. CASE InsertContext(o) BY <1>0, <2>t, <2>11 DEF InsertContext
  <2>12. CASE RetryContext(o) BY <1>0, <2>t, <2>12 DEF RetryContext
  <2>13. CASE ReadHash(o) BY <1>0, <2>t, <2>13 DEF ReadHash
  <2>14. CASE UpdateScript(o) BY <1>0, <2>t, <2>14 DEF UpdateScript, LoseRace
  <2>15. CASE CreateScript(o) BY <1>0, <2>t, <2>15 DEF CreateScript
  <2>16. CASE CreateMulti(o) BY <1>0, <2>t, <2>16 DEF CreateMulti
  <2>17. CASE ReadHint(o) BY <1>0, <2>t, <2>17 DEF ReadHint, AfterDelete, RowsKnown
  <2>18. CASE DeleteMulti(o) BY <1>0, <2>t, <2>18 DEF DeleteMulti, AfterDelete
  <2>19. CASE ListContext(o) BY <1>0, <2>t, <2>19 DEF ListContext, TypeOK
  <2>20. CASE DeleteNext(o) BY <1>0, <2>t, <2>20 DEF DeleteNext, TypeOK
  <2>21. CASE DropIndex(o) BY <1>0, <2>t, <2>21 DEF DropIndex
  <2>22. CASE SetContext(o) BY <1>0, <2>t, <2>22 DEF SetContext
  <2> QED
    BY <1>0, <2>c, <2>1, <2>2, <2>3, <2>4, <2>5, <2>6, <2>7, <2>8, <2>9, <2>10, <2>11, <2>12,
       <2>13, <2>14, <2>15, <2>16, <2>17, <2>18, <2>19, <2>20, <2>21, <2>22
       DEF SqlStep, RedisStep
<1> QED BY <1>1, <1>2 DEF Located

\* What a call has read stays the present row or an older one.
LEMMA PastStep ==
  ASSUME StoreInv, NEW o \in Calls, Sql(o) \/ Redis(o)
  PROVE  ReadsArePast'
<1>0. /\ TypeOK /\ used \subseteq Tasks /\ LocatedAt(o) /\ PastAt(o)
      /\ \A t \in used : Successor(t)
      /\ backend' = backend
      /\ SqlStep(o) \/ RedisStep(o)
  BY Evolves DEF StoreInv, SharedTypeOK, TypeOK, Located, ReadsArePast, Sql, Redis
<1>t. /\ pc \in [Calls -> Labels] /\ target \in [Calls -> Tasks \cup {Nil}]
      /\ rows \in [Tasks -> Rows] /\ got \in [Calls -> Rows] /\ expected \in [Calls -> Nat]
  BY <1>0 DEF TypeOK
<1>1. ASSUME NEW p \in Calls \ {o} PROVE PastAt(p)'
  <2>1. Apart(o) BY <1>0, Frame
  <2>2. PastAt(p) /\ LocatedAt(p) BY DEF StoreInv, ReadsArePast, Located
  <2>3. CASE pc[p] \in {"read", "write"}
    <3>1. target[p] \in used /\ target[p] \in Tasks BY <1>0, <2>2, <2>3 DEF LocatedAt
    <3>2. Successor(target[p]) BY <1>0, <3>1
    <3>3. /\ rows[target[p]].version \in Nat /\ got[p].version \in Nat
          /\ expected[p] \in Nat
      BY <1>t, <3>1 DEF Rows
    <3> DEFINE v == rows[target[p]]
               w == rows'[target[p]]
    <3>4. w = v \/ w.version = 0 \/ (v.version > 0 /\ w.version = v.version + 1)
      BY <3>2 DEF Successor, Live
    <3>5. /\ pc'[p] = pc[p] /\ got'[p] = got[p] /\ arg'[p] = arg[p] /\ target'[p] = target[p]
          /\ expected'[p] = expected[p]
      BY <2>1 DEF Apart
    <3>6. /\ pc[p] = "write" /\ w.version > 0 =>
               got[p].version <= w.version /\ (got[p].version = w.version => got[p] = w)
          /\ pc[p] = "read" /\ arg[p].kind = "pinned" /\ w.version > 0 =>
               expected[p] <= w.version
      <4>1. CASE w = v BY <2>2, <4>1 DEF PastAt, Live
      <4>2. CASE w.version = 0 BY <4>2
      <4>3. CASE v.version > 0 /\ w.version = v.version + 1
        BY <2>2, <3>3, <4>3 DEF PastAt, Live
      <4> QED BY <3>4, <4>1, <4>2, <4>3
    <3> QED BY <1>0, <2>2, <3>5, <3>6 DEF PastAt, Live, Guarded
  <2>4. CASE pc[p] \notin {"read", "write"} BY <2>1, <2>4 DEF Apart, PastAt
  <2> QED BY <2>3, <2>4
<1>2. PastAt(o)'
  <2> USE DEF Goto, Return, storeVars, updateVars, redisVars
  <2>c. CASE Call(o) BY <1>0, <2>c, Begins DEF PastAt
  <2>1. CASE GetVersion(o)
    <3>1. CASE Live(target[o])
      <4>1. /\ pc'[o] = "read" /\ rows' = rows /\ target' = target
            /\ expected'[o] = rows[target[o]].version
        BY <1>t, <2>1, <3>1 DEF GetVersion
      <4>2. rows[target[o]].version \in Nat
        BY <1>0, <1>t, <2>1 DEF GetVersion, LocatedAt, Rows
      <4> QED BY <4>1, <4>2 DEF PastAt, Live
    <3>2. CASE ~Live(target[o]) BY <1>t, <2>1, <3>2 DEF GetVersion, PastAt
    <3> QED BY <3>1, <3>2
  <2>r. ASSUME pc[o] = "read" PROVE target[o] \in Tasks /\ rows[target[o]].version \in Nat
    BY <1>0, <1>t, <2>r DEF LocatedAt, Rows
  <2>2. CASE backend = "sql" /\ SelectRow(o)
    <3>1. CASE pc'[o] = "write"
      <4>1. /\ got'[o] = rows[target[o]] /\ Live(target[o]) /\ rows' = rows
            /\ arg' = arg /\ target' = target /\ expected' = expected
            /\ arg[o].kind = "blind" \/ rows[target[o]].version = expected[o]
            /\ ~Guarded(rows[target[o]], arg[o].state)
        BY <1>t, <2>2, <3>1 DEF SelectRow, Remember
      <4>2. rows[target[o]].version \in Nat BY <2>r, <2>2 DEF SelectRow
      <4>3. arg[o].kind = "pinned" => expected[o] = rows[target[o]].version BY <4>1
      <4> QED BY <3>1, <4>1, <4>2, <4>3 DEF PastAt, Live, Guarded
    <3>2. CASE pc'[o] # "write" BY <1>t, <2>2, <3>2 DEF SelectRow, PastAt
    <3> QED BY <3>1, <3>2
  <2>3. CASE backend = "redis" /\ ReadHash(o)
    <3>1. CASE pc'[o] = "write"
      <4>1. /\ got'[o] = rows[target[o]] /\ Live(target[o]) /\ rows' = rows
            /\ arg' = arg /\ target' = target /\ expected' = expected /\ pc[o] = "read"
        BY <1>t, <2>3, <3>1 DEF ReadHash, Remember
      <4>2. rows[target[o]].version \in Nat BY <2>r, <4>1
      <4>3. arg[o].kind = "pinned" => expected[o] <= rows[target[o]].version
        BY <1>0, <4>1 DEF PastAt
      <4> QED BY <1>0, <2>3, <3>1, <4>1, <4>2, <4>3 DEF PastAt, Live
    <3>2. CASE pc'[o] # "write" BY <1>t, <2>3, <3>2 DEF ReadHash, PastAt
    <3> QED BY <3>1, <3>2
  <2>4. CASE UpdateGuarded(o) \/ UpdateScript(o)
    <3>1. pc'[o] = "done" \/ (pc'[o] = "read" /\ arg'[o].kind = "blind")
      BY <1>t, <2>4 DEF UpdateGuarded, UpdateScript, LoseRace
    <3> QED BY <3>1 DEF PastAt
  <2>5. CASE ReadHint(o) \/ DeleteMulti(o)
    BY <1>t, <2>5 DEF PastAt, ReadHint, DeleteMulti, AfterDelete
  <2>6. CASE \/ InsertIdempotent(o) \/ FetchBack(o) \/ InsertPlain(o) \/ LoadCreated(o)
             \/ DeleteRow(o) \/ DeleteContext(o) \/ UpdateContext(o) \/ InsertContext(o)
             \/ RetryContext(o)
    BY <1>t, <2>6 DEF PastAt, InsertIdempotent, FetchBack, InsertPlain, LoadCreated,
       DeleteRow, DeleteContext, UpdateContext, InsertContext, RetryContext
  <2>7. CASE \/ CreateScript(o) \/ CreateMulti(o) \/ ListContext(o) \/ DeleteNext(o)
             \/ DropIndex(o) \/ SetContext(o)
    BY <1>t, <2>7 DEF PastAt, CreateScript, CreateMulti, ListContext, DeleteNext,
       DropIndex, SetContext
  <2> QED
    BY <2>c, <2>1, <2>2, <2>3, <2>4, <2>5, <2>6, <2>7 DEF Sql, Redis, SqlStep, RedisStep
<1> QED BY <1>1, <1>2 DEF ReadsArePast

-----------------------------------------------------------------------------
(* The store is versioned                                                  *)

\* The expiry of an idempotency key touches no row and no call.
LEMMA ExpireStep ==
  ASSUME StoreInv, NEW c \in Contexts, NEW k \in Keys, Expire(c, k)
  PROVE  StoreInv' /\ UNCHANGED <<storeVars, callVars, backend>>
<1>1. UNCHANGED <<storeVars, callVars, backend, ctxData, index>>
  BY DEF Expire, ExpireKey
<1>2. /\ idem' \in [Contexts \X Keys -> Tasks \cup {Nil}]
      /\ forgotten' \subseteq (Contexts \X Keys)
  BY DEF Expire, ExpireKey, StoreInv, SharedTypeOK, TypeOK
<1>3. SharedTypeOK'
  BY <1>1, <1>2 DEF StoreInv, SharedTypeOK, TypeOK, storeVars, callVars, updateVars
<1>4. Located' /\ RowsKnown' /\ ReadsArePast'
  BY <1>1 DEF StoreInv, Located, LocatedAt, RowsKnown, ReadsArePast, PastAt, Live, Guarded,
     storeVars, callVars, updateVars
<1> QED BY <1>1, <1>3, <1>4 DEF StoreInv

\* A step that changes nothing.
LEMMA StoreStutters ==
  ASSUME StoreInv, UNCHANGED allVars
  PROVE  StoreInv'
BY DEF StoreInv, SharedTypeOK, TypeOK, Located, LocatedAt, RowsKnown, ReadsArePast, PastAt,
   Live, Guarded, allVars, vars, storeVars, callVars, updateVars, redisVars

\* The invariant holds when the server starts.
LEMMA StoreInvInit == SharedInit => StoreInv
<1> SUFFICES ASSUME SharedInit PROVE StoreInv OBVIOUS
<1>1. SharedTypeOK
  <2>1. rows \in [Tasks -> Rows] /\ got \in [Calls -> Rows]
    BY FreshRows DEF SharedInit, Init, StoreInit
  <2>2. arg \in [Calls -> Args] BY DEF SharedInit, Init, Args
  <2>3. pc \in [Calls -> Labels] /\ out \in [Calls -> Outcomes]
    BY DEF SharedInit, Init, Labels, Outcomes
  <2> QED BY <2>1, <2>2, <2>3 DEF SharedInit, Init, StoreInit, SharedTypeOK, TypeOK
<1>2. Located /\ ReadsArePast
  BY DEF SharedInit, Init, Located, LocatedAt, ReadsArePast, PastAt
<1>3. RowsKnown BY FreshRows DEF SharedInit, Init, StoreInit, RowsKnown, Live
<1> QED BY <1>1, <1>2, <1>3 DEF StoreInv

\* Every step of the deployment preserves it.
LEMMA StoreInvStep == StoreInv /\ [SharedNext]_allVars => StoreInv'
<1> SUFFICES ASSUME StoreInv, [SharedNext]_allVars PROVE StoreInv' OBVIOUS
<1>1. ASSUME NEW o \in Calls, Sql(o) \/ Redis(o) PROVE StoreInv'
  <2>1. SharedTypeOK'
    BY <1>1, StepTypes DEF StoreInv, SharedTypeOK, Sql, Redis
  <2> QED BY <1>1, <2>1, LocatedStep, RowsKnownStep, PastStep DEF StoreInv
<1>2. ASSUME NEW c \in Contexts, NEW k \in Keys, Expire(c, k) PROVE StoreInv'
  BY <1>2, ExpireStep
<1> QED BY <1>1, <1>2, StoreStutters DEF SharedNext

\* Every variable of both backends keeps its type.
THEOREM SharedTypeCorrect == SharedSpec => []SharedTypeOK
<1>1. StoreInv => SharedTypeOK BY DEF StoreInv
<1> QED BY <1>1, StoreInvInit, StoreInvStep, PTL DEF SharedSpec

\* update_task of either backend is atomic: every behaviour of the round
\* trips is a behaviour of the versioned store.
THEOREM StoreImplemented == SharedSpec => ImplementsVersionedStore
<1>1. SharedInit => StoreInit BY DEF SharedInit, Init
<1>2. StoreInv /\ [SharedNext]_allVars => [StoreNext]_storeVars
  <2> SUFFICES ASSUME StoreInv, [SharedNext]_allVars PROVE [StoreNext]_storeVars
    OBVIOUS
  <2>1. ASSUME NEW o \in Calls, Sql(o) \/ Redis(o) PROVE [StoreNext]_storeVars
    <3>1. CASE UNCHANGED storeVars BY <3>1
    <3>2. CASE Writes(o) BY <3>2 DEF Writes, StoreNext
    <3>3. CASE Creates(o) BY <3>3 DEF Creates, StoreNext
    <3>4. CASE \E ts \in SUBSET Tasks : Remove(ts) BY <3>4 DEF StoreNext
    <3> QED BY <2>1, <3>1, <3>2, <3>3, <3>4, StoreEffect
  <2>2. ASSUME NEW c \in Contexts, NEW k \in Keys, Expire(c, k) PROVE UNCHANGED storeVars
    BY <2>2, ExpireStep
  <2>3. CASE UNCHANGED allVars BY <2>3 DEF allVars, vars
  <2> QED BY <2>1, <2>2, <2>3 DEF SharedNext
<1> QED
  BY <1>1, <1>2, StoreInvInit, StoreInvStep, PTL
     DEF SharedSpec, ImplementsVersionedStore, StoreSpec

-----------------------------------------------------------------------------
(* Updates are applied once                                                *)

\* Where the merge of call o is in the row of task t.
InLog(t, o) == {i \in DOMAIN rows[t].log : rows[t].log[i] = o}

\* update_task is about a task that was created, and has its own places.
UpdatesPlaced ==
  \A o \in Calls :
    arg[o].kind \in Updates =>
      target[o] \in used /\ pc[o] \in {"get_version", "read", "write", "done"}

\* A call that has not returned a version is in no row; an update that has is
\* in its row once.
LogAt(o) ==
  /\ out[o] # "ok" => \A t \in Tasks : InLog(t, o) = {}
  /\ out[o] = "ok" /\ arg[o].kind \in Updates /\ Live(target[o]) =>
       \E i \in Nat : InLog(target[o], o) = {i}

LogInv == UpdatesPlaced /\ \A o \in Calls : LogAt(o)

\* Appending to a log.
LEMMA AppendLog ==
  ASSUME NEW s \in Seq(Calls), NEW o \in Calls
  PROVE  /\ DOMAIN Append(s, o) = (DOMAIN s) \cup {Len(s) + 1}
         /\ Len(s) + 1 \notin DOMAIN s /\ Len(s) + 1 \in Nat
         /\ \A i \in DOMAIN s : Append(s, o)[i] = s[i]
         /\ Append(s, o)[Len(s) + 1] = o
OBVIOUS

\* No step makes an update of another call, and a call's own steps keep it
\* where updates are.
LEMMA UpdatesPlacedStep ==
  ASSUME StoreInv, LogInv, NEW o \in Calls, Sql(o) \/ Redis(o)
  PROVE  UpdatesPlaced'
<1>0. /\ TypeOK /\ used \subseteq used' /\ UpdatesPlaced
      /\ SqlStep(o) \/ RedisStep(o)
  BY Evolves DEF StoreInv, SharedTypeOK, LogInv, Sql, Redis
<1>1. Apart(o) BY <1>0, Frame
<1>t. /\ pc \in [Calls -> Labels] /\ target \in [Calls -> Tasks \cup {Nil}]
  BY <1>0 DEF TypeOK
<1>2. arg'[o].kind \in Updates =>
        target'[o] \in used /\ pc'[o] \in {"get_version", "read", "write", "done"}
  <2> USE DEF Goto, Return, storeVars, updateVars, redisVars
  <2>c. CASE Call(o)
    <3> USE DEF Begin, TypeOK, Updates
    <3>1. CASE CallUpdate(o) BY <1>0, <3>1 DEF CallUpdate
    <3>2. CASE CallCreate(o) BY <1>0, <3>2 DEF CallCreate
    <3>3. CASE CallDelete(o) BY <1>0, <3>3 DEF CallDelete
    <3>4. CASE CallDeleteContext(o) BY <1>0, <3>4 DEF CallDeleteContext
    <3>5. CASE CallUpdateContext(o) BY <1>0, <3>5 DEF CallUpdateContext
    <3> QED BY <2>c, <3>1, <3>2, <3>3, <3>4, <3>5 DEF Call
  <2>1. CASE GetVersion(o) BY <1>0, <1>t, <2>1 DEF GetVersion, UpdatesPlaced
  <2>2. CASE SelectRow(o) BY <1>0, <1>t, <2>2 DEF SelectRow, UpdatesPlaced
  <2>3. CASE UpdateGuarded(o) BY <1>0, <1>t, <2>3 DEF UpdateGuarded, LoseRace, UpdatesPlaced
  <2>4. CASE ReadHash(o) BY <1>0, <1>t, <2>4 DEF ReadHash, UpdatesPlaced
  <2>5. CASE UpdateScript(o) BY <1>0, <1>t, <2>5 DEF UpdateScript, LoseRace, UpdatesPlaced
  <2>6. CASE \/ InsertIdempotent(o) \/ FetchBack(o) \/ InsertPlain(o) \/ LoadCreated(o)
             \/ DeleteRow(o) \/ DeleteContext(o) \/ UpdateContext(o) \/ InsertContext(o)
             \/ RetryContext(o)
    BY <1>0, <2>6 DEF UpdatesPlaced, InsertIdempotent, FetchBack, InsertPlain, LoadCreated,
       DeleteRow, DeleteContext, UpdateContext, InsertContext, RetryContext
  <2>7. CASE \/ CreateScript(o) \/ CreateMulti(o) \/ ReadHint(o) \/ DeleteMulti(o)
             \/ ListContext(o) \/ DeleteNext(o) \/ DropIndex(o) \/ SetContext(o)
    BY <1>0, <2>7 DEF UpdatesPlaced, CreateScript, CreateMulti, ReadHint, DeleteMulti,
       ListContext, DeleteNext, DropIndex, SetContext
  <2> QED BY <1>0, <2>c, <2>1, <2>2, <2>3, <2>4, <2>5, <2>6, <2>7 DEF SqlStep, RedisStep
<1> QED BY <1>0, <1>1, <1>2 DEF Apart, UpdatesPlaced

\* An update returns a version only when it has written.
LEMMA OkMeansWritten ==
  ASSUME StoreInv, LogInv, NEW o \in Calls, Sql(o) \/ Redis(o),
         arg'[o].kind \in Updates, out'[o] = "ok"
  PROVE  Writes(o)
<1>0. /\ TypeOK /\ UpdatesPlaced /\ LocatedAt(o)
      /\ SqlStep(o) \/ RedisStep(o)
  BY DEF StoreInv, SharedTypeOK, LogInv, Sql, Redis, Located
<1>t. pc \in [Calls -> Labels] /\ out \in [Calls -> Outcomes] BY <1>0 DEF TypeOK
<1> USE DEF Goto, Return, storeVars, updateVars, redisVars
<1>c. CASE Call(o)
  <2>1. pc[o] = "idle" /\ out' = out BY <1>0, <1>c, Begins
  <2> QED BY <1>0, <2>1 DEF LocatedAt
<1>1. CASE GetVersion(o) BY <1>0, <1>t, <1>1 DEF GetVersion, LocatedAt
<1>2. CASE SelectRow(o) BY <1>0, <1>t, <1>2 DEF SelectRow, LocatedAt
<1>3. CASE ReadHash(o) BY <1>0, <1>t, <1>3 DEF ReadHash, LocatedAt
<1>4. CASE (backend = "sql" /\ UpdateGuarded(o)) \/ UpdateScript(o) BY <1>4, UpdateEffect
<1>6. CASE \/ InsertIdempotent(o) \/ FetchBack(o) \/ InsertPlain(o) \/ LoadCreated(o)
           \/ DeleteRow(o) \/ DeleteContext(o) \/ UpdateContext(o) \/ InsertContext(o)
           \/ RetryContext(o)
  BY <1>0, <1>6 DEF UpdatesPlaced, InsertIdempotent, FetchBack, InsertPlain, LoadCreated,
     DeleteRow, DeleteContext, UpdateContext, InsertContext, RetryContext
<1>7. CASE \/ CreateScript(o) \/ CreateMulti(o) \/ ReadHint(o) \/ DeleteMulti(o)
           \/ ListContext(o) \/ DeleteNext(o) \/ DropIndex(o) \/ SetContext(o)
  BY <1>0, <1>7 DEF UpdatesPlaced, CreateScript, CreateMulti, ReadHint, DeleteMulti,
     ListContext, DeleteNext, DropIndex, SetContext
<1> QED BY <1>c, <1>1, <1>2, <1>3, <1>4, <1>6, <1>7 DEF Sql, Redis, SqlStep, RedisStep

\* What a step does to the logs: it appends the writer, once, or starts and
\* ends with an empty log.
LEMMA LogsStep ==
  ASSUME StoreInv, NEW o \in Calls, Sql(o) \/ Redis(o), NEW t \in Tasks
  PROVE  \/ rows'[t] = rows[t]
         \/ t \in used /\ rows'[t].version = 0 /\ rows'[t].log = <<>>
         \/ t \notin used /\ rows'[t].log = <<>>
         \/ /\ Writes(o) /\ t = target[o] /\ Live(t)
            /\ rows[t].log \in Seq(Calls) /\ rows'[t].log = Append(rows[t].log, o)
<1>0. TypeOK /\ used \subseteq Tasks /\ rows \in [Tasks -> Rows] /\ RowsKnown
  BY DEF StoreInv, SharedTypeOK, TypeOK
<1>1. CASE UNCHANGED storeVars BY <1>1 DEF storeVars
<1>2. CASE Writes(o)
  <2>1. CASE t # target[o] BY <1>0, <1>2, <2>1 DEF Writes, Merge
  <2>2. CASE t = target[o]
    <3>1. rows'[t] = Merged(rows[t], o, arg[o].state) /\ Live(t)
      BY <1>0, <1>2, <2>2 DEF Writes, Merge
    <3>2. rows[t].log \in Seq(Calls) BY <1>0 DEF Rows
    <3> QED BY <1>2, <2>2, <3>1, <3>2 DEF Merged
  <2> QED BY <2>1, <2>2
<1>3. CASE Creates(o) BY <1>0, <1>3 DEF Creates, Insert, NewRow
<1>4. CASE \E ts \in SUBSET Tasks : Remove(ts)
  BY <1>0, <1>4 DEF Remove, AbsentRow
<1> QED BY <1>1, <1>2, <1>3, <1>4, StoreEffect

\* A call that has returned takes no step.
LEMMA OnceDone ==
  ASSUME StoreInv, NEW o \in Calls, Sql(o) \/ Redis(o)
  PROVE  pc[o] # "done" /\ out[o] = "pending"
<1>1. pc[o] # "done"
  BY DEF Sql, Redis, SqlStep, RedisStep, Call, CallUpdate, CallCreate, CallDelete,
     CallDeleteContext, CallUpdateContext, Begin, GetVersion, SelectRow, UpdateGuarded,
     InsertIdempotent, FetchBack, InsertPlain, LoadCreated, DeleteRow, DeleteContext,
     UpdateContext, InsertContext, RetryContext, ReadHash, UpdateScript, CreateScript,
     CreateMulti, ReadHint, DeleteMulti, ListContext, DeleteNext, DropIndex, SetContext
<1> QED BY <1>1 DEF StoreInv, Located, LocatedAt

\* The logs of either backend stay duplicate-free.
LEMMA LogStep ==
  ASSUME StoreInv, LogInv, NEW o \in Calls, Sql(o) \/ Redis(o)
  PROVE  LogInv'
<1>0. /\ TypeOK /\ used \subseteq Tasks /\ RowsKnown /\ UpdatesPlaced
      /\ SqlStep(o) \/ RedisStep(o)
      /\ \A p \in Calls : LogAt(p)
      /\ out[o] = "pending"
  BY OnceDone DEF StoreInv, SharedTypeOK, TypeOK, LogInv, Sql, Redis
<1>a. Apart(o) BY <1>0, Frame
<1>1. UpdatesPlaced' BY UpdatesPlacedStep
<1>2. ASSUME NEW p \in Calls \ {o}, NEW t \in Tasks
      PROVE  \/ InLog(t, p)' = InLog(t, p) /\ (Live(t)' => Live(t) \/ t \notin used)
             \/ InLog(t, p)' = {} /\ (t \notin used \/ ~Live(t)')
  <2>1. CASE rows'[t] = rows[t] BY <2>1 DEF InLog, Live
  <2>2. CASE rows'[t].log = <<>> /\ (t \notin used \/ rows'[t].version = 0)
    <3>1. DOMAIN rows'[t].log = {} BY <2>2
    <3> QED BY <2>2, <3>1 DEF InLog, Live
  <2>3. CASE /\ Writes(o) /\ t = target[o] /\ Live(t)
             /\ rows[t].log \in Seq(Calls) /\ rows'[t].log = Append(rows[t].log, o)
    <3>1. InLog(t, p)' = InLog(t, p) BY <2>3, AppendLog DEF InLog
    <3> QED BY <2>3, <3>1
  <2> QED BY <2>1, <2>2, <2>3, LogsStep
<1>3. ASSUME NEW p \in Calls \ {o} PROVE LogAt(p)'
  <2>1. LogAt(p) /\ (arg[p].kind \in Updates => target[p] \in used)
    BY <1>0 DEF UpdatesPlaced
  <2>2. out'[p] = out[p] /\ arg'[p] = arg[p] /\ target'[p] = target[p] BY <1>a DEF Apart
  <2>3. out'[p] # "ok" => \A t \in Tasks : InLog(t, p)' = {}
    BY <1>2, <2>1, <2>2 DEF LogAt
  <2>4. ASSUME out'[p] = "ok", arg'[p].kind \in Updates, Live(target[p])'
        PROVE  \E i \in Nat : InLog(target[p], p)' = {i}
    <3>1. target[p] \in used /\ target[p] \in Tasks BY <1>0, <2>1, <2>2, <2>4
    <3>2. Live(target[p])' BY <2>4
    <3>3. InLog(target[p], p)' = InLog(target[p], p) /\ Live(target[p])
      BY <1>2, <2>2, <2>4, <3>1, <3>2
    <3> QED BY <2>1, <2>2, <2>4, <3>3 DEF LogAt
  <2> QED BY <2>2, <2>3, <2>4 DEF LogAt, InLog, Live
<1>4. LogAt(o)'
  <2>1. \A t \in Tasks : InLog(t, o) = {} BY <1>0 DEF LogAt
  <2>2. CASE Writes(o)
    <3> DEFINE t == target[o]
               n == Len(rows[t].log) + 1
    <3>1. t \in Tasks /\ out'[o] = "ok" /\ target'[o] = target[o] BY <2>2 DEF Writes
    <3>2. rows[t].log \in Seq(Calls) /\ rows'[t].log = Append(rows[t].log, o)
      <4>1. rows[t] \in Rows BY <1>0, <3>1 DEF TypeOK
      <4>2. rows'[t] = Merged(rows[t], o, arg[o].state)
        BY <1>0, <2>2, <3>1 DEF Writes, Merge, TypeOK
      <4> QED BY <4>1, <4>2 DEF Merged, Rows
    <3>3. InLog(t, o)' = {n} /\ n \in Nat
      <4>1. \A i \in DOMAIN rows[t].log : rows[t].log[i] # o
        BY <2>1, <3>1 DEF InLog
      <4> QED BY <3>1, <3>2, <4>1, AppendLog DEF InLog
    <3> QED BY <3>1, <3>3 DEF LogAt, InLog
  <2>3. CASE ~Writes(o)
    <3>1. ~(out'[o] = "ok" /\ arg'[o].kind \in Updates) BY <2>3, OkMeansWritten
    <3>2. ASSUME NEW t \in Tasks PROVE InLog(t, o)' = {}
      <4>1. CASE rows'[t] = rows[t] BY <2>1, <4>1 DEF InLog
      <4>2. CASE rows'[t].log = <<>>
        <5>1. DOMAIN rows'[t].log = {} BY <4>2
        <5> QED BY <5>1 DEF InLog
      <4> QED BY <2>3, <4>1, <4>2, LogsStep
    <3> QED BY <3>1, <3>2 DEF LogAt
  <2> QED BY <2>2, <2>3
<1> QED BY <1>1, <1>3, <1>4 DEF LogInv

\* An update that returned is in its row exactly once, one that raised left
\* no trace, whatever the other calls do and however often it was retried.
THEOREM UpdatesAppliedOnce == SharedSpec => []AppliedOnce
<1>1. SharedInit => LogInv
  <2> SUFFICES ASSUME SharedInit PROVE LogInv OBVIOUS
  <2>1. \A o \in Calls : out[o] = "pending" /\ arg[o].kind \notin Updates
    BY DEF SharedInit, Init, Updates, None
  <2>2. ASSUME NEW t \in Tasks PROVE DOMAIN rows[t].log = {}
    <3>1. rows[t].log = <<>> BY DEF SharedInit, Init, StoreInit, AbsentRow
    <3> QED BY <3>1
  <2> QED BY <2>1, <2>2 DEF LogInv, UpdatesPlaced, LogAt, InLog
<1>2. StoreInv /\ LogInv /\ [SharedNext]_allVars => LogInv'
  <2> SUFFICES ASSUME StoreInv, LogInv, [SharedNext]_allVars PROVE LogInv' OBVIOUS
  <2>1. ASSUME NEW o \in Calls, Sql(o) \/ Redis(o) PROVE LogInv' BY <2>1, LogStep
  <2>2. ASSUME UNCHANGED <<storeVars, callVars, backend>> PROVE LogInv'
    BY <2>2 DEF LogInv, UpdatesPlaced, LogAt, InLog, Live, storeVars, callVars, updateVars
  <2>3. ASSUME NEW c \in Contexts, NEW k \in Keys, Expire(c, k) PROVE LogInv'
    BY <2>2, <2>3, ExpireStep
  <2>4. CASE UNCHANGED allVars BY <2>2, <2>4 DEF allVars, vars
  <2> QED BY <2>1, <2>3, <2>4 DEF SharedNext
<1>3. StoreInv /\ LogInv => AppliedOnce
  <2> SUFFICES ASSUME StoreInv, LogInv, NEW o \in Calls, arg[o].kind \in Updates
               PROVE  /\ out[o] = "ok" /\ Live(target[o]) => Cardinality(Applied(o)) = 1
                      /\ out[o] # "ok" => Applied(o) = {}
    BY DEF AppliedOnce
  <2>1. LogAt(o) /\ target[o] \in Tasks
    BY DEF LogInv, UpdatesPlaced, StoreInv, SharedTypeOK, TypeOK
  <2>2. Applied(o) = InLog(target[o], o) BY DEF Applied, InLog
  <2>3. ASSUME out[o] = "ok", Live(target[o]) PROVE Cardinality(Applied(o)) = 1
    <3>1. PICK i \in Nat : Applied(o) = {i} BY <2>1, <2>2, <2>3 DEF LogAt
    <3> QED BY <3>1, FS_Singleton
  <2> QED BY <2>1, <2>2, <2>3 DEF LogAt
<1> QED BY <1>1, <1>2, <1>3, StoreInvInit, StoreInvStep, PTL DEF SharedSpec

-----------------------------------------------------------------------------
(* Idempotency keys                                                        *)

KeyOf(t) == <<rows[t].ctx, rows[t].key>>

\* A delete_task that is about to remove knows the key of the task, as long
\* as the task is there.
HintAt(o) ==
  pc[o] = "remove" /\ Live(target[o]) =>
    got[o].ctx = rows[target[o]].ctx /\ got[o].key = rows[target[o]].key

\* SQL keeps no keys of its own: the unique index is on the rows.
KeysOfSql ==
  backend = "sql" => OneTaskPerKey /\ \A ck \in Contexts \X Keys : idem[ck] = Nil

\* Redis has the key of every task that has one, unless it was forgotten.
KeysOfRedis ==
  backend = "redis" =>
    \A t \in Tasks : Live(t) /\ rows[t].key # Nil /\ KeyOf(t) \notin forgotten =>
      idem[KeyOf(t)] = t

KeyInv == (\A o \in Calls : HintAt(o)) /\ KeyLeadsToTask /\ KeysOfSql /\ KeysOfRedis

\* The steps that change neither the keys nor which tasks there are.
Preserving ==
  /\ idem' = idem /\ forgotten' = forgotten
  /\ \A t \in Tasks : Live(t)' = Live(t) /\ (Live(t) => KeyOf(t)' = KeyOf(t))

\* The keys and their tasks are related as before when no task came or went.
LEMMA PreservingStep ==
  ASSUME StoreInv, KeyInv, Preserving, backend' = backend
  PROVE  KeyLeadsToTask' /\ KeysOfSql' /\ KeysOfRedis'
<1>0. idem \in [Contexts \X Keys -> Tasks \cup {Nil}] BY DEF StoreInv, SharedTypeOK, TypeOK
<1>k. \A t \in Tasks : Live(t) => rows'[t].ctx = rows[t].ctx /\ rows'[t].key = rows[t].key
  BY DEF Preserving, KeyOf
<1>1. KeyLeadsToTask'
  <2> SUFFICES ASSUME NEW ck \in Contexts \X Keys, idem[ck] # Nil
               PROVE  Live(idem[ck])' /\ <<rows'[idem[ck]].ctx, rows'[idem[ck]].key>> = ck
    BY <1>0 DEF KeyLeadsToTask, Preserving, Live
  <2>1. idem[ck] \in Tasks BY <1>0
  <2>2. Live(idem[ck]) /\ <<rows[idem[ck]].ctx, rows[idem[ck]].key>> = ck
    BY <1>0 DEF KeyInv, KeyLeadsToTask
  <2> QED BY <1>k, <2>1, <2>2 DEF Preserving
<1>2. KeysOfSql'
  <2>1. ASSUME OneTaskPerKey PROVE OneTaskPerKey'
    <3> SUFFICES ASSUME NEW t \in Tasks, NEW u \in Tasks, Live(t)', Live(u)',
                        rows'[t].ctx = rows'[u].ctx, rows'[t].key = rows'[u].key,
                        rows'[t].key # Nil, <<rows'[t].ctx, rows'[t].key>> \notin forgotten'
                 PROVE  t = u
      BY DEF OneTaskPerKey
    <3>1. Live(t) /\ Live(u) BY DEF Preserving
    <3> QED BY <1>k, <2>1, <3>1 DEF OneTaskPerKey, Preserving
  <2> QED BY <2>1 DEF KeyInv, KeysOfSql, Preserving
<1>3. KeysOfRedis' BY <1>k DEF KeyInv, KeysOfRedis, Preserving, KeyOf
<1> QED BY <1>1, <1>2, <1>3

\* Steps that leave the rows or merge into one.
LEMMA QuietPreserves ==
  ASSUME StoreInv, NEW o \in Calls, UNCHANGED storeVars \/ Writes(o),
         idem' = idem, forgotten' = forgotten
  PROVE  Preserving
<1>0. rows \in [Tasks -> Rows] BY DEF StoreInv, SharedTypeOK, TypeOK
<1>1. CASE UNCHANGED storeVars BY <1>1 DEF storeVars, Preserving, Live, KeyOf
<1>2. CASE Writes(o)
  <2>1. target[o] \in Tasks /\ Live(target[o]) BY <1>2 DEF Writes, Merge
  <2>2. rows[target[o]] \in Rows BY <1>0, <2>1
  <2>3. rows'[target[o]] = Merged(rows[target[o]], o, arg[o].state)
    BY <1>0, <1>2, <2>1 DEF Writes, Merge
  <2>4. /\ rows'[target[o]].version = rows[target[o]].version + 1
        /\ rows'[target[o]].ctx = rows[target[o]].ctx
        /\ rows'[target[o]].key = rows[target[o]].key
    BY <2>3 DEF Merged
  <2>5. rows[target[o]].version \in Nat BY <2>2 DEF Rows
  <2>6. \A t \in Tasks : t # target[o] => rows'[t] = rows[t]
    BY <1>0, <1>2 DEF Writes, Merge
  <2> QED
    <3> SUFFICES ASSUME NEW t \in Tasks
                 PROVE  Live(t)' = Live(t) /\ (Live(t) => KeyOf(t)' = KeyOf(t))
      BY DEF Preserving
    <3>1. CASE t = target[o]
      BY <2>1, <2>4, <2>5, <3>1 DEF Live, KeyOf
    <3>2. CASE t # target[o] BY <2>6, <3>2 DEF Live, KeyOf
    <3> QED BY <3>1, <3>2
<1> QED BY <1>1, <1>2

\* What delete_task has read of a task stays true of it.
LEMMA HintStep ==
  ASSUME StoreInv, KeyInv, NEW o \in Calls, Sql(o) \/ Redis(o)
  PROVE  (\A p \in Calls : HintAt(p))'
<1>0. /\ TypeOK /\ used \subseteq Tasks /\ LocatedAt(o) /\ RowsKnown
      /\ \A t \in used : Successor(t)
      /\ SqlStep(o) \/ RedisStep(o)
  BY Evolves DEF StoreInv, SharedTypeOK, TypeOK, Located, Sql, Redis
<1>t. /\ pc \in [Calls -> Labels] /\ target \in [Calls -> Tasks \cup {Nil}]
      /\ rows \in [Tasks -> Rows] /\ got \in [Calls -> Rows]
  BY <1>0 DEF TypeOK
<1>1. ASSUME NEW p \in Calls \ {o} PROVE HintAt(p)'
  <2>1. Apart(o) BY <1>0, Frame
  <2>2. HintAt(p) /\ LocatedAt(p) BY DEF KeyInv, StoreInv, Located
  <2>3. CASE pc[p] = "remove"
    <3>1. Successor(target[p]) BY <1>0, <2>2, <2>3 DEF LocatedAt
    <3> QED BY <2>1, <2>2, <2>3, <3>1 DEF HintAt, Apart, Successor, Live
  <2>4. CASE pc[p] # "remove" BY <2>1, <2>4 DEF Apart, HintAt
  <2> QED BY <2>3, <2>4
<1>2. HintAt(o)'
  <2> USE DEF Goto, Return, storeVars, updateVars, redisVars
  <2>c. CASE Call(o) BY <1>0, <2>c, Begins DEF HintAt
  <2>1. CASE ReadHint(o)
    <3>1. CASE Live(target[o])
      BY <1>t, <2>1, <3>1 DEF ReadHint, HintAt
    <3>2. CASE ~Live(target[o])
      BY <1>t, <2>1, <3>2 DEF ReadHint, AfterDelete, HintAt
    <3> QED BY <3>1, <3>2
  <2>2. CASE DeleteMulti(o) BY <1>t, <2>2 DEF DeleteMulti, AfterDelete, HintAt
  <2>3. CASE \/ GetVersion(o) \/ SelectRow(o) \/ UpdateGuarded(o) \/ InsertIdempotent(o)
             \/ FetchBack(o) \/ InsertPlain(o) \/ LoadCreated(o)
             \/ DeleteRow(o) \/ DeleteContext(o) \/ UpdateContext(o) \/ InsertContext(o)
             \/ RetryContext(o)
    BY <1>t, <2>3 DEF HintAt, GetVersion, SelectRow, UpdateGuarded, LoseRace,
       InsertIdempotent, FetchBack, InsertPlain, LoadCreated,
       DeleteRow, DeleteContext, UpdateContext, InsertContext, RetryContext
  <2>4. CASE \/ ReadHash(o) \/ UpdateScript(o) \/ CreateScript(o) \/ CreateMulti(o)
             \/ ListContext(o) \/ DeleteNext(o) \/ DropIndex(o) \/ SetContext(o)
    BY <1>t, <2>4 DEF HintAt, ReadHash, UpdateScript, LoseRace, CreateScript, CreateMulti,
       ListContext, DeleteNext, DropIndex, SetContext
  <2> QED BY <1>0, <2>c, <2>1, <2>2, <2>3, <2>4 DEF SqlStep, RedisStep
<1> QED BY <1>1, <1>2

\* A task that goes takes no other task's place.
LEMMA RemovePreserves ==
  ASSUME StoreInv, NEW ts \in SUBSET Tasks, Remove(ts)
  PROVE  \A t \in Tasks : Live(t)' => Live(t) /\ t \notin ts /\ rows'[t] = rows[t]
BY DEF Remove, Live, AbsentRow

\* A new task is the only one that comes.
LEMMA InsertPreserves ==
  ASSUME StoreInv, NEW t \in Tasks, NEW c \in Contexts, NEW k \in Keys \cup {Nil},
         Insert(t, c, k)
  PROVE  /\ ~Live(t) /\ rows'[t].version > 0 /\ rows'[t].ctx = c /\ rows'[t].key = k
         /\ \A u \in Tasks \ {t} : rows'[u] = rows[u]
<1>1. rows \in [Tasks -> Rows] /\ RowsKnown BY DEF StoreInv, SharedTypeOK, TypeOK
<1>2. rows'[t] = NewRow(c, k) BY <1>1 DEF Insert
<1> QED BY <1>1, <1>2 DEF Insert, RowsKnown, NewRow

\* SQL: the unique index admits one task per key.
LEMMA SqlKeyStep ==
  ASSUME StoreInv, KeyInv, NEW o \in Calls, Sql(o)
  PROVE  KeyLeadsToTask' /\ KeysOfSql' /\ KeysOfRedis'
<1>0. /\ TypeOK /\ LocatedAt(o) /\ RowsKnown /\ backend = "sql" /\ backend' = backend
      /\ OneTaskPerKey /\ \A ck \in Contexts \X Keys : idem[ck] = Nil
      /\ idem \in [Contexts \X Keys -> Tasks \cup {Nil}]
      /\ SqlStep(o)
  BY DEF StoreInv, SharedTypeOK, TypeOK, Located, Sql, KeyInv, KeysOfSql
<1>1. idem' = idem /\ forgotten' = forgotten
  <2>1. CASE Call(o) BY <1>0, <2>1, Begins
  <2>2. CASE ~Call(o)
    BY <1>0, <2>2 DEF SqlStep, GetVersion, SelectRow, UpdateGuarded, InsertIdempotent,
       FetchBack, InsertPlain, LoadCreated, DeleteRow, DeleteContext, UpdateContext,
       InsertContext, RetryContext, redisVars
  <2> QED BY <2>1, <2>2
<1>2. OneTaskPerKey'
  <2> DEFINE Pair(t, u) ==
        /\ Live(t)' /\ Live(u)'
        /\ rows'[t].ctx = rows'[u].ctx /\ rows'[t].key = rows'[u].key
        /\ rows'[t].key # Nil /\ <<rows'[t].ctx, rows'[t].key>> \notin forgotten
  <2> SUFFICES ASSUME NEW t \in Tasks, NEW u \in Tasks, Pair(t, u) PROVE t = u
    BY <1>1 DEF OneTaskPerKey
  <2>1. CASE UNCHANGED storeVars \/ Writes(o)
    <3>1. Preserving BY <1>1, <2>1, QuietPreserves
    <3>2. KeysOfSql' BY <1>0, <3>1, PreservingStep
    <3> QED BY <1>0, <1>1, <3>2 DEF KeysOfSql, OneTaskPerKey
  <2>2. CASE \E ts \in SUBSET Tasks : Remove(ts)
    <3>1. Live(t) /\ rows'[t] = rows[t] /\ Live(u) /\ rows'[u] = rows[u]
      BY <2>2, RemovePreserves
    <3> QED BY <1>0, <3>1 DEF OneTaskPerKey
  <2>3. CASE Creates(o)
    <3> DEFINE n == target[o]
    <3>1. /\ n \in Tasks /\ rows'[n].ctx = arg[o].ctx /\ rows'[n].key = arg[o].key
          /\ \A w \in Tasks \ {n} : rows'[w] = rows[w]
          /\ pc[o] = "insert"
      BY <2>3, InsertPreserves DEF Creates
    <3>2. \A w \in Tasks \ {n} : Live(w)' = Live(w) BY <3>1 DEF Live
    <3>3. CASE (t = n /\ u # n) \/ (u = n /\ t # n)
      <4> DEFINE w == IF t = n THEN u ELSE t
      <4>1. w \in Tasks /\ w # n /\ Live(w) BY <3>2, <3>3
      <4>2. rows[w].ctx = arg[o].ctx /\ rows[w].key = arg[o].key /\ arg[o].key # Nil
        BY <3>1, <3>3, <4>1
      <4>3. SameKey(o) # {} BY <4>1, <4>2 DEF SameKey
      <4>4. CASE InsertIdempotent(o)
        <5>1. UNCHANGED storeVars BY <4>3, <4>4 DEF InsertIdempotent
        <5> QED BY <2>1, <5>1
      <4>5. CASE InsertPlain(o) BY <4>2, <4>5 DEF InsertPlain
      <4>6. InsertIdempotent(o) \/ InsertPlain(o)
        BY <1>0, <3>1 DEF SqlStep, Call, CallUpdate, CallCreate, CallDelete,
           CallDeleteContext, CallUpdateContext, Begin, GetVersion, SelectRow, UpdateGuarded,
           FetchBack, LoadCreated, DeleteRow, DeleteContext, UpdateContext, InsertContext,
           RetryContext
      <4> QED BY <4>4, <4>5, <4>6
    <3>4. CASE t # n /\ u # n BY <1>0, <3>1, <3>2, <3>4 DEF OneTaskPerKey
    <3>5. CASE t = n /\ u = n BY <3>5
    <3> QED BY <3>3, <3>4, <3>5
  <2> QED BY <2>1, <2>2, <2>3, StoreEffect
<1> QED BY <1>0, <1>1, <1>2 DEF KeyLeadsToTask, KeysOfSql, KeysOfRedis

\* Redis: CreateScript sets the key of the task it creates.
LEMMA CreateScriptKeys ==
  ASSUME StoreInv, KeyInv, NEW o \in Calls, backend = "redis", backend' = backend,
         CreateScript(o)
  PROVE  KeyLeadsToTask' /\ KeysOfSql' /\ KeysOfRedis'
<1> DEFINE ck == <<arg[o].ctx, arg[o].key>>
           n == target[o]
<1>0. /\ TypeOK /\ LocatedAt(o) /\ RowsKnown /\ rows \in [Tasks -> Rows]
      /\ idem \in [Contexts \X Keys -> Tasks \cup {Nil}]
      /\ KeyLeadsToTask /\ KeysOfRedis
  BY DEF StoreInv, SharedTypeOK, TypeOK, Located, KeyInv
<1>1. /\ n \in Tasks /\ arg[o].ctx \in Contexts /\ arg[o].key \in Keys
  BY <1>0 DEF CreateScript, LocatedAt, TypeOK, Args
<1>2. CASE idem[ck] # Nil
  <2>1. UNCHANGED storeVars /\ idem' = idem /\ forgotten' = forgotten
    BY <1>2 DEF CreateScript
  <2>2. Preserving BY <2>1, QuietPreserves
  <2> QED BY <2>2, PreservingStep
<1>3. CASE idem[ck] = Nil
  <2>1. /\ Insert(n, arg[o].ctx, arg[o].key)
        /\ idem' = [idem EXCEPT ![ck] = n] /\ forgotten' = forgotten
    BY <1>3 DEF CreateScript
  <2>2. /\ ~Live(n) /\ rows'[n].version > 0
        /\ rows'[n].ctx = arg[o].ctx /\ rows'[n].key = arg[o].key
        /\ \A u \in Tasks \ {n} : rows'[u] = rows[u]
    BY <1>1, <2>1, InsertPreserves
  <2>3. idem'[ck] = n /\ \A x \in Contexts \X Keys : x # ck => idem'[x] = idem[x]
    BY <1>0, <1>1, <2>1
  <2>4. KeyLeadsToTask'
    <3> SUFFICES ASSUME NEW x \in Contexts \X Keys, idem'[x] # Nil
                 PROVE  /\ rows'[idem'[x]].version > 0
                        /\ <<rows'[idem'[x]].ctx, rows'[idem'[x]].key>> = x
      BY <1>0, <2>1 DEF KeyLeadsToTask, Live
    <3>1. CASE x = ck BY <2>2, <2>3, <3>1
    <3>2. CASE x # ck
      <4>1. idem[x] # Nil /\ idem'[x] = idem[x] /\ idem[x] \in Tasks BY <1>0, <2>3, <3>2
      <4>2. Live(idem[x]) /\ <<rows[idem[x]].ctx, rows[idem[x]].key>> = x
        BY <1>0, <4>1 DEF KeyLeadsToTask
      <4>3. idem[x] # n BY <2>2, <4>2
      <4> QED BY <2>2, <4>1, <4>2, <4>3 DEF Live
    <3> QED BY <3>1, <3>2
  <2>5. KeysOfRedis'
    <3> SUFFICES ASSUME NEW t \in Tasks, rows'[t].version > 0, rows'[t].key # Nil,
                        <<rows'[t].ctx, rows'[t].key>> \notin forgotten
                 PROVE  idem'[<<rows'[t].ctx, rows'[t].key>>] = t
      BY <2>1 DEF KeysOfRedis, KeyOf, Live
    <3>1. CASE t = n BY <2>2, <2>3, <3>1
    <3>2. CASE t # n
      <4>1. rows'[t] = rows[t] /\ Live(t) BY <2>2, <3>2 DEF Live
      <4>2. idem[KeyOf(t)] = t BY <1>0, <4>1 DEF KeysOfRedis, KeyOf
      <4>3. KeyOf(t) \in Contexts \X Keys
        <5>1. rows[t] \in Rows BY <1>0
        <5> QED BY <1>0, <4>1, <5>1 DEF RowsKnown, KeyOf, Rows
      <4>4. KeyOf(t) # ck BY <1>3, <4>2, NilAssumption
      <4> QED BY <2>3, <4>1, <4>2, <4>3, <4>4 DEF KeyOf
    <3> QED BY <3>1, <3>2
  <2> QED BY <2>4, <2>5 DEF KeysOfSql
<1> QED BY <1>2, <1>3

\* Redis: a task without a key disturbs none.
LEMMA CreateMultiKeys ==
  ASSUME StoreInv, KeyInv, NEW o \in Calls, backend = "redis", backend' = backend,
         CreateMulti(o)
  PROVE  KeyLeadsToTask' /\ KeysOfSql' /\ KeysOfRedis'
<1> DEFINE n == target[o]
<1>0. /\ TypeOK /\ LocatedAt(o) /\ rows \in [Tasks -> Rows]
      /\ idem \in [Contexts \X Keys -> Tasks \cup {Nil}]
      /\ KeyLeadsToTask /\ KeysOfRedis
  BY DEF StoreInv, SharedTypeOK, TypeOK, Located, KeyInv
<1>1. n \in Tasks /\ arg[o].ctx \in Contexts BY <1>0 DEF CreateMulti, LocatedAt
<1>2. Insert(n, arg[o].ctx, Nil) /\ idem' = idem /\ forgotten' = forgotten BY DEF CreateMulti
<1>3. /\ ~Live(n) /\ rows'[n].key = Nil
      /\ \A u \in Tasks \ {n} : rows'[u] = rows[u]
  BY <1>1, <1>2, InsertPreserves
<1>4. KeyLeadsToTask'
  <2> SUFFICES ASSUME NEW x \in Contexts \X Keys, idem[x] # Nil
               PROVE  /\ rows'[idem[x]].version > 0
                      /\ <<rows'[idem[x]].ctx, rows'[idem[x]].key>> = x
    BY <1>0, <1>2 DEF KeyLeadsToTask, Live
  <2>1. /\ idem[x] \in Tasks /\ Live(idem[x])
        /\ <<rows[idem[x]].ctx, rows[idem[x]].key>> = x
    BY <1>0 DEF KeyLeadsToTask
  <2> QED BY <1>3, <2>1 DEF Live
<1>5. KeysOfRedis' BY <1>0, <1>2, <1>3 DEF KeysOfRedis, KeyOf, Live
<1> QED BY <1>4, <1>5 DEF KeysOfSql

\* Redis: delete_task takes the key of its task along; a key it takes from
\* another task is forgotten.
LEMMA DeleteMultiKeys ==
  ASSUME StoreInv, KeyInv, NEW o \in Calls, backend = "redis", backend' = backend,
         DeleteMulti(o)
  PROVE  KeyLeadsToTask' /\ KeysOfSql' /\ KeysOfRedis'
<1> DEFINE ck == <<got[o].ctx, got[o].key>>
           n == target[o]
<1>0. /\ TypeOK /\ LocatedAt(o) /\ RowsKnown /\ HintAt(o) /\ rows \in [Tasks -> Rows]
      /\ idem \in [Contexts \X Keys -> Tasks \cup {Nil}]
      /\ KeyLeadsToTask /\ KeysOfRedis /\ used \subseteq Tasks
  BY DEF StoreInv, SharedTypeOK, TypeOK, Located, KeyInv
<1>1. n \in Tasks /\ pc[o] = "remove" BY <1>0 DEF DeleteMulti, LocatedAt
<1>2. /\ \A x \in Contexts \X Keys : idem'[x] = IF x = ck THEN Nil ELSE idem[x]
      /\ DOMAIN idem' = Contexts \X Keys
      /\ forgotten \subseteq forgotten'
      /\ \A x \in Contexts \X Keys : x = ck /\ idem[x] \notin {Nil, n} => x \in forgotten'
  BY <1>0 DEF DeleteMulti
<1>3. \A t \in Tasks : rows'[t].version > 0 => Live(t) /\ t # n /\ rows'[t] = rows[t]
  <2>1. Remove({n}) BY DEF DeleteMulti
  <2> QED BY <1>1, <2>1, RemovePreserves DEF Live
<1>g. \A t \in Tasks : t # n => rows'[t] = rows[t] BY DEF DeleteMulti, Remove
<1>4. KeyLeadsToTask'
  <2> SUFFICES ASSUME NEW x \in Contexts \X Keys, idem'[x] # Nil
               PROVE  /\ rows'[idem'[x]].version > 0
                      /\ <<rows'[idem'[x]].ctx, rows'[idem'[x]].key>> = x
    BY <1>2 DEF KeyLeadsToTask, Live
  <2>1. x # ck /\ idem'[x] = idem[x] BY <1>2
  <2>2. idem[x] \in Tasks /\ Live(idem[x]) /\ <<rows[idem[x]].ctx, rows[idem[x]].key>> = x
    BY <1>0, <2>1 DEF KeyLeadsToTask
  <2>3. idem[x] # n BY <1>0, <1>1, <2>1, <2>2 DEF HintAt
  <2> QED BY <1>g, <2>1, <2>2, <2>3 DEF Live
<1>5. KeysOfRedis'
  <2> SUFFICES ASSUME NEW t \in Tasks, rows'[t].version > 0, rows'[t].key # Nil,
                      <<rows'[t].ctx, rows'[t].key>> \notin forgotten'
               PROVE  idem'[<<rows'[t].ctx, rows'[t].key>>] = t
    BY DEF KeysOfRedis, KeyOf, Live
  <2>1. Live(t) /\ t # n /\ rows'[t] = rows[t] BY <1>3
  <2>2. idem[KeyOf(t)] = t BY <1>0, <1>2, <2>1 DEF KeysOfRedis, KeyOf
  <2>3. KeyOf(t) \in Contexts \X Keys
    <3>1. rows[t] \in Rows BY <1>0
    <3> QED BY <1>0, <2>1, <3>1 DEF RowsKnown, KeyOf, Rows
  <2>4. KeyOf(t) # ck
    <3> SUFFICES ASSUME KeyOf(t) = ck PROVE FALSE OBVIOUS
    <3>1. idem[KeyOf(t)] \notin {Nil, n} BY <2>1, <2>2, NilAssumption
    <3>2. KeyOf(t) \in forgotten' BY <1>2, <2>3, <3>1
    <3> QED BY <2>1, <3>2 DEF KeyOf
  <2> QED BY <1>2, <2>1, <2>2, <2>3, <2>4 DEF KeyOf
<1> QED BY <1>4, <1>5 DEF KeysOfSql

\* Redis: the keys and the tasks stay related.
LEMMA RedisKeyStep ==
  ASSUME StoreInv, KeyInv, NEW o \in Calls, Redis(o)
  PROVE  KeyLeadsToTask' /\ KeysOfSql' /\ KeysOfRedis'
<1>0. TypeOK /\ backend = "redis" /\ backend' = backend /\ RedisStep(o)
  BY DEF StoreInv, SharedTypeOK, Redis
<1>1. CASE CreateScript(o) BY <1>0, <1>1, CreateScriptKeys
<1>2. CASE CreateMulti(o) BY <1>0, <1>2, CreateMultiKeys
<1>3. CASE DeleteMulti(o) BY <1>0, <1>3, DeleteMultiKeys
<1>4. CASE \/ Call(o) \/ GetVersion(o) \/ ReadHash(o) \/ UpdateScript(o) \/ LoadCreated(o)
           \/ ReadHint(o) \/ ListContext(o) \/ DeleteNext(o) \/ DropIndex(o) \/ SetContext(o)
  <2>1. idem' = idem /\ forgotten' = forgotten
    BY <1>0, <1>4, Begins DEF GetVersion, ReadHash, UpdateScript, LoadCreated, ReadHint,
       ListContext, DeleteNext, DropIndex, SetContext, redisVars
  <2>2. UNCHANGED storeVars \/ Writes(o)
    BY <1>0, <1>4, Begins, UpdateEffect DEF GetVersion, ReadHash, LoadCreated, ReadHint,
       ListContext, DeleteNext, DropIndex, SetContext, storeVars
  <2>3. Preserving BY <2>1, <2>2, QuietPreserves
  <2> QED BY <1>0, <2>3, PreservingStep
<1> QED BY <1>0, <1>1, <1>2, <1>3, <1>4 DEF RedisStep

\* When a key expires it is forgotten, not passed on.
LEMMA ExpireKeys ==
  ASSUME StoreInv, KeyInv, NEW c \in Contexts, NEW k \in Keys, Expire(c, k)
  PROVE  KeyInv'
<1>0. /\ idem \in [Contexts \X Keys -> Tasks \cup {Nil}]
      /\ KeyLeadsToTask /\ KeysOfRedis /\ \A o \in Calls : HintAt(o)
  BY DEF StoreInv, SharedTypeOK, TypeOK, KeyInv
<1>1. UNCHANGED <<storeVars, callVars, backend>> BY ExpireStep
<1>2. /\ rows' = rows /\ backend = "redis" /\ backend' = backend
      /\ idem' = [idem EXCEPT ![<<c, k>>] = Nil]
      /\ forgotten' = forgotten \cup {<<c, k>>}
  BY <1>1 DEF Expire, ExpireKey, storeVars
<1>3. (\A o \in Calls : HintAt(o))'
  BY <1>0, <1>1 DEF HintAt, Live, storeVars, callVars, updateVars
<1>4. KeyLeadsToTask' BY <1>0, <1>2 DEF KeyLeadsToTask, Live
<1>5. KeysOfRedis' BY <1>0, <1>2 DEF KeysOfRedis, KeyOf, Live
<1> QED BY <1>2, <1>3, <1>4, <1>5 DEF KeyInv, KeysOfSql

\* The invariant of the keys, for both backends.
LEMMA KeyInvHolds == SharedSpec => [](StoreInv /\ KeyInv)
<1>1. SharedInit => KeyInv
  <2> SUFFICES ASSUME SharedInit PROVE KeyInv OBVIOUS
  <2>1. ASSUME NEW t \in Tasks PROVE ~Live(t)
    <3>1. rows[t].version = 0 BY FreshRows DEF SharedInit, Init, StoreInit
    <3>2. ~(rows[t].version > 0) BY <3>1
    <3> QED BY <3>2 DEF Live
  <2>2. /\ DOMAIN idem = Contexts \X Keys /\ \A ck \in Contexts \X Keys : idem[ck] = Nil
        /\ \A o \in Calls : pc[o] = "idle"
    BY DEF SharedInit, Init
  <2> QED BY <2>1, <2>2 DEF KeyInv, HintAt, KeyLeadsToTask, KeysOfSql, KeysOfRedis,
             OneTaskPerKey
<1>2. StoreInv /\ KeyInv /\ [SharedNext]_allVars => KeyInv'
  <2> SUFFICES ASSUME StoreInv, KeyInv, [SharedNext]_allVars PROVE KeyInv' OBVIOUS
  <2>1. ASSUME NEW o \in Calls, Sql(o) \/ Redis(o) PROVE KeyInv'
    BY <2>1, HintStep, SqlKeyStep, RedisKeyStep DEF KeyInv
  <2>2. ASSUME NEW c \in Contexts, NEW k \in Keys, Expire(c, k) PROVE KeyInv'
    BY <2>2, ExpireKeys
  <2>3. CASE UNCHANGED allVars
    BY <2>3 DEF allVars, vars, storeVars, callVars, updateVars, redisVars, KeyInv, HintAt,
       KeyLeadsToTask, KeysOfSql, KeysOfRedis, OneTaskPerKey, KeyOf, Live
  <2> QED BY <2>1, <2>2, <2>3 DEF SharedNext
<1> QED BY <1>1, <1>2, StoreInvInit, StoreInvStep, PTL DEF SharedSpec

\* No interleaving of creates and deletes leaves an idempotency key behind
\* that leads nowhere.
THEOREM KeysLead == SharedSpec => []KeyLeadsToTask
<1>1. KeyInv => KeyLeadsToTask BY DEF KeyInv
<1> QED BY <1>1, KeyInvHolds, PTL

\* A retried create finds the task of the first one.
THEOREM OneTask == SharedSpec => []OneTaskPerKey
<1>1. StoreInv /\ KeyInv => OneTaskPerKey
  <2> SUFFICES ASSUME StoreInv, KeyInv PROVE OneTaskPerKey OBVIOUS
  <2>1. backend \in {"sql", "redis"} BY DEF StoreInv, SharedTypeOK, Backends
  <2>2. CASE backend = "sql" BY <2>2 DEF KeyInv, KeysOfSql
  <2>3. CASE backend = "redis" BY <2>3 DEF KeyInv, KeysOfRedis, OneTaskPerKey, KeyOf
  <2> QED BY <2>1, <2>2, <2>3
<1> QED BY <1>1, KeyInvHolds, PTL
-----------------------------------------------------------------------------
(* Contexts                                                                *)

\* What a call was asked, by where it is.
KindAt(o) ==
  /\ pc[o] \in {"insert", "fetch", "load"} => arg[o].kind = "create"
  /\ pc[o] \in {"hint", "remove"} => arg[o].kind \in {"delete", "delete_context"}
  /\ pc[o] \in {"list", "drop_index"} => arg[o].kind = "delete_context"
  /\ pc[o] \in {"ctx_update", "ctx_insert", "ctx_retry"} => arg[o].kind = "context"
  /\ pc[o] \in {"drop_index", "ctx_update", "ctx_insert", "ctx_retry"} =>
       arg[o].ctx \in Contexts

\* Some delete_context has returned.
Deleted == \E d \in Calls : arg[d].kind = "delete_context" /\ out[d] = "ok"

\* A second UPDATE of the context finds the row that made the INSERT fail.
RetryAt(o) == pc[o] = "ctx_retry" => HasData(o) \/ Deleted

LostInv == (\A o \in Calls : KindAt(o) /\ RetryAt(o)) /\ ContextLostOnlyByDelete

\* The tasks delete_context has listed and dealt with are gone for good, and it
\* drops the index when it has dealt with all of them.
SweptAt(o) ==
  /\ listed[o] \subseteq used
  /\ \A t \in listed[o] \ todo[o] : ~Live(t)
  /\ pc[o] = "drop_index" => todo[o] = {}

IndexKnown == \A c \in Contexts : index[c] \subseteq used

HiddenInv == (\A o \in Calls : SweptAt(o)) /\ IndexKnown /\ HiddenOnlyByContextDelete

\* A call that starts is where its kind begins.
LEMMA BeginsKind ==
  ASSUME TypeOK, NEW o \in Calls, Call(o)
  PROVE  /\ UNCHANGED <<listed, todo, ctxData, index>>
         /\ \/ pc'[o] \in {"read", "get_version"}
            \/ pc'[o] = "insert" /\ arg'[o].kind = "create"
            \/ pc'[o] = "hint" /\ arg'[o].kind = "delete"
            \/ pc'[o] = "list" /\ arg'[o].kind = "delete_context"
            \/ pc'[o] = "ctx_update" /\ arg'[o].kind = "context" /\ arg'[o].ctx \in Contexts
<1> USE DEF TypeOK, Begin, Goto, storeVars, updateVars, redisVars
<1>1. CASE CallUpdate(o) BY <1>1 DEF CallUpdate
<1>2. CASE CallCreate(o) BY <1>2 DEF CallCreate
<1>3. CASE CallDelete(o) BY <1>3 DEF CallDelete
<1>4. CASE CallDeleteContext(o) BY <1>4 DEF CallDeleteContext
<1>5. CASE CallUpdateContext(o) BY <1>5 DEF CallUpdateContext
<1> QED BY <1>1, <1>2, <1>3, <1>4, <1>5 DEF Call

\* A call that goes on stays what it was asked, and only the last UPDATE of
\* update_context returns to its caller without having written.
LEMMA KindStep ==
  ASSUME StoreInv, NEW o \in Calls, Sql(o) \/ Redis(o), KindAt(o)
  PROVE  /\ KindAt(o)'
         /\ arg'[o].kind = "context" /\ out'[o] = "not_found" =>
              RetryContext(o) /\ ~HasData(o) /\ arg[o].kind = "context"
<1>0. /\ TypeOK /\ LocatedAt(o) /\ out[o] = "pending"
      /\ SqlStep(o) \/ RedisStep(o)
  BY OnceDone DEF StoreInv, SharedTypeOK, Located, Sql, Redis
<1>t. /\ pc \in [Calls -> Labels] /\ out \in [Calls -> Outcomes]
  BY <1>0 DEF TypeOK
<1> USE DEF Goto, Return, storeVars, updateVars, redisVars, KindAt
<1>c. CASE Call(o)
  <2>1. out' = out BY <1>0, <1>c, Begins
  <2> QED BY <1>0, <1>c, <2>1, BeginsKind
<1>1. CASE GetVersion(o) BY <1>0, <1>t, <1>1 DEF GetVersion, LocatedAt, Updates
<1>2. CASE SelectRow(o) BY <1>0, <1>t, <1>2 DEF SelectRow, LocatedAt, Updates
<1>3. CASE UpdateGuarded(o) BY <1>0, <1>t, <1>3 DEF UpdateGuarded, LoseRace
<1>4. CASE InsertIdempotent(o) BY <1>0, <1>t, <1>4 DEF InsertIdempotent
<1>5. CASE FetchBack(o) BY <1>0, <1>t, <1>5 DEF FetchBack
<1>6. CASE InsertPlain(o) BY <1>0, <1>t, <1>6 DEF InsertPlain
<1>7. CASE LoadCreated(o) BY <1>0, <1>t, <1>7 DEF LoadCreated
<1>8. CASE DeleteRow(o) BY <1>0, <1>t, <1>8 DEF DeleteRow
<1>9. CASE DeleteContext(o) BY <1>0, <1>t, <1>9 DEF DeleteContext
<1>10. CASE UpdateContext(o) BY <1>0, <1>t, <1>10 DEF UpdateContext
<1>11. CASE InsertContext(o) BY <1>0, <1>t, <1>11 DEF InsertContext
<1>12. CASE RetryContext(o) BY <1>0, <1>t, <1>12 DEF RetryContext
<1>13. CASE ReadHash(o) BY <1>0, <1>t, <1>13 DEF ReadHash, LocatedAt, Updates
<1>14. CASE UpdateScript(o) BY <1>0, <1>t, <1>14 DEF UpdateScript, LoseRace, LocatedAt, Updates
<1>15. CASE CreateScript(o) BY <1>0, <1>t, <1>15 DEF CreateScript
<1>16. CASE CreateMulti(o) BY <1>0, <1>t, <1>16 DEF CreateMulti
<1>17. CASE ReadHint(o) BY <1>0, <1>t, <1>17 DEF ReadHint, AfterDelete, LocatedAt
<1>18. CASE DeleteMulti(o) BY <1>0, <1>t, <1>18 DEF DeleteMulti, AfterDelete, LocatedAt
<1>19. CASE ListContext(o) BY <1>0, <1>t, <1>19 DEF ListContext, LocatedAt
<1>20. CASE DeleteNext(o) BY <1>0, <1>t, <1>20 DEF DeleteNext
<1>21. CASE DropIndex(o) BY <1>0, <1>t, <1>21 DEF DropIndex
<1>22. CASE SetContext(o) BY <1>0, <1>t, <1>22 DEF SetContext
<1> QED
  BY <1>0, <1>c, <1>1, <1>2, <1>3, <1>4, <1>5, <1>6, <1>7, <1>8, <1>9, <1>10, <1>11, <1>12,
     <1>13, <1>14, <1>15, <1>16, <1>17, <1>18, <1>19, <1>20, <1>21, <1>22
     DEF SqlStep, RedisStep

\* Only a delete_context that returns takes the data of a context away.
LEMMA DataEffect ==
  ASSUME StoreInv, NEW o \in Calls, Sql(o) \/ Redis(o), KindAt(o)
  PROVE  (\A c \in Contexts : ctxData[c] # Nil => ctxData'[c] # Nil) \/ Deleted'
<1>0. /\ TypeOK /\ LocatedAt(o) /\ o # Nil
      /\ SqlStep(o) \/ RedisStep(o)
  BY NilAssumption DEF StoreInv, SharedTypeOK, Located, Sql, Redis
<1>t. ctxData \in [Contexts -> Calls \cup {Nil}] /\ out \in [Calls -> Outcomes]
  BY <1>0 DEF TypeOK
<1>1. CASE Call(o) \/ GetVersion(o) \/ SelectRow(o) \/ UpdateGuarded(o) \/ InsertIdempotent(o)
        \/ FetchBack(o) \/ InsertPlain(o) \/ LoadCreated(o) \/ DeleteRow(o) \/ ReadHash(o)
        \/ UpdateScript(o) \/ CreateScript(o) \/ CreateMulti(o) \/ ReadHint(o)
        \/ DeleteMulti(o) \/ ListContext(o) \/ DeleteNext(o)
  <2>1. ctxData' = ctxData
    BY <1>0, <1>1, BeginsKind DEF GetVersion, SelectRow, UpdateGuarded, InsertIdempotent,
       FetchBack, InsertPlain, LoadCreated, DeleteRow, ReadHash, UpdateScript, CreateScript,
       CreateMulti, ReadHint, DeleteMulti, ListContext, DeleteNext
  <2> QED BY <2>1
<1>2. CASE UpdateContext(o) \/ InsertContext(o) \/ RetryContext(o) \/ SetContext(o)
  <2>1. ctxData' = ctxData \/ ctxData' = [ctxData EXCEPT ![arg[o].ctx] = o]
    BY <1>2 DEF UpdateContext, InsertContext, RetryContext, SetContext, StoreData
  <2> QED BY <1>0, <1>t, <2>1
<1>3. CASE DeleteContext(o) \/ DropIndex(o)
  <2>1. arg[o].kind = "delete_context" /\ arg' = arg /\ out'[o] = "ok"
    BY <1>3, <1>t DEF DeleteContext, DropIndex, KindAt, Return
  <2> QED BY <2>1 DEF Deleted
<1> QED BY <1>0, <1>1, <1>2, <1>3 DEF SqlStep, RedisStep

\* A delete_context that has returned has returned for good.
LEMMA DeletedStays ==
  ASSUME StoreInv, NEW o \in Calls, Sql(o) \/ Redis(o), Deleted
  PROVE  Deleted'
<1>1. PICK d \in Calls : arg[d].kind = "delete_context" /\ out[d] = "ok" BY DEF Deleted
<1>2. d # o BY <1>1, OnceDone
<1>3. Apart(o) BY Frame DEF StoreInv, SharedTypeOK, Sql, Redis
<1> QED BY <1>1, <1>2, <1>3 DEF Apart, Deleted

\* Every step of a call keeps the invariant of the context data.
LEMMA LostStep ==
  ASSUME StoreInv, LostInv, NEW o \in Calls, Sql(o) \/ Redis(o)
  PROVE  LostInv'
<1>0. /\ TypeOK /\ KindAt(o) /\ RetryAt(o)
      /\ SqlStep(o) \/ RedisStep(o)
      /\ \A p \in Calls : KindAt(p) /\ RetryAt(p)
      /\ ContextLostOnlyByDelete
  BY DEF StoreInv, SharedTypeOK, LostInv, Sql, Redis
<1>a. Apart(o) BY <1>0, Frame
<1>k. /\ KindAt(o)'
      /\ arg'[o].kind = "context" /\ out'[o] = "not_found" =>
           RetryContext(o) /\ ~HasData(o) /\ arg[o].kind = "context"
  BY <1>0, KindStep
<1>d. (\A c \in Contexts : ctxData[c] # Nil => ctxData'[c] # Nil) \/ Deleted'
  BY <1>0, DataEffect
<1>s. Deleted => Deleted' BY DeletedStays
<1>1. ASSUME NEW p \in Calls \ {o} PROVE KindAt(p)' /\ RetryAt(p)'
  <2>1. KindAt(p) /\ RetryAt(p) BY <1>0
  <2>2. pc'[p] = pc[p] /\ arg'[p] = arg[p] BY <1>a DEF Apart
  <2>3. KindAt(p)' BY <2>1, <2>2 DEF KindAt
  <2>4. RetryAt(p)' BY <1>d, <1>s, <2>1, <2>2 DEF RetryAt, KindAt, HasData
  <2> QED BY <2>3, <2>4
<1>2. RetryAt(o)'
  <2> SUFFICES ASSUME pc'[o] = "ctx_retry" PROVE HasData(o)' \/ Deleted'
    BY DEF RetryAt
  <2>t. pc \in [Calls -> Labels] BY <1>0 DEF TypeOK
  <2>1. InsertContext(o) /\ HasData(o) /\ UNCHANGED <<ctxData, arg>>
    <3> USE DEF Goto, Return
    <3>1. ~Call(o) BY <1>0, BeginsKind
    <3>2. ~(GetVersion(o) \/ SelectRow(o) \/ UpdateGuarded(o) \/ InsertIdempotent(o)
            \/ FetchBack(o) \/ InsertPlain(o) \/ LoadCreated(o) \/ DeleteRow(o)
            \/ DeleteContext(o) \/ UpdateContext(o) \/ RetryContext(o))
      BY <2>t DEF GetVersion, SelectRow, UpdateGuarded, LoseRace, InsertIdempotent, FetchBack,
         InsertPlain, LoadCreated, DeleteRow, DeleteContext, UpdateContext, RetryContext
    <3>3. ~(ReadHash(o) \/ UpdateScript(o) \/ CreateScript(o) \/ CreateMulti(o) \/ ReadHint(o)
            \/ DeleteMulti(o) \/ ListContext(o) \/ DeleteNext(o) \/ DropIndex(o) \/ SetContext(o))
      BY <2>t DEF ReadHash, UpdateScript, LoseRace, CreateScript, CreateMulti, ReadHint,
         AfterDelete, DeleteMulti, ListContext, DeleteNext, DropIndex, SetContext
    <3>4. InsertContext(o) BY <1>0, <3>1, <3>2, <3>3 DEF SqlStep, RedisStep
    <3> QED BY <2>t, <3>4 DEF InsertContext
  <2> QED BY <2>1 DEF HasData
<1>3. ContextLostOnlyByDelete'
  <2> SUFFICES ASSUME NEW p \in Calls, arg'[p].kind = "context", out'[p] = "not_found"
               PROVE  Deleted'
    BY DEF ContextLostOnlyByDelete, Deleted
  <2>1. CASE p = o BY <1>0, <1>k, <1>s, <2>1 DEF RetryAt, RetryContext
  <2>2. CASE p # o
    <3>1. arg[p].kind = "context" /\ out[p] = "not_found" BY <1>a, <2>2 DEF Apart
    <3>2. Deleted BY <1>0, <3>1 DEF ContextLostOnlyByDelete, Deleted
    <3> QED BY <1>s, <3>2
  <2> QED BY <2>1, <2>2
<1> QED BY <1>k, <1>1, <1>2, <1>3 DEF LostInv

\* update_context returns without having written only after a delete_context:
\* two first writers of a context never cost the data of either.
THEOREM ContextsKept == SharedSpec => []ContextLostOnlyByDelete
<1>1. SharedInit => LostInv
  BY DEF SharedInit, Init, LostInv, KindAt, RetryAt, ContextLostOnlyByDelete
<1>2. StoreInv /\ LostInv /\ [SharedNext]_allVars => LostInv'
  <2> SUFFICES ASSUME StoreInv, LostInv, [SharedNext]_allVars PROVE LostInv' OBVIOUS
  <2>1. ASSUME NEW o \in Calls, Sql(o) \/ Redis(o) PROVE LostInv' BY <2>1, LostStep
  <2>2. CASE UNCHANGED <<pc, arg, out, ctxData>>
    BY <2>2 DEF LostInv, KindAt, RetryAt, HasData, Deleted, ContextLostOnlyByDelete
  <2>3. ASSUME NEW c \in Contexts, NEW k \in Keys, Expire(c, k) PROVE LostInv'
    BY <2>2, <2>3 DEF Expire, ExpireKey, callVars
  <2>4. CASE UNCHANGED allVars BY <2>2, <2>4 DEF allVars, vars, callVars
  <2> QED BY <2>1, <2>3, <2>4 DEF SharedNext
<1>3. LostInv => ContextLostOnlyByDelete BY DEF LostInv
<1> QED BY <1>1, <1>2, <1>3, StoreInvInit, StoreInvStep, PTL DEF SharedSpec

\* What a step does to the lists of its call: SMEMBERS fills both, a deleted or
\* missing task leaves the second, and nothing else touches them.
LEMMA ListEffect ==
  ASSUME StoreInv, NEW o \in Calls, Sql(o) \/ Redis(o), KindAt(o)
  PROVE  /\ \A p \in Calls \ {o} : listed'[p] = listed[p] /\ todo'[p] = todo[p]
         /\ \/ /\ listed'[o] = listed[o] /\ todo'[o] = todo[o] /\ pc'[o] # "drop_index"
            \/ /\ arg[o].ctx \in Contexts
               /\ listed'[o] = index[arg[o].ctx] /\ todo'[o] = index[arg[o].ctx]
               /\ pc'[o] = "drop_index" => index[arg[o].ctx] = {}
            \/ /\ listed'[o] = listed[o] /\ todo'[o] = todo[o] \ {target[o]}
               /\ target' = target /\ ~Live(target[o])'
               /\ pc'[o] = "drop_index" => todo[o] \subseteq {target[o]}
<1>0. /\ TypeOK /\ LocatedAt(o)
      /\ SqlStep(o) \/ RedisStep(o)
  BY DEF StoreInv, SharedTypeOK, Located, Sql, Redis
<1>t. /\ pc \in [Calls -> Labels] /\ listed \in [Calls -> SUBSET Tasks]
      /\ todo \in [Calls -> SUBSET Tasks] /\ target \in [Calls -> Tasks \cup {Nil}]
      /\ rows \in [Tasks -> Rows]
  BY <1>0 DEF TypeOK
<1> USE DEF Goto, Return, storeVars, updateVars, redisVars
<1>1. CASE Call(o) BY <1>0, <1>1, BeginsKind
<1>2. CASE GetVersion(o) \/ SelectRow(o) \/ UpdateGuarded(o) \/ InsertIdempotent(o)
           \/ FetchBack(o) \/ InsertPlain(o) \/ LoadCreated(o) \/ DeleteRow(o)
           \/ DeleteContext(o) \/ UpdateContext(o) \/ InsertContext(o) \/ RetryContext(o)
  <2>1. listed' = listed /\ todo' = todo
    BY <1>2 DEF GetVersion, SelectRow, UpdateGuarded, InsertIdempotent, FetchBack, InsertPlain,
       LoadCreated, DeleteRow, DeleteContext, UpdateContext, InsertContext, RetryContext
  <2>2. pc'[o] # "drop_index"
    BY <1>2, <1>t DEF GetVersion, SelectRow, UpdateGuarded, LoseRace, InsertIdempotent, FetchBack,
       InsertPlain, LoadCreated, DeleteRow, DeleteContext, UpdateContext, InsertContext,
       RetryContext
  <2> QED BY <2>1, <2>2
<1>3. CASE ReadHash(o) \/ UpdateScript(o) \/ CreateScript(o) \/ CreateMulti(o)
           \/ DeleteNext(o) \/ DropIndex(o) \/ SetContext(o)
  <2>1. listed' = listed /\ todo' = todo
    BY <1>3 DEF ReadHash, UpdateScript, CreateScript, CreateMulti, DeleteNext, DropIndex, SetContext
  <2>2. pc'[o] # "drop_index"
    BY <1>3, <1>t DEF ReadHash, UpdateScript, LoseRace, CreateScript, CreateMulti, DeleteNext,
       DropIndex, SetContext
  <2> QED BY <2>1, <2>2
<1>d. ASSUME NEW b \in BOOLEAN, AfterDelete(o, b), listed' = listed, target' = target,
             ~Live(target[o])'
      PROVE  /\ \A p \in Calls \ {o} : listed'[p] = listed[p] /\ todo'[p] = todo[p]
             /\ \/ /\ listed'[o] = listed[o] /\ todo'[o] = todo[o] /\ pc'[o] # "drop_index"
                \/ /\ listed'[o] = listed[o] /\ todo'[o] = todo[o] \ {target[o]}
                   /\ target' = target /\ ~Live(target[o])'
                   /\ pc'[o] = "drop_index" => todo[o] \subseteq {target[o]}
  <2>1. CASE arg[o].kind = "delete" BY <1>d, <1>t, <2>1 DEF AfterDelete
  <2>2. CASE arg[o].kind # "delete" BY <1>d, <1>t, <2>2 DEF AfterDelete
  <2> QED BY <2>1, <2>2
<1>4. CASE ReadHint(o)
  <2>1. CASE Live(target[o]) BY <1>4, <1>t, <2>1 DEF ReadHint
  <2>2. CASE ~Live(target[o])
    <3>1. /\ AfterDelete(o, FALSE) /\ listed' = listed /\ rows' = rows /\ target' = target
      BY <1>4, <2>2 DEF ReadHint
    <3>2. ~Live(target[o])' BY <2>2, <3>1 DEF Live
    <3> QED BY <1>d, <3>1, <3>2
  <2> QED BY <2>1, <2>2
<1>5. CASE DeleteMulti(o)
  <2>1. AfterDelete(o, Live(target[o])) /\ listed' = listed /\ target' = target
    BY <1>5 DEF DeleteMulti
  <2>2. Live(target[o]) \in BOOLEAN BY DEF Live
  <2>3. target[o] \in Tasks BY <1>0, <1>5 DEF DeleteMulti, LocatedAt, TypeOK
  <2>4. rows'[target[o]] = AbsentRow BY <1>5, <2>3 DEF DeleteMulti, Remove
  <2>5. ~Live(target[o])' BY <2>1, <2>4, FreshRows DEF Live
  <2> QED BY <1>d, <2>1, <2>2, <2>5
<1>6. CASE ListContext(o)
  <2>1. arg[o].ctx \in Contexts BY <1>0, <1>6 DEF ListContext, LocatedAt
  <2> QED BY <1>6, <1>t, <2>1 DEF ListContext
<1> QED BY <1>0, <1>1, <1>2, <1>3, <1>4, <1>5, <1>6 DEF SqlStep, RedisStep

\* A task that leaves the index of a context is deleted, or the whole index is
\* dropped; a task that is inserted is in it.
LEMMA IndexEffect ==
  ASSUME StoreInv, NEW o \in Calls, Sql(o) \/ Redis(o), KindAt(o), used \subseteq used', IndexKnown
  PROVE  /\ IndexKnown'
         /\ backend = "redis" =>
              /\ \A c \in Contexts, t \in Tasks : t \in index[c] =>
                   \/ t \in index'[c]
                   \/ ~Live(t)'
                   \/ /\ pc[o] = "drop_index" /\ arg[o].kind = "delete_context" /\ arg[o].ctx = c
                      /\ arg' = arg /\ listed' = listed /\ out'[o] = "ok"
              /\ Creates(o) => target[o] \in index'[arg[o].ctx]
<1>0. /\ TypeOK /\ LocatedAt(o)
      /\ SqlStep(o) \/ RedisStep(o)
  BY DEF StoreInv, SharedTypeOK, Located, Sql, Redis
<1>t. /\ pc \in [Calls -> Labels] /\ index \in [Contexts -> SUBSET Tasks]
      /\ rows \in [Tasks -> Rows] /\ out \in [Calls -> Outcomes]
  BY <1>0 DEF TypeOK
<1>1. CASE Call(o) \/ GetVersion(o) \/ ReadHash(o) \/ UpdateScript(o) \/ LoadCreated(o)
           \/ ReadHint(o) \/ ListContext(o) \/ DeleteNext(o) \/ SetContext(o)
  <2>1. index' = index
    BY <1>0, <1>1, BeginsKind DEF GetVersion, ReadHash, UpdateScript, LoadCreated, ReadHint,
       ListContext, DeleteNext, SetContext, redisVars
  <2>2. pc[o] # "insert"
    BY <1>1 DEF Call, CallUpdate, CallCreate, CallDelete, CallDeleteContext, CallUpdateContext,
       Begin, GetVersion, ReadHash, UpdateScript, LoadCreated, ReadHint, ListContext, DeleteNext,
       SetContext
  <2> QED BY <2>1, <2>2 DEF IndexKnown, Creates
<1>2. CASE CreateScript(o) \/ CreateMulti(o)
  <2>1. target[o] \in Tasks /\ arg[o].ctx \in Contexts
    BY <1>0, <1>2 DEF CreateScript, CreateMulti, LocatedAt
  <2>2. CASE AddToIndex(target[o], arg[o].ctx) /\ target[o] \in used'
    <3>1. index'[arg[o].ctx] = index[arg[o].ctx] \cup {target[o]}
          /\ \A c \in Contexts : c # arg[o].ctx => index'[c] = index[c]
      BY <1>t, <2>1, <2>2 DEF AddToIndex
    <3> QED BY <2>1, <2>2, <3>1 DEF IndexKnown
  <2>3. CASE index' = index /\ storeVars' = storeVars
    <3>1. ~Creates(o) BY <2>3 DEF Creates, Insert, storeVars
    <3> QED BY <2>3, <3>1 DEF IndexKnown
  <2>4. \/ AddToIndex(target[o], arg[o].ctx) /\ target[o] \in used'
        \/ index' = index /\ storeVars' = storeVars
    BY <1>2 DEF CreateScript, CreateMulti, Insert
  <2> QED BY <2>2, <2>3, <2>4
<1>3. CASE DeleteMulti(o)
  <2>1. target[o] \in Tasks BY <1>0, <1>3 DEF DeleteMulti, LocatedAt, TypeOK
  <2>2. rows'[target[o]] = AbsentRow /\ pc[o] # "insert" BY <1>3, <2>1 DEF DeleteMulti, Remove
  <2>3. \A t \in Tasks : t = target[o] => ~Live(t)' BY <2>2, FreshRows DEF Live
  <2>4. \A c \in Contexts : index[c] \ {target[o]} \subseteq index'[c] /\ index'[c] \subseteq index[c]
    BY <1>3, <1>t DEF DeleteMulti
  <2> QED BY <2>2, <2>3, <2>4 DEF IndexKnown, Creates
<1>4. CASE DropIndex(o)
  <2>1. /\ pc[o] = "drop_index" /\ arg[o].kind = "delete_context" /\ arg' = arg
        /\ listed' = listed /\ out'[o] = "ok"
    BY <1>4, <1>t DEF DropIndex, KindAt, Return
  <2>2. \A c \in Contexts : (c # arg[o].ctx => index'[c] = index[c]) /\ index'[c] \subseteq index[c]
    BY <1>4, <1>t DEF DropIndex
  <2> QED BY <2>1, <2>2 DEF IndexKnown, Creates
<1>5. CASE backend = "sql"
  <2>1. index' = index
    BY <1>0, <1>5, BeginsKind DEF Sql, Redis, SqlStep, GetVersion, SelectRow, UpdateGuarded,
       InsertIdempotent, FetchBack, InsertPlain, LoadCreated, DeleteRow, DeleteContext,
       UpdateContext, InsertContext, RetryContext, redisVars
  <2> QED BY <1>5, <2>1 DEF IndexKnown
<1> QED BY <1>1, <1>2, <1>3, <1>4, <1>5 DEF Sql, Redis, RedisStep

\* A task that exists after a step existed before it in the same context, or
\* was just created.
LEMMA LiveBefore ==
  ASSUME StoreInv, NEW o \in Calls, Sql(o) \/ Redis(o), NEW t \in Tasks, Live(t)'
  PROVE  \/ Live(t) /\ t \in used /\ rows'[t].ctx = rows[t].ctx
         \/ Creates(o) /\ t = target[o] /\ rows'[t].ctx = arg[o].ctx
<1>0. TypeOK /\ RowsKnown /\ rows \in [Tasks -> Rows] /\ rows[t] \in Rows
  BY DEF StoreInv, SharedTypeOK, TypeOK
<1>1. CASE t \in used
  <2>1. Successor(t) BY <1>1, Evolves
  <2>2. ~(0 > 0) OBVIOUS
  <2> QED BY <1>1, <2>1, <2>2 DEF Successor, Live
<1>2. CASE t \notin used
  <2>1. ~Live(t) BY <1>0, <1>2 DEF RowsKnown
  <2>2. CASE UNCHANGED storeVars BY <2>1, <2>2 DEF storeVars, Live
  <2>3. CASE Writes(o) BY <1>0, <2>1, <2>3 DEF Writes, Merge, Live
  <2>4. CASE Creates(o)
    BY <1>0, <2>1, <2>4, FreshRows DEF Creates, Insert, Live
  <2>5. CASE \E ts \in SUBSET Tasks : Remove(ts)
    BY <1>0, <2>1, <2>5, FreshRows DEF Remove, Live
  <2> QED BY <2>2, <2>3, <2>4, <2>5, StoreEffect
<1> QED BY <1>1, <1>2

\* Every step of a call keeps the invariant of the index.
LEMMA HiddenStep ==
  ASSUME StoreInv, HiddenInv, NEW o \in Calls, Sql(o) \/ Redis(o), KindAt(o)
  PROVE  HiddenInv'
<1>0. /\ TypeOK /\ used \subseteq Tasks /\ IndexKnown /\ HiddenOnlyByContextDelete /\ RowsKnown
      /\ \A p \in Calls : SweptAt(p)
      /\ SqlStep(o) \/ RedisStep(o)
      /\ backend' = backend
  BY DEF StoreInv, SharedTypeOK, TypeOK, HiddenInv, Sql, Redis
<1>a. Apart(o) BY <1>0, Frame
<1>u. used \subseteq used' BY Evolves
<1>g. \A t \in used : ~Live(t) => ~Live(t)'
  <2> SUFFICES ASSUME NEW t \in used, Live(t)' PROVE Live(t) OBVIOUS
  <2>1. t \in Tasks BY <1>0
  <2> QED BY <2>1, LiveBefore DEF Creates, Insert
<1>i. /\ IndexKnown'
      /\ backend = "redis" =>
           /\ \A c \in Contexts, t \in Tasks : t \in index[c] =>
                \/ t \in index'[c]
                \/ ~Live(t)'
                \/ /\ pc[o] = "drop_index" /\ arg[o].kind = "delete_context" /\ arg[o].ctx = c
                   /\ arg' = arg /\ listed' = listed /\ out'[o] = "ok"
           /\ Creates(o) => target[o] \in index'[arg[o].ctx]
  BY <1>0, <1>u, IndexEffect
<1>l. /\ \A p \in Calls \ {o} : listed'[p] = listed[p] /\ todo'[p] = todo[p]
      /\ \/ /\ listed'[o] = listed[o] /\ todo'[o] = todo[o] /\ pc'[o] # "drop_index"
         \/ /\ arg[o].ctx \in Contexts
            /\ listed'[o] = index[arg[o].ctx] /\ todo'[o] = index[arg[o].ctx]
            /\ pc'[o] = "drop_index" => index[arg[o].ctx] = {}
         \/ /\ listed'[o] = listed[o] /\ todo'[o] = todo[o] \ {target[o]}
            /\ target' = target /\ ~Live(target[o])'
            /\ pc'[o] = "drop_index" => todo[o] \subseteq {target[o]}
  BY ListEffect
<1>1. ASSUME NEW p \in Calls \ {o} PROVE SweptAt(p)'
  <2>1. pc'[p] = pc[p] BY <1>a DEF Apart
  <2>2. \A t \in listed[p] \ todo[p] : ~Live(t)' BY <1>0, <1>g DEF SweptAt
  <2> QED BY <1>0, <1>l, <1>u, <2>1, <2>2 DEF SweptAt, Live
<1>2. SweptAt(o)'
  <2>1. CASE listed'[o] = listed[o] /\ todo'[o] = todo[o] /\ pc'[o] # "drop_index"
    <3>1. \A t \in listed[o] \ todo[o] : ~Live(t)' BY <1>0, <1>g DEF SweptAt
    <3> QED BY <1>0, <1>u, <2>1, <3>1 DEF SweptAt, Live
  <2>2. CASE /\ arg[o].ctx \in Contexts
             /\ listed'[o] = index[arg[o].ctx] /\ todo'[o] = index[arg[o].ctx]
             /\ pc'[o] = "drop_index" => index[arg[o].ctx] = {}
    BY <1>0, <1>u, <2>2 DEF SweptAt, IndexKnown
  <2>3. CASE /\ listed'[o] = listed[o] /\ todo'[o] = todo[o] \ {target[o]}
             /\ target' = target /\ ~Live(target[o])'
             /\ pc'[o] = "drop_index" => todo[o] \subseteq {target[o]}
    <3>1. \A t \in listed[o] \ (todo[o] \ {target[o]}) : ~Live(t)'
      BY <1>0, <1>g, <2>3 DEF SweptAt
    <3> QED BY <1>0, <1>u, <2>3, <3>1 DEF SweptAt, Live
  <2> QED BY <1>l, <2>1, <2>2, <2>3
<1>3. HiddenOnlyByContextDelete'
  <2> SUFFICES ASSUME backend = "redis", NEW t \in Tasks, Live(t)', t \notin index'[rows'[t].ctx]
               PROVE  \E d \in Calls : /\ arg'[d].kind = "delete_context" /\ out'[d] = "ok"
                                       /\ arg'[d].ctx = rows'[t].ctx /\ t \notin listed'[d]
    BY <1>0 DEF HiddenOnlyByContextDelete
  <2>1. Live(t) /\ t \in used /\ rows'[t].ctx = rows[t].ctx BY <1>i, LiveBefore
  <2>2. rows[t].ctx \in Contexts BY <1>0, <2>1 DEF RowsKnown
  <2>3. CASE t \notin index[rows[t].ctx]
    <3>1. PICK d \in Calls : /\ arg[d].kind = "delete_context" /\ out[d] = "ok"
                             /\ arg[d].ctx = rows[t].ctx /\ t \notin listed[d]
      BY <1>0, <2>1, <2>3 DEF HiddenOnlyByContextDelete
    <3>2. d # o BY <3>1, OnceDone
    <3> QED BY <1>a, <1>l, <2>1, <3>1, <3>2 DEF Apart
  <2>4. CASE t \in index[rows[t].ctx]
    <3>1. /\ pc[o] = "drop_index" /\ arg[o].kind = "delete_context" /\ arg[o].ctx = rows[t].ctx
          /\ arg' = arg /\ listed' = listed /\ out'[o] = "ok"
      BY <1>i, <2>1, <2>2, <2>4
    <3>2. t \notin listed[o] BY <1>0, <2>1, <3>1 DEF SweptAt
    <3> QED BY <2>1, <3>1, <3>2
  <2> QED BY <2>3, <2>4
<1> QED BY <1>i, <1>1, <1>2, <1>3 DEF HiddenInv

\* Redis: a task is missing from the index of its context only because a
\* delete_context that had listed the others dropped the whole index.
THEOREM HiddenByDelete == SharedSpec => []HiddenOnlyByContextDelete
<1>1. SharedInit => LostInv /\ HiddenInv
  <2> SUFFICES ASSUME SharedInit PROVE LostInv /\ HiddenInv OBVIOUS
  <2>1. LostInv BY DEF SharedInit, Init, LostInv, KindAt, RetryAt, ContextLostOnlyByDelete
  <2>2. \A o \in Calls : SweptAt(o) BY DEF SharedInit, Init, SweptAt
  <2>3. IndexKnown BY DEF SharedInit, Init, IndexKnown
  <2>4. ASSUME NEW t \in Tasks PROVE ~Live(t)
    <3>1. rows[t].version = 0 BY FreshRows DEF SharedInit, Init, StoreInit
    <3>2. ~(rows[t].version > 0) BY <3>1
    <3> QED BY <3>2 DEF Live
  <2> QED BY <2>1, <2>2, <2>3, <2>4 DEF HiddenInv, HiddenOnlyByContextDelete
<1>2. StoreInv /\ LostInv /\ HiddenInv /\ [SharedNext]_allVars => LostInv' /\ HiddenInv'
  <2> SUFFICES ASSUME StoreInv, LostInv, HiddenInv, [SharedNext]_allVars
               PROVE  LostInv' /\ HiddenInv'
    OBVIOUS
  <2>1. ASSUME NEW o \in Calls, Sql(o) \/ Redis(o) PROVE LostInv' /\ HiddenInv'
    <3>1. KindAt(o) BY DEF LostInv
    <3> QED BY <2>1, <3>1, LostStep, HiddenStep
  <2>2. CASE UNCHANGED <<storeVars, callVars, ctxData, index, backend>>
    <3>1. LostInv'
      BY <2>2 DEF LostInv, KindAt, RetryAt, HasData, Deleted, ContextLostOnlyByDelete, callVars
    <3>2. HiddenInv'
      BY <2>2 DEF HiddenInv, SweptAt, Live, IndexKnown, HiddenOnlyByContextDelete, storeVars,
         callVars
    <3> QED BY <3>1, <3>2
  <2>3. ASSUME NEW c \in Contexts, NEW k \in Keys, Expire(c, k) PROVE LostInv' /\ HiddenInv'
    BY <2>2, <2>3 DEF Expire, ExpireKey
  <2>4. CASE UNCHANGED allVars BY <2>2, <2>4 DEF allVars, vars, redisVars
  <2> QED BY <2>1, <2>3, <2>4 DEF SharedNext
<1>3. HiddenInv => HiddenOnlyByContextDelete BY DEF HiddenInv
<1> QED BY <1>1, <1>2, <1>3, StoreInvInit, StoreInvStep, PTL DEF SharedSpec
=============================================================================
