---------------------------- MODULE RedisStorage ----------------------------
(***************************************************************************)
(* RedisStorage: a hash per task, a set of task ids per context and an     *)
(* expiring key per idempotency key.  A Lua script and a MULTI/EXEC block  *)
(* are one step each; everything between them is not.                      *)
(***************************************************************************)
EXTENDS StorageCalls

\* HGETALL of the task; unlike SQL nothing but existence is checked here.
ReadHash(o) ==
  /\ pc[o] = "read"
  /\ Remember(o)
  /\ \/ Live(target[o]) /\ Goto(o, "write") /\ UNCHANGED out
     \/ ~Live(target[o]) /\ Return(o, "not_found")
  /\ UNCHANGED <<storeVars, arg, target, listed, todo, expected, tries,
                 ctxData, redisVars>>

\* The version the script insists on.
OccVersion(o) ==
  IF arg[o].kind = "pinned" THEN expected[o] ELSE got[o].version

\* Mutant: the script is given no version for a blind write.
UpdateScript_Blind(o) ==
  /\ pc[o] = "write"
  /\ \/ /\ ~Live(target[o])
        /\ Return(o, "not_found")
        /\ UNCHANGED <<storeVars, tries>>
     \/ /\ Live(target[o])
        /\ WriteBack(o)
        /\ Return(o, "ok")
        /\ UNCHANGED tries
  /\ UNCHANGED <<arg, target, listed, todo, expected, got, ctxData, redisVars>>

\* _UPDATE_TASK_LUA: existence, version, terminal guard, then HSET of what
\* was merged from the hash read before.
UpdateScript(o) ==
  /\ pc[o] = "write"
  /\ LET row == rows[target[o]]
     IN \/ /\ ~Live(target[o])
           /\ Return(o, "not_found")
           /\ UNCHANGED <<storeVars, tries>>
        \/ /\ Live(target[o])
           /\ row.version # OccVersion(o)
           /\ LoseRace(o)
        \/ /\ Live(target[o])
           /\ row.version = OccVersion(o)
           /\ Guarded(row, arg[o].state)
           /\ Return(o, "terminal")
           /\ UNCHANGED <<storeVars, tries>>
        \/ /\ Live(target[o])
           /\ row.version = OccVersion(o)
           /\ ~Guarded(row, arg[o].state)
           /\ WriteBack(o)
           /\ Return(o, "ok")
           /\ UNCHANGED tries
  /\ UNCHANGED <<arg, target, listed, todo, expected, got, ctxData, redisVars>>

AddToIndex(t, c) == index' = [index EXCEPT ![c] = @ \cup {t}]

\* _CREATE_IDEMPOTENT_LUA: the id behind the key, or a new task with its
\* index entry and its key.
CreateScript(o) ==
  LET ck == <<arg[o].ctx, arg[o].key>>
  IN /\ pc[o] = "insert"
     /\ arg[o].key # Nil
     /\ \/ /\ idem[ck] = Nil
           /\ Insert(target[o], arg[o].ctx, arg[o].key)
           /\ AddToIndex(target[o], arg[o].ctx)
           /\ idem' = [idem EXCEPT ![ck] = target[o]]
           /\ UNCHANGED target
        \/ /\ idem[ck] # Nil
           /\ target' = [target EXCEPT ![o] = idem[ck]]
           /\ UNCHANGED <<storeVars, index, idem>>
     /\ Goto(o, "load")
     /\ UNCHANGED <<arg, listed, todo, out, updateVars, ctxData, forgotten>>

\* Mutant: the SADD is missing.
CreateMulti_NoIndex(o) ==
  /\ pc[o] = "insert"
  /\ arg[o].key = Nil
  /\ Insert(target[o], arg[o].ctx, Nil)
  /\ Goto(o, "load")
  /\ UNCHANGED <<arg, target, listed, todo, out, updateVars, ctxData, index, idem, forgotten>>

\* create_task without a key: HSET and SADD in one MULTI.
CreateMulti(o) ==
  /\ pc[o] = "insert"
  /\ arg[o].key = Nil
  /\ Insert(target[o], arg[o].ctx, Nil)
  /\ AddToIndex(target[o], arg[o].ctx)
  /\ Goto(o, "load")
  /\ UNCHANGED <<arg, target, listed, todo, out, updateVars, ctxData, idem, forgotten>>

\* The TTL of an idempotency key runs out.
ExpireKey(c, k) ==
  /\ idem[<<c, k>>] # Nil
  /\ idem' = [idem EXCEPT ![<<c, k>>] = Nil]
  /\ forgotten' = forgotten \cup {<<c, k>>}
  /\ UNCHANGED <<storeVars, callVars, ctxData, index>>

\* Where a call goes when the task it deletes is gone: delete_context takes
\* the next one, or drops the index.
AfterDelete(o, existed) ==
  IF arg[o].kind = "delete"
  THEN Return(o, IF existed THEN "ok" ELSE "not_found") /\ UNCHANGED todo
  ELSE /\ todo' = [todo EXCEPT ![o] = @ \ {target[o]}]
       /\ Goto(o, IF todo[o] \subseteq {target[o]} THEN "drop_index" ELSE "list")
       /\ UNCHANGED out

\* delete_task: HMGET of context and idempotency key, a hint only.
ReadHint(o) ==
  /\ pc[o] = "hint"
  /\ \/ /\ Live(target[o])
        /\ got' = [got EXCEPT ![o] = rows[target[o]]]
        /\ Goto(o, "remove")
        /\ UNCHANGED <<todo, out>>
     \/ /\ ~Live(target[o])
        /\ AfterDelete(o, FALSE)
        /\ UNCHANGED got
  /\ UNCHANGED <<storeVars, arg, target, listed, expected, tries,
                 ctxData, redisVars>>

\* Mutant: the idempotency key outlives its task.
DeleteMulti_KeepsKey(o) ==
  /\ pc[o] = "remove"
  /\ Remove({target[o]})
  /\ index' = [index EXCEPT ![got[o].ctx] = @ \ {target[o]}]
  /\ AfterDelete(o, Live(target[o]))
  /\ UNCHANGED <<arg, target, listed, updateVars, ctxData, idem, forgotten>>

\* SREM, DEL of the hash and DEL of the key in one MULTI; the key goes even
\* when it belongs to a younger task by now: the older one's key expired, or
\* another delete of it was faster.
DeleteMulti(o) ==
  LET ck == <<got[o].ctx, got[o].key>>
  IN /\ pc[o] = "remove"
     /\ Remove({target[o]})
     /\ index' = [index EXCEPT ![got[o].ctx] = @ \ {target[o]}]
     /\ idem' = [x \in DOMAIN idem |-> IF x = ck THEN Nil ELSE idem[x]]
     /\ forgotten' = forgotten \cup
          {x \in DOMAIN idem : x = ck /\ idem[x] \notin {Nil, target[o]}}
     /\ AfterDelete(o, Live(target[o]))
     /\ UNCHANGED <<arg, target, listed, updateVars, ctxData>>

\* delete_context: SMEMBERS, once.
ListContext(o) ==
  /\ pc[o] = "list"
  /\ target[o] = Nil
  /\ listed' = [listed EXCEPT ![o] = index[arg[o].ctx]]
  /\ todo' = [todo EXCEPT ![o] = index[arg[o].ctx]]
  /\ \/ /\ index[arg[o].ctx] = {}
        /\ Goto(o, "drop_index")
        /\ UNCHANGED target
     \/ \E t \in index[arg[o].ctx] :
          target' = [target EXCEPT ![o] = t] /\ Goto(o, "hint")
  /\ UNCHANGED <<storeVars, arg, out, updateVars, ctxData, redisVars>>

\* ... then delete_task for each of them ...
DeleteNext(o) ==
  /\ pc[o] = "list"
  /\ target[o] # Nil
  /\ \E t \in todo[o] :
       target' = [target EXCEPT ![o] = t] /\ Goto(o, "hint")
  /\ UNCHANGED <<storeVars, arg, listed, todo, out, updateVars, ctxData, redisVars>>

\* ... and DEL of the index set and of the context data.
DropIndex(o) ==
  /\ pc[o] = "drop_index"
  /\ index' = [index EXCEPT ![arg[o].ctx] = {}]
  /\ ctxData' = [ctxData EXCEPT ![arg[o].ctx] = Nil]
  /\ Return(o, "ok")
  /\ UNCHANGED <<storeVars, arg, target, listed, todo, updateVars, idem, forgotten>>

\* update_context is one SET.
SetContext(o) ==
  /\ pc[o] = "ctx_update"
  /\ ctxData' = [ctxData EXCEPT ![arg[o].ctx] = o]
  /\ Return(o, "ok")
  /\ UNCHANGED <<storeVars, arg, target, listed, todo, updateVars, redisVars>>

RedisStep(o) ==
  \/ Call(o) \/ GetVersion(o) \/ ReadHash(o) \/ UpdateScript(o)
  \/ CreateScript(o) \/ CreateMulti(o) \/ LoadCreated(o)
  \/ ReadHint(o) \/ DeleteMulti(o)
  \/ ListContext(o) \/ DeleteNext(o) \/ DropIndex(o) \/ SetContext(o)
=============================================================================
