----------------------- MODULE CacheRefinementProofs ------------------------
(***************************************************************************)
(* Proof that CacheStore keeps the promises of ResultCache, whatever the   *)
(* threads, keys and values, over crashes and the other process.           *)
(***************************************************************************)
EXTENDS CacheStoreProofs

(* What the holder of _lock is entitled to do.  An invalidation has only    *)
(* keys on its list that were asked for, an eviction no pinned ones, and a  *)
(* put inserts what its key is remembered to have held.                     *)
EntitledOK ==
    \A t \in Threads :
        /\ call[t].pc = "drop" => call[t].todo \subseteq doomed
        /\ call[t].pc = "evicting" => call[t].todo \cap pinned = {}
        /\ call[t].pc = "insert" => history[call[t].key] \in {Absent, call[t].made}

(* A deletion that is not committed yet is on the list of its holder, or    *)
(* was left by an invalidation that failed and is remembered.               *)
Listing(t) == \/ call[t].pc = "evicting"
              \/ call[t].pc = "drop" /\ call[t].op = "family"
DeletedOK ==
    \A k \in deleted :
        \/ k \in doomed /\ history[k] = store[k]
        \/ \E t \in Threads : Listing(t) /\ k \in call[t].todo

Entitled == Typed /\ EntitledOK /\ DeletedOK

(* Nobody has a list, and nothing is deleted, at the start.                 *)
LEMMA InitEntitled == Init => Entitled
BY InitTyped DEF Init, Idle, Entitled, EntitledOK, DeletedOK

(* No step leaves the holder of _lock with a list it is not entitled to.    *)
LEMMA EntitledStep ==
  ASSUME Entitled, CacheAssumption, [Next]_vars
  PROVE  EntitledOK' /\ DeletedOK'
<1>a. /\ Typed /\ TypeOK /\ call \in [Threads -> Good] /\ LockOK /\ TodoOK
      /\ EntitledOK /\ DeletedOK
  BY DEF Entitled, Typed
<1>b. \A t \in Threads : t # None  BY CacheAssumption
<1>1. ASSUME NEW t \in Threads, Call(t) \/ Step(t) PROVE EntitledOK'
  <2>0. \A u \in Threads \ {t} : call'[u] = call[u]
    BY <1>1, <1>a, CallStep
  <2>1. ASSUME NEW u \in Threads \ {t}, call'[u].pc \in Held
        PROVE  call'[u] = call[u] /\ UNCHANGED <<pinned, history, doomed>>
    <3>1. call'[u] = call[u] /\ lock = u  BY <2>0, <2>1, <1>a DEF LockOK
    <3>. QED  BY <3>1, <1>1, <1>a, OthersWait
  <2>2. ASSUME call'[t].pc = "drop" PROVE call'[t].todo \subseteq doomed'
    <3>1. CASE Invalidate(t)
      BY <3>1, <1>a DEF Invalidate, Good, Locals, Idle
    <3>2. CASE DropOne(t) /\ UNCHANGED call
      BY <3>2, <2>2, <1>a DEF DropOne, EntitledOK
    <3>. QED  BY <3>1, <3>2, <2>2, <1>1, <1>a, DropMove
  <2>3. ASSUME call'[t].pc = "evicting" PROVE call'[t].todo \cap pinned' = {}
    <3>1. CASE Evict(t) \/ EvictAfterPut(t)
      <4>1. call'[t].todo = Rows \ pinned  BY <3>1, <1>a, ListTaken
      <4>2. UNCHANGED pinned  BY <3>1 DEF Evict, EvictAfterPut, Listed, dbVars
      <4>. QED  BY <4>1, <4>2
    <3>2. CASE EvictOne(t)
      <4>1. call[t].pc = "evicting" /\ call'[t].todo = call[t].todo
        BY <3>2, <1>a DEF EvictOne, Good, Locals
      <4>2. UNCHANGED pinned  BY <3>2 DEF EvictOne, Delete
      <4>. QED  BY <4>1, <4>2, <1>a DEF EntitledOK
    <3>. QED  BY <3>1, <3>2, <2>3, <1>1, <1>a, EvictMove
  <2>4. ASSUME call'[t].pc = "insert" PROVE history'[call'[t].key] \in {Absent, call'[t].made}
    BY <2>4, <1>1, <1>a, InsertMove DEF PutEffect, Remembers
  <2>5. ASSUME NEW u \in Threads \ {t}
        PROVE  /\ call'[u].pc = "drop" => call'[u].todo \subseteq doomed'
               /\ call'[u].pc = "evicting" => call'[u].todo \cap pinned' = {}
               /\ call'[u].pc = "insert" => history'[call'[u].key] \in {Absent, call'[u].made}
    <3>1. CASE call'[u].pc \in Held
      BY <3>1, <2>1, <1>a DEF EntitledOK
    <3>2. CASE call'[u].pc \notin Held
      BY <3>2 DEF Held
    <3>. QED  BY <3>1, <3>2
  <2>. QED  BY <2>2, <2>3, <2>4, <2>5 DEF EntitledOK
<1>2. ASSUME NEW t \in Threads, Call(t) \/ Step(t) PROVE DeletedOK'
  <2>0. \A u \in Threads \ {t} : call'[u] = call[u]
    BY <1>2, <1>a, CallStep
  <2>1. CASE deleted' = {}
    BY <2>1 DEF DeletedOK
  <2>2. CASE EvictOne(t)
    <3>1. PICK k \in Remaining(t) : deleted' = deleted \cup {k}
      BY <2>2 DEF EvictOne, Delete
    <3>2. UNCHANGED <<store, history, doomed>>  BY <2>2 DEF EvictOne, Delete
    <3>3. call'[t].pc = "evicting" /\ call[t].pc = "evicting" /\ call'[t].todo = call[t].todo
          /\ call'[t].op = call[t].op
      BY <2>2, <1>a DEF EvictOne, Good, Locals
    <3>. QED  BY <3>1, <3>2, <3>3, <2>0, <1>a DEF DeletedOK, Listing, Remaining
  <2>3. CASE DropOne(t) /\ ~Finish(t, Failed)
    <3>1. PICK k \in Remaining(t) :
            /\ call[t].op = "family" \/ files[k] = store[k]
            /\ deleted' = deleted \cup {k}
            /\ history' = IF call[t].op = "family" THEN history
                          ELSE [history EXCEPT ![k] = store[k]]
      BY <2>3 DEF DropOne, Delete
    <3>2. UNCHANGED <<store, doomed, call>> /\ call[t].pc = "drop"
      BY <2>3 DEF DropOne, Delete
    <3>3. k \in call[t].todo /\ k \notin deleted /\ k \in doomed /\ k \in Keys
      BY <3>2, <1>a DEF Remaining, EntitledOK, Good, Locals
    <3>4. \A x \in deleted : history'[x] = history[x]
      BY <3>1, <3>3, <1>a DEF TypeOK
    <3>5. call[t].op # "family" => history'[k] = store'[k]
      BY <3>1, <3>2, <3>3, <1>a DEF TypeOK
    <3>. QED  BY <3>1, <3>2, <3>3, <3>4, <3>5, <1>a DEF DeletedOK, Listing
  <2>4. CASE DropOne(t) /\ Finish(t, Failed)
    <3>1. lock = t  BY <2>4, <1>a DEF DropOne, LockOK, Held
    <3>2. \A u \in Threads : Listing(u) => u = t  BY <3>1, <1>a DEF Listing, LockOK, Held
    <3>3. UNCHANGED call => FALSE
      <4>1. call'[t].pc \notin Held  BY <2>4, <1>a, OverPlace DEF Finish
      <4>. QED  BY <2>4, <4>1 DEF DropOne, Held
    <3>4. /\ UNCHANGED <<store, deleted, history, doomed>>
          /\ call[t].op = "invalidate" /\ call[t].pc = "drop"
      BY <2>4, <3>3 DEF DropOne, dbVars
    <3>5. ~Listing(t)  BY <3>4 DEF Listing
    <3>. QED  BY <3>2, <3>4, <3>5, <1>a DEF DeletedOK
  <2>5. CASE deleted' # {} /\ ~EvictOne(t) /\ ~DropOne(t)
    <3>1. UNCHANGED <<store, deleted, history>> /\ doomed \subseteq doomed' /\ ~Listing(t)
      <4>1. CASE Put(t) \/ PutCheck(t)
        BY <4>1, <1>a, PutChecks DEF PutEffect, Listing
      <4>2. ~(Touch(t) \/ Record(t) \/ PutInsert(t) \/ PutFails(t) \/ EvictDone(t)
              \/ DropDone(t))
        BY <2>5 DEF Touch, Record, PutInsert, PutFails, EvictDone, DropDone, Commit, Rollback
      <4>3. CASE Pin(t)
        BY <4>3, <2>5 DEF Pin, Calling, Listing, dbVars
      <4>4. CASE Compute(t) \/ Get(t) \/ Evict(t) \/ Invalidate(t) \/ AcquireKey(t)
                 \/ Unlock(t) \/ Describe(t) \/ Read(t) \/ Factory(t) \/ Budget(t)
                 \/ EvictAfterPut(t)
        BY <4>4 DEF Compute, Get, Evict, Invalidate, AcquireKey, Unlock, Describe, Read,
           Factory, Budget, EvictAfterPut, Listed, Calling, Listing, dbVars
      <4>. QED  BY <1>2, <2>5, <4>1, <4>2, <4>3, <4>4 DEF Call, Step
    <3>2. \A u \in Threads : Listing(u) => call'[u] = call[u]
      BY <3>1, <2>0
    <3>. QED  BY <3>1, <3>2, <1>a DEF DeletedOK, Listing
  <2>. QED  BY <2>1, <2>2, <2>3, <2>4, <2>5
<1>3. CASE OtherWrite
  BY <1>3, <1>a DEF OtherWrite, EntitledOK, DeletedOK, Listing, dbVars
<1>4. CASE OtherInsert
  <2>1. UNCHANGED <<pinned, deleted, history, call>> /\ deleted = {}
    BY <1>4 DEF OtherInsert
  <2>2. \A t \in Threads : call[t].pc = "drop" => call[t].todo \subseteq doomed'
    BY <1>4, <1>a DEF OtherInsert, EntitledOK, TodoOK
  <2>. QED  BY <2>1, <2>2, <1>a DEF EntitledOK, DeletedOK
<1>5. CASE Crash
  BY <1>5 DEF Crash, Rollback, EntitledOK, DeletedOK, Idle
<1>6. CASE UNCHANGED vars
  BY <1>6, <1>a DEF vars, EntitledOK, DeletedOK, Listing
<1>. QED  BY <1>1, <1>2, <1>3, <1>4, <1>5, <1>6 DEF Next, Rest

-----------------------------------------------------------------------------
(* The uncommitted deletions are all of entries that may leave: those of a  *)
(* failed invalidation when nobody evicts, invalidates or drops a family.   *)
LEMMA DeletedMayGo ==
  ASSUME Entitled, CacheAssumption
  PROVE  /\ deleted \subseteq Keys
         /\ deleted \subseteq doomed \cup (Keys \ pinned)
         /\ (\A t \in Threads : ~Listing(t)) =>
              \A k \in deleted : k \in doomed /\ history[k] = store[k]
<1>1. deleted \subseteq Keys  BY DEF Entitled, Typed, TypeOK
<1>2. \A t \in Threads : Listing(t) => \A k \in call[t].todo : k \in doomed \/ k \notin pinned
  BY DEF Entitled, EntitledOK, Listing
<1>. QED  BY <1>1, <1>2 DEF Entitled, DeletedOK

(* While nobody works on a list, every uncommitted deletion is of a doomed  *)
(* entry that is remembered.                                                *)
LEMMA FreeDeleted ==
  ASSUME Entitled, CacheAssumption, lock = None \/ \E t \in Threads : call[t].pc = "insert"
  PROVE  deleted \subseteq doomed /\ \A k \in deleted : history[k] = store[k]
<1>1. \A t \in Threads : ~Listing(t)
  BY CacheAssumption DEF Entitled, Typed, LockOK, Listing, Held
<1>. QED  BY <1>1, DeletedMayGo

(* What a step of a thread shows of its call.                               *)
LEMMA Views ==
  ASSUME call \in [Threads -> Locals], NEW t \in Threads,
         call' \in [Threads -> Locals], \A u \in Threads \ {t} : call'[u] = call[u]
  PROVE  /\ [u \in Threads |-> call[u].meta]'
              = [[u \in Threads |-> call[u].meta] EXCEPT ![t] = call'[t].meta]
         /\ [u \in Threads |-> call[u].out]'
              = [[u \in Threads |-> call[u].out] EXCEPT ![t] = call'[t].out]
OBVIOUS

(* A call that returns shows its answer and forgets what it had found.      *)
LEMMA FinishView ==
  ASSUME call \in [Threads -> Locals], NEW t \in Threads, NEW out, Finish(t, out)
  PROVE  call'[t].meta = Absent /\ call'[t].out = out
BY DEF Finish, Over, Idle

(* A step of a thread is a step that the callers' view of the cache allows, *)
(* or invisible in it.                                                      *)
LEMMA ThreadStep ==
  ASSUME Entitled, CacheAssumption, NEW t \in Threads, Call(t) \/ Step(t)
  PROVE  Promised!Next \/ UNCHANGED Promised!vars
<1>. DEFINE c == call[t]
            d == call'[t]
            goal == Promised!Next \/ UNCHANGED Promised!vars
            Gone(gone) == /\ store' = [k \in Keys |-> IF k \in gone THEN Absent ELSE store[k]]
                          /\ pinned' = pinned \ gone
            MayGo == doomed \cup (Keys \ pinned)
<1>a. /\ Typed /\ TypeOK /\ call \in [Threads -> Good] /\ LockOK
      /\ call \in [Threads -> Locals] /\ c \in Locals /\ LocalOK(c)
      /\ store \in [Keys -> Values \cup {Absent}]
  BY DEF Entitled, Typed, TypeOK, Good
<1>b. /\ \A u \in Threads \ {t} : call'[u] = call[u]
      /\ call' \in [Threads -> Locals] /\ d \in Locals
  BY <1>a, CallStep DEF Good
<1>c. /\ [u \in Threads |-> call[u].meta]'
           = [[u \in Threads |-> call[u].meta] EXCEPT ![t] = d.meta]
      /\ [u \in Threads |-> call[u].out]'
           = [[u \in Threads |-> call[u].out] EXCEPT ![t] = d.out]
  BY <1>a, <1>b, Views
<1>d. Absent \notin Values /\ Absent # Failed /\ Absent # None /\ t # None
  BY CacheAssumption
<1>e. deleted \subseteq Keys /\ deleted \subseteq MayGo
  BY DeletedMayGo
<1>f. lock = None => deleted \subseteq doomed
  BY FreeDeleted
<1>. SUFFICES goal  OBVIOUS
<1>. HIDE DEF c, d
<1>1. ASSUME d.meta = c.meta, d.out = c.out, UNCHANGED <<store, pinned, doomed>> PROVE goal
  BY <1>1, <1>a, <1>b, <1>c DEF Promised!vars, c, d
<1>2. ASSUME d.meta = c.meta, d.out = None, UNCHANGED <<store, pinned, doomed>> PROVE goal
  <2>1. Promised!Begin(t)  BY <1>2, <1>c, <1>a DEF Promised!Begin, c
  <2>. QED  BY <2>1 DEF Promised!Next
<1>3. ASSUME NEW k \in Keys, d.meta = store[k], d.out = None, UNCHANGED <<store, pinned, doomed>>
      PROVE  goal
  <2>1. Promised!Look(t)  BY <1>3, <1>c DEF Promised!Look
  <2>. QED  BY <2>1 DEF Promised!Next
<1>4. ASSUME NEW k \in Keys, d.out = store[k] \/ (d.out = Absent /\ k \in doomed),
             d.meta = Absent, UNCHANGED <<store, pinned, doomed>>
      PROVE  goal
  <2>1. Promised!Reply(t)  BY <1>4, <1>c DEF Promised!Reply, Promised!Seen
  <2>. QED  BY <2>1 DEF Promised!Next
<1>5. ASSUME NEW gone \in SUBSET MayGo, Gone(gone), UNCHANGED doomed,
             d.meta = Absent, d.out \in {c.meta, Failed, None}, d.out # Absent
      PROVE  goal
  <2>1. [u \in Threads |-> call[u].meta][t] = c.meta  BY DEF c
  <2>2. Promised!Answer(t)  BY <1>5, <1>c, <2>1 DEF Promised!Answer
  <2>. QED  BY <2>2 DEF Promised!Next
<1>6. ASSUME NEW gone \in SUBSET MayGo, Gone(gone), UNCHANGED doomed,
             d.meta = c.meta, d.out = c.out
      PROVE  goal
  <2>1. Promised!Drop  BY <1>6, <1>a, <1>b, <1>c DEF Promised!Drop, c, d
  <2>. QED  BY <2>1 DEF Promised!Next
<1>7. UNCHANGED <<store, pinned>> => Gone({})  BY <1>a DEF TypeOK
<1>8. Commit => Gone(deleted)  BY <1>a DEF Commit, Row
<1>. HIDE DEF goal, Gone, MayGo
<1>9. ASSUME UNCHANGED <<store, pinned, doomed>>,
             Finish(t, Failed) \/ Finish(t, None) \/ (Finish(t, c.meta) /\ c.meta # Absent)
      PROVE  goal
  <2>1. d.meta = Absent /\ d.out \in {c.meta, Failed, None} /\ d.out # Absent
    BY <1>9, <1>a, <1>d, FinishView DEF d
  <2>2. {} \in SUBSET MayGo  OBVIOUS
  <2>. QED  BY <1>9, <2>1, <2>2, <1>5, <1>7
<1>10. ASSUME Commit, UNCHANGED doomed,
              Finish(t, Failed) \/ Finish(t, None) \/ (Finish(t, c.meta) /\ c.meta # Absent)
       PROVE  goal
  <2>1. d.meta = Absent /\ d.out \in {c.meta, Failed, None} /\ d.out # Absent
    BY <1>10, <1>a, <1>d, FinishView DEF d
  <2>2. deleted \in SUBSET MayGo  BY <1>e
  <2>. QED  BY <1>10, <2>1, <2>2, <1>5, <1>8
<1>11. CASE Compute(t)
  <2>1. PICK k \in Keys, l \in Locks :
          call' = [call EXCEPT ![t] =
                [Idle EXCEPT !.pc = "keylock", !.op = "compute", !.key = k, !.lk = l]]
    BY <1>11 DEF Compute
  <2>2. d = [Idle EXCEPT !.pc = "keylock", !.op = "compute", !.key = k, !.lk = l]
    BY <2>1, <1>a DEF d
  <2>3. d.meta = Absent /\ d.out = None  BY <2>2 DEF Idle
  <2>4. c.meta = Absent  BY <1>11, <1>a DEF Compute, Calling, LocalOK, c
  <2>. QED  BY <2>3, <2>4, <1>11, <1>2 DEF Compute, dbVars
<1>12. CASE AcquireKey(t)
  <2>1. d = [c EXCEPT !.pc = "describe"]  BY <1>12, <1>a DEF AcquireKey, Goto, c, d
  <2>2. d.meta = c.meta /\ d.out = c.out  BY <2>1, <1>a DEF Locals
  <2>. QED  BY <2>2, <1>12, <1>1 DEF AcquireKey, dbVars
<1>13. CASE Unlock(t)
  <2>1. d.meta = Absent /\ d.out = c.out  BY <1>13, <1>a DEF Unlock, Idle, c, d
  <2>2. c.meta = Absent  BY <1>13, <1>a DEF Unlock, LocalOK, c
  <2>. QED  BY <2>1, <2>2, <1>13, <1>1 DEF Unlock, dbVars
(* A look at a row, which the free lock shows to be committed.              *)
<1>14. ASSUME NEW r \in Locals, r.key \in Keys, r.op \in {"get", "compute", "recover"},
              r.meta = Absent, r.out = None, c.meta = Absent, lock = None,
              call' = [call EXCEPT ![t] = Found(r)], UNCHANGED <<store, pinned, doomed>>
       PROVE  goal
  <2>1. d = Found(r)  BY <1>14, <1>a DEF d
  <2>2. CASE Row(r.key) # Absent
    <3>1. d = [r EXCEPT !.pc = "read", !.meta = Row(r.key)]  BY <2>1, <2>2 DEF Found
    <3>2. d.meta = store[r.key] /\ d.out = None  BY <3>1, <2>2, <1>14 DEF Row, Locals
    <3>. QED  BY <3>2, <1>3, <1>14
  <2>3. CASE Row(r.key) = Absent /\ r.op = "get"
    <3>1. d = Over(r, Absent)  BY <2>1, <2>3 DEF Found
    <3>2. d.meta = Absent /\ d.out = Absent  BY <3>1, <2>3 DEF Over, Idle
    <3>3. store[r.key] = Absent \/ r.key \in doomed  BY <2>3, <1>14, <1>f DEF Row
    <3>. QED  BY <3>2, <3>3, <1>4, <1>14
  <2>4. CASE Row(r.key) = Absent /\ r.op = "compute"
    <3>1. d = [r EXCEPT !.pc = "factory"]  BY <2>1, <2>4 DEF Found
    <3>2. d.meta = c.meta /\ d.out = None  BY <3>1, <1>14 DEF Locals
    <3>. QED  BY <3>2, <1>2, <1>14
  <2>5. CASE Row(r.key) = Absent /\ r.op = "recover"
    <3>1. d = Over(r, Failed)  BY <2>1, <2>5 DEF Found
    <3>2. d.meta = Absent /\ d.out = Failed  BY <3>1 DEF Over, Idle
    <3>. QED  BY <3>2, <1>5, <1>7, <1>14, <1>d
  <2>. QED  BY <2>2, <2>3, <2>4, <2>5, <1>14
<1>15. CASE Get(t)
  <2>1. PICK k \in Keys : call' = [call EXCEPT ![t] = Found([Idle EXCEPT !.op = "get", !.key = k])]
    BY <1>15 DEF Get
  <2>. DEFINE r == [Idle EXCEPT !.op = "get", !.key = k]
  <2>2. r \in Locals /\ r.key \in Keys /\ r.op = "get" /\ r.meta = Absent /\ r.out = None
    BY IdleTyped DEF Locals, Operations
  <2>3. c.meta = Absent  BY <1>15, <1>a DEF Get, Calling, LocalOK, c
  <2>. HIDE DEF r
  <2>. QED  BY <2>1, <2>2, <2>3, <1>14, <1>15 DEF Get, dbVars, r
<1>16. CASE Describe(t)
  <2>1. /\ c.key \in Keys /\ c.op \in {"get", "compute", "recover"}
        /\ c.meta = Absent /\ c.out = None
    BY <1>16, <1>a DEF Describe, LocalOK, c
  <2>2. call' = [call EXCEPT ![t] = Found(c)]  BY <1>16, <1>a DEF Describe, c
  <2>. QED  BY <2>1, <2>2, <1>a, <1>14, <1>16 DEF Describe, dbVars
<1>17. CASE Read(t)
  <2>1. c.meta \in Values  BY <1>17, <1>a DEF Read, LocalOK, c
  <2>2. CASE Goto(t, "touch")
    <3>1. d = [c EXCEPT !.pc = "touch"]  BY <2>2, <1>a DEF Goto, c, d
    <3>2. d.meta = c.meta /\ d.out = c.out  BY <3>1, <1>a DEF Locals
    <3>. QED  BY <3>2, <1>17, <1>1 DEF Read, dbVars
  <2>3. CASE Finish(t, Failed) \/ Finish(t, c.meta)
    BY <2>1, <2>3, <1>d, <1>9, <1>17 DEF Read, dbVars
  <2>. QED  BY <2>2, <2>3, <1>17 DEF Read, c
<1>18. CASE Touch(t)
  <2>1. c.meta \in Values  BY <1>18, <1>a DEF Touch, LocalOK, c
  <2>. QED  BY <2>1, <1>d, <1>10, <1>18 DEF Touch, c
<1>19. CASE Factory(t)
  <2>1. CASE Finish(t, Failed)
    BY <2>1, <1>9, <1>19 DEF Factory, dbVars
  <2>2. ASSUME NEW v, call' = [call EXCEPT ![t].pc = "check", ![t].made = v] PROVE goal
    <3>1. d = [c EXCEPT !.pc = "check", !.made = v]  BY <2>2, <1>a DEF c, d
    <3>2. d.meta = c.meta /\ d.out = c.out  BY <3>1, <1>a DEF Locals
    <3>. QED  BY <3>2, <1>19, <1>1 DEF Factory, dbVars
  <2>. QED  BY <2>1, <2>2, <1>19 DEF Factory
<1>20. CASE Put(t) \/ PutCheck(t)
  <2>1. PICK r \in Locals : PutEffect(t, r)  BY <1>a, <1>20, PutChecks
  <2>2. c.meta = Absent  BY <1>20, <1>a, PutChecks DEF LocalOK, c
  <2>3. lock = None /\ UNCHANGED <<store, pinned, doomed>> /\ r.key \in Keys /\ r.made \in Values
        /\ r.meta = Absent /\ r.out = None
    BY <2>1 DEF PutEffect
  <2>4. ASSUME NEW out, call' = [call EXCEPT ![t] = Over(r, out)]
        PROVE  d.meta = Absent /\ d.out = out
    BY <2>4, <1>a DEF Over, Idle, d
  <2>5. ASSUME NEW out \in {Failed, None}, call' = [call EXCEPT ![t] = Over(r, out)] PROVE goal
    BY <2>3, <2>4, <2>5, <1>5, <1>7, <1>d
  <2>6. ASSUME call' = [call EXCEPT ![t] = Over(r, r.made)], Row(r.key) = r.made PROVE goal
    <3>1. d.out = store[r.key]  BY <2>3, <2>4, <2>6, <1>d DEF Row
    <3>. QED  BY <3>1, <2>3, <2>4, <2>6, <1>4
  <2>7. ASSUME call' = [call EXCEPT ![t] = [r EXCEPT !.pc = "insert"]] PROVE goal
    <3>1. d = [r EXCEPT !.pc = "insert"]  BY <2>7, <1>a DEF d
    <3>2. d.meta = c.meta /\ d.out = None  BY <3>1, <2>2, <2>3 DEF Locals
    <3>. QED  BY <3>2, <2>3, <1>2
  <2>. QED  BY <2>1, <2>5, <2>6, <2>7 DEF PutEffect
(* The row of a put replaces nothing but a doomed deletion of its own value. *)
<1>21. CASE PutInsert(t)
  <2>. DEFINE k == c.key
              v == c.made
  <2>1. /\ k \in Keys /\ v \in Values /\ c.pc = "insert"
        /\ history[k] \in {Absent, v}
    BY <1>21, <1>a DEF PutInsert, LocalOK, Entitled, EntitledOK, c
  <2>2. deleted \subseteq doomed /\ \A x \in deleted : history[x] = store[x]
    BY <2>1, FreeDeleted DEF c
  <2>3. /\ Row(k) = Absent
        /\ store' = [x \in Keys |-> IF x = k THEN v ELSE Row(x)]
        /\ pinned' = (pinned \ (deleted \cup {k})) \cup ({k} \cap PinnedAtPut)
        /\ doomed' = doomed \ {k}
        /\ d = [c EXCEPT !.pc = "budget", !.meta = v]
    BY <1>21, <1>a DEF PutInsert, c, d
  <2>4. d.meta = v /\ d.out = c.out  BY <2>3, <1>a DEF Locals
  <2>. HIDE DEF k, v
  <2>5. store[k] \in {Absent, v} /\ (store[k] = v => k \in doomed)
    <3>1. CASE k \in deleted
      <4>1. store[k] # Absent  BY <3>1, <1>a DEF TypeOK
      <4>. QED  BY <3>1, <4>1, <2>1, <2>2
    <3>2. CASE k \notin deleted
      BY <3>2, <2>1, <2>3, <1>d DEF Row
    <3>. QED  BY <3>1, <3>2
  <2>6. store' = [x \in Keys |-> IF x = k THEN v ELSE IF x \in deleted THEN Absent ELSE store[x]]
    BY <2>3 DEF Row
  <2>7. /\ [u \in Threads |-> call[u].meta]'
             = [[u \in Threads |-> call[u].meta] EXCEPT ![t] = v]
        /\ UNCHANGED [u \in Threads |-> call[u].out]
    <3>1. \A u \in Threads : call'[u].out = call[u].out  BY <2>4, <1>b DEF c, d
    <3>. QED  BY <3>1, <2>4, <1>c
  <2>8. Promised!Insert
    <3>. DEFINE pin == {k} \cap PinnedAtPut
    <3>1. pin \in SUBSET {k} /\ deleted \in SUBSET doomed  BY <2>2
    <3>2. pinned' = (pinned \ (deleted \cup {k})) \cup pin  BY <2>3
    <3>. HIDE DEF pin
    <3>. DEFINE looked == [u \in Threads |-> call[u].meta]
    <3>3. looked' \in {looked} \cup {[looked EXCEPT ![u] = v] : u \in Threads}
      BY <2>7
    <3>4. doomed' = doomed \ {k}  BY <2>3
    <3>5. UNCHANGED [u \in Threads |-> call[u].out]  BY <2>7
    <3>. HIDE DEF looked
    <3>. USE <2>1, <3>1 DEF Promised!Insert
    <3>. WITNESS k \in Keys
    <3>. WITNESS v \in Values, pin \in SUBSET {k}, deleted \in SUBSET doomed
    <3>. QED  BY <2>5, <2>6, <3>2, <3>3, <3>4, <3>5 DEF looked
  <2>. QED  BY <2>8 DEF Promised!Next, goal
<1>22. CASE PutFails(t)
  <2>1. UNCHANGED <<store, pinned, doomed>>  BY <1>22 DEF PutFails, Rollback
  <2>2. ASSUME call' = [call EXCEPT ![t].pc = "describe", ![t].op = "recover"] PROVE goal
    <3>1. d = [c EXCEPT !.pc = "describe", !.op = "recover"]  BY <2>2, <1>a DEF c, d
    <3>2. d.meta = c.meta /\ d.out = c.out  BY <3>1, <1>a DEF Locals
    <3>. QED  BY <3>2, <2>1, <1>1
  <2>. QED  BY <2>1, <2>2, <1>9, <1>22 DEF PutFails
<1>23. CASE Budget(t)
  <2>1. UNCHANGED <<store, pinned, doomed>>  BY <1>23 DEF Budget, dbVars
  <2>2. c.meta = c.made /\ c.meta # Absent  BY <1>23, <1>a, <1>d DEF Budget, LocalOK, c
  <2>3. CASE Goto(t, "evict")
    <3>1. d = [c EXCEPT !.pc = "evict"]  BY <2>3, <1>a DEF Goto, c, d
    <3>2. d.meta = c.meta /\ d.out = c.out  BY <3>1, <1>a DEF Locals
    <3>. QED  BY <3>2, <2>1, <1>1
  <2>4. CASE Finish(t, Failed) \/ Finish(t, None) \/ Finish(t, c.meta)
    BY <2>1, <2>2, <2>4, <1>9
  <2>5. \/ Goto(t, "evict") \/ Finish(t, Failed) \/ Finish(t, None) \/ Finish(t, c.made)
    BY <1>23 DEF Budget, c
  <2>. QED  BY <2>2, <2>3, <2>4, <2>5
<1>24. CASE Evict(t)
  <2>1. d = [Idle EXCEPT !.op = "evict", !.pc = "evicting", !.todo = Rows \ pinned,
                         !.total = DiskBytes]
    BY <1>24, <1>a DEF Evict, Listed, Idle, d
  <2>2. d.meta = Absent /\ d.out = None  BY <2>1 DEF Idle
  <2>3. c.meta = Absent  BY <1>24, <1>a DEF Evict, Calling, LocalOK, c
  <2>. QED  BY <2>2, <2>3, <1>2, <1>24 DEF Evict, Listed, dbVars
<1>25. CASE EvictAfterPut(t)
  <2>1. d = [c EXCEPT !.pc = "evicting", !.todo = Rows \ pinned, !.total = DiskBytes]
    BY <1>25, <1>a DEF EvictAfterPut, Listed, c, d
  <2>2. d.meta = c.meta /\ d.out = c.out  BY <2>1, <1>a DEF Locals
  <2>. QED  BY <2>2, <1>1, <1>25 DEF EvictAfterPut, Listed, dbVars
<1>26. CASE EvictOne(t)
  <2>1. PICK n : d = [c EXCEPT !.total = n]  BY <1>26, <1>a DEF EvictOne, c, d
  <2>2. d.meta = c.meta /\ d.out = c.out  BY <2>1, <1>a DEF Locals
  <2>. QED  BY <2>2, <1>1, <1>26 DEF EvictOne, Delete
<1>27. CASE EvictDone(t) \/ DropDone(t)
  <2>1. Commit /\ UNCHANGED doomed /\ Report(t) /\ c.pc \in {"evicting", "drop"}
    BY <1>27 DEF EvictDone, DropDone, c
  <2>2. Computing(t) => c.made = c.meta /\ c.meta # Absent
    BY <2>1, <1>a, <1>d DEF LocalOK, Computing, c
  <2>3. CASE call' = [call EXCEPT ![t].pc = "record", ![t].todo = {}, ![t].total = 0]
    <3>1. d = [c EXCEPT !.pc = "record", !.todo = {}, !.total = 0]  BY <2>3, <1>a DEF c, d
    <3>2. d.meta = c.meta /\ d.out = c.out  BY <3>1, <1>a DEF Locals
    <3>3. deleted \in SUBSET MayGo  BY <1>e
    <3>. QED  BY <3>2, <3>3, <2>1, <1>6, <1>8
  <2>4. CASE Finish(t, IF Computing(t) THEN c.made ELSE None)
    <3>1. Finish(t, None) \/ (Finish(t, c.meta) /\ c.meta # Absent)  BY <2>2, <2>4
    <3>. QED  BY <3>1, <2>1, <1>10
  <2>. QED  BY <2>1, <2>3, <2>4 DEF Report, c
<1>28. CASE Invalidate(t)
  <2>1. PICK k \in Keys, op \in Operations, asked \in SUBSET Keys :
          /\ call' = [call EXCEPT ![t] = [Idle EXCEPT !.pc = "drop", !.op = op, !.key = k,
                                                      !.todo = asked \cap Rows]]
          /\ doomed' = doomed \cup asked
    BY <1>28 DEF Invalidate, Affected, Rows, Operations
  <2>2. d = [Idle EXCEPT !.pc = "drop", !.op = op, !.key = k, !.todo = asked \cap Rows]
    BY <2>1, <1>a DEF d
  <2>3. d.meta = Absent /\ d.out = None  BY <2>2 DEF Idle
  <2>4. c.meta = Absent  BY <1>28, <1>a DEF Invalidate, Calling, LocalOK, c
  <2>5. UNCHANGED [u \in Threads |-> call[u].meta]
    <3>1. \A u \in Threads : call'[u].meta = call[u].meta  BY <2>3, <2>4, <1>b DEF c, d
    <3>. QED  BY <3>1
  <2>6. Promised!Doom(t)
    BY <2>1, <2>3, <2>5, <1>c, <1>28 DEF Promised!Doom, Invalidate, dbVars
  <2>. QED  BY <2>6 DEF Promised!Next, goal
<1>29. CASE DropOne(t)
  <2>1. UNCHANGED <<store, pinned, doomed>>  BY <1>29 DEF DropOne, Delete, dbVars
  <2>2. CASE UNCHANGED call
    BY <2>1, <2>2, <1>1 DEF c, d
  <2>. QED  BY <2>1, <2>2, <1>9, <1>29 DEF DropOne
<1>30. CASE Record(t)
  <2>1. Computing(t) => c.made = c.meta /\ c.meta # Absent
    BY <1>30, <1>a, <1>d DEF Record, LocalOK, Computing, c
  <2>2. Finish(t, IF Computing(t) THEN c.made ELSE None)  BY <1>30 DEF Record, c
  <2>3. Finish(t, None) \/ (Finish(t, c.meta) /\ c.meta # Absent)  BY <2>1, <2>2
  <2>. QED  BY <2>3, <1>10, <1>30 DEF Record
<1>31. CASE Pin(t)
  <2>1. c.meta = Absent  BY <1>31, <1>a DEF Pin, Calling, LocalOK, c
  <2>2. CASE Finish(t, Failed) /\ UNCHANGED dbVars
    BY <2>2, <1>9, <1>31 DEF Pin, dbVars
  <2>3. ASSUME NEW k \in Keys, NEW pin \in BOOLEAN, Row(k) # Absent, Finish(t, None),
               store' = [x \in Keys |-> Row(x)],
               pinned' = IF pin THEN (pinned \ deleted) \cup {k} ELSE pinned \ (deleted \cup {k})
        PROVE  goal
    <3>1. d.meta = Absent /\ d.out = None  BY <2>3, <1>a, FinishView DEF d
    <3>2. UNCHANGED [u \in Threads |-> call[u].meta]
      <4>1. \A u \in Threads : call'[u].meta = call[u].meta  BY <3>1, <2>1, <1>b DEF c, d
      <4>. QED  BY <4>1
    <3>3. k \notin deleted /\ store[k] # Absent  BY <2>3 DEF Row
    <3>4. deleted \in SUBSET doomed  BY <1>f, <1>31 DEF Pin
    <3>5. store' = [x \in Keys |-> IF x \in deleted THEN Absent ELSE store[x]]
      BY <2>3 DEF Row
    <3>6. pinned' \in {(pinned \ deleted) \cup {k}, pinned \ (deleted \cup {k})}
      BY <2>3
    <3>7. Promised!Pin(t)
      BY <3>1, <3>2, <3>3, <3>4, <3>5, <3>6, <1>c, <1>31 DEF Promised!Pin, Pin
    <3>. QED  BY <3>7 DEF Promised!Next, goal
  <2>. QED  BY <2>2, <2>3, <1>31 DEF Pin
<1>. QED
  BY <1>11, <1>12, <1>13, <1>15, <1>16, <1>17, <1>18, <1>19, <1>20, <1>21, <1>22, <1>23,
     <1>24, <1>25, <1>26, <1>27, <1>28, <1>29, <1>30, <1>31 DEF Call, Step

(* Every answer of the cache is one that ResultCache allows: an entry is    *)
(* never changed in place, leaves only when it is not pinned or when its    *)
(* invalidation was asked for, and a call answers a value that its key held *)
(* - whatever the threads, the lists of deletions left open, the crashes    *)
(* and the other process.                                                   *)
THEOREM KeepsPromises == Spec => ImplementsResultCache
<1>1. Init => Promised!Init
  BY InitTyped DEF Typed, TypeOK, Init, Idle, Promised!Init
<1>2. Entitled /\ [Next]_vars => Entitled'
  BY TypedStep, EntitledStep, CacheAssumption DEF Entitled
<1>3. Entitled /\ [Next]_vars => [Promised!Next]_(Promised!vars)
  <2>. SUFFICES ASSUME Entitled, [Next]_vars PROVE Promised!Next \/ UNCHANGED Promised!vars
    OBVIOUS
  <2>a. Typed /\ TypeOK /\ OtherOK  BY DEF Entitled, Typed
  <2>1. CASE \E t \in Threads : Call(t) \/ Step(t)
    BY <2>1, ThreadStep, CacheAssumption
  <2>2. CASE OtherWrite \/ UNCHANGED vars
    BY <2>2 DEF OtherWrite, vars, dbVars, Promised!vars
  <2>3. CASE OtherInsert
    <3>. DEFINE k == other.key
                v == other.val
    <3>1. k \in Keys /\ v \in Values /\ UNCHANGED <<pinned, call>>
      BY <2>3, <2>a DEF OtherInsert, OtherOK
    <3>2. CASE store[k] = Absent
      <4>1. /\ store' = [store EXCEPT ![k] = v] /\ doomed' = doomed \ {k}
        BY <2>3, <3>2 DEF OtherInsert
      <4>. HIDE DEF k, v
      <4>2. store' = [x \in Keys |-> IF x = k THEN v ELSE IF x \in {} THEN Absent ELSE store[x]]
        BY <4>1, <2>a DEF TypeOK
      <4>3. pinned' = (pinned \ ({} \cup {k})) \cup {}
        BY <3>1, <3>2, <2>a DEF TypeOK
      <4>4. store[k] \in {Absent, v} /\ store[k] # v
        BY <3>1, <3>2, CacheAssumption
      <4>5. Promised!Insert
        <5>1. {} \in SUBSET {k} /\ {} \in SUBSET doomed  OBVIOUS
        <5>. DEFINE looked == [u \in Threads |-> call[u].meta]
        <5>2. looked' \in {looked} \cup {[looked EXCEPT ![u] = v] : u \in Threads}
          BY <3>1
        <5>3. UNCHANGED [u \in Threads |-> call[u].out]  BY <3>1
        <5>. HIDE DEF looked
        <5>. USE <3>1, <5>1 DEF Promised!Insert
        <5>. WITNESS k \in Keys
        <5>. WITNESS v \in Values, {} \in SUBSET {k}, {} \in SUBSET doomed
        <5>. QED  BY <4>1, <4>2, <4>3, <4>4, <5>2, <5>3 DEF looked
      <4>. QED  BY <4>5 DEF Promised!Next
    <3>3. CASE store[k] # Absent
      BY <3>1, <3>3, <2>3 DEF OtherInsert, Promised!vars
    <3>. QED  BY <3>2, <3>3
  <2>4. CASE Crash
    BY <2>4 DEF Crash, Rollback, Idle, Promised!Next, Promised!Crash
  <2>. QED  BY <2>1, <2>2, <2>3, <2>4 DEF Next, Rest
<1>. QED  BY <1>1, <1>2, <1>3, InitEntitled, PTL DEF Spec, ImplementsResultCache, Promised!Spec
=============================================================================
