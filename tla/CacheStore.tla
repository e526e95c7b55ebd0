----------------------------- MODULE CacheStore -----------------------------
(***************************************************************************)
(* The persistent result cache of the API service: PersistentResultCache   *)
(* of repositories/cache_store.py.  An entry is a row of a SQLite index    *)
(* and a value file.  The threads of one process share one cache object:   *)
(* its reentrant lock, its connection (and so its open transaction), and   *)
(* the per-key locks under which a missing entry is computed.  A step of a *)
(* thread ends where another thread, another process or a crash can        *)
(* notice: at a lock, at a file, at a commit.  Another process that shares *)
(* the directory may write one entry meanwhile.                            *)
(*                                                                         *)
(* The connection only ever holds deletions that are not yet committed     *)
(* (every insertion and update commits or rolls back in its own step), so  *)
(* the rows it sees are the committed ones less the deleted ones.  The     *)
(* edges of cache_dependency live and die with the row of their downstream *)
(* key, and are read off the rows.  Every value file has size 1.           *)
(***************************************************************************)
EXTENDS Integers, FiniteSets

CONSTANTS
    Threads, Keys, Values,
    Locks,                 \* the threading.Lock objects; one per thread is enough
    Absent, Failed, None,
    Upstream,              \* Upstream[k]: the upstream_keys an entry k declares
    Family,                \* Family[k]: its family
    MaxFiles,              \* max_bytes, in files of size 1
    Opened,                \* what the cache may hold when the service starts
    PinnedAtPut,           \* the keys that are put with pinned=True
    Shared,                \* the keys another process may write
    MaxCalls, MaxRestarts  \* bounds of the instance

ASSUME CacheAssumption ==
    /\ IsFiniteSet(Keys) /\ IsFiniteSet(Threads)
    /\ Upstream \in [Keys -> SUBSET Keys]
    /\ MaxFiles \in Nat \ {0}
    /\ Shared \subseteq Keys
    /\ \A cache \in Opened :
         /\ cache.store \in [Keys -> Values \cup {Absent}]
         /\ cache.pinned \subseteq {k \in Keys : cache.store[k] # Absent}
    /\ {Absent, Failed, None} \cap (Values \cup Keys \cup Threads \cup Locks) = {}
    /\ Absent # Failed /\ Absent # None /\ Failed # None

VARIABLES
    store,     \* the committed rows: the digest of the value of each key, or Absent
    pinned,    \* the committed rows whose pinned column is 1
    deleted,   \* the rows deleted in the open transaction
    files,     \* the value files
    history,   \* _history: what invalidated entries held, in memory
    lock,      \* the thread that holds _lock
    keyLock,   \* _PROCESS_KEY_LOCKS
    users,     \* _PROCESS_KEY_LOCK_REFS, as the set of the callers it counts
    call,      \* the call each thread is in
    other,     \* the put of the other process
    doomed,    \* the keys an invalidation was asked for since they were written
    contested, \* the keys a crash, a rollback or the other process met half-way
    calls, restarts

dbVars    == <<store, pinned, deleted>>
lockVars  == <<keyLock, users>>
boundVars == <<calls, restarts>>
vars == <<store, pinned, deleted, files, history, lock, keyLock, users, call,
          other, doomed, contested, calls, restarts>>

Operations == {"get", "compute", "recover", "put", "invalidate", "family", "evict"}
Idle == [pc |-> "idle", op |-> "get", key |-> None, lk |-> None, meta |-> Absent,
         made |-> None, todo |-> {}, total |-> 0, out |-> None]

(* What the connection sees of a key (_get_row).                            *)
Row(k) == IF k \in deleted THEN Absent ELSE store[k]
Rows   == {k \in Keys : Row(k) # Absent}
Stored == {k \in Keys : files[k] # Absent}
DiskBytes == Cardinality(Stored)

(* A populated cache that was closed properly.                              *)
Init ==
    /\ \E cache \in Opened : store = cache.store /\ pinned = cache.pinned
    /\ deleted = {}
    /\ files = store
    /\ history = [k \in Keys |-> Absent]
    /\ lock = None
    /\ keyLock = [k \in Keys |-> None]
    /\ users = [k \in Keys |-> {}]
    /\ call = [t \in Threads |-> Idle]
    /\ other = [stage |-> "idle", key |-> None, val |-> None]
    /\ doomed = {}
    /\ contested = {}
    /\ calls = 0
    /\ restarts = 0

-----------------------------------------------------------------------------
(* Pieces of the steps.                                                     *)

Computing(t) == call[t].op \in {"compute", "recover"}

(* A thread makes its next call.  A call starts with its first step that    *)
(* takes a lock: nobody can tell a caller that waits for it from one that   *)
(* has not called yet.                                                      *)
Calling(t) ==
    /\ call[t].pc = "idle"
    /\ calls < MaxCalls
    /\ calls' = calls + 1

(* The call goes on at another place; its other locals are kept.            *)
Goto(t, pc) == call' = [call EXCEPT ![t].pc = pc]

(* The operation is over; compute_if_absent still has its finally clause.   *)
Over(c, out) ==
    IF c.op \in {"compute", "recover"}
    THEN [Idle EXCEPT !.pc = "unlock", !.op = "compute", !.key = c.key, !.lk = c.lk, !.out = out]
    ELSE [Idle EXCEPT !.out = out]
Finish(t, out) == call' = [call EXCEPT ![t] = Over(call[t], out)]

(* Mutant: the pins are not removed with their rows.                        *)
PinsKeptCommit ==
    /\ store' = [k \in Keys |-> Row(k)]
    /\ deleted' = {}
    /\ UNCHANGED pinned

(* A commit makes the pending deletions permanent, whoever made them.       *)
Commit ==
    /\ store' = [k \in Keys |-> Row(k)]
    /\ pinned' = pinned \ deleted
    /\ deleted' = {}

(* A rollback brings their rows back, but not their files.                  *)
Rollback ==
    /\ deleted' = {}
    /\ UNCHANGED <<store, pinned>>

OtherWrites(k) == other.stage = "writing" /\ other.key = k
(* The entries on the list of an eviction or invalidation still to delete.  *)
Remaining(t) == call[t].todo \ deleted
HeldBy(l) == {t \in Threads : call[t].lk = l /\ call[t].pc # "keylock"}

-----------------------------------------------------------------------------
(* compute_if_absent starts: it takes its key's lock object from the        *)
(* registry, or enters a new one, and counts itself among its users.        *)
Compute(t) ==
    /\ Calling(t)
    /\ \E k \in Keys, l \in Locks :
         /\ IF keyLock[k] # None THEN l = keyLock[k]
            ELSE \A u \in Threads : call[u].lk # l
         /\ keyLock' = [keyLock EXCEPT ![k] = l]
         /\ users' = [users EXCEPT ![k] = @ \cup {t}]
         /\ call' = [call EXCEPT ![t] =
                [Idle EXCEPT !.pc = "keylock", !.op = "compute", !.key = k, !.lk = l]]
    /\ UNCHANGED <<dbVars, files, history, lock, other, doomed, contested, restarts>>

(* with lock: the key's lock, while the caller waits for its turn.          *)
AcquireKey(t) ==
    /\ call[t].pc = "keylock"
    /\ HeldBy(call[t].lk) = {}
    /\ Goto(t, "describe")
    /\ UNCHANGED <<dbVars, files, history, lock, lockVars, other, doomed, contested, boundVars>>

(* Mutant: the first caller that is done takes the lock out.                *)
LockForgottenReleaseKey(k, t) ==
    /\ users' = [users EXCEPT ![k] = @ \ {t}]
    /\ keyLock' = [keyLock EXCEPT ![k] = None]

(* The finally clause: the last user takes the lock out of the registry.    *)
ReleaseKey(k, t) ==
    /\ users' = [users EXCEPT ![k] = @ \ {t}]
    /\ keyLock' = [keyLock EXCEPT ![k] = IF users[k] = {t} THEN None ELSE @]

Unlock(t) ==
    /\ call[t].pc = "unlock"
    /\ ReleaseKey(call[t].key, t)
    /\ call' = [call EXCEPT ![t] = [Idle EXCEPT !.out = call[t].out]]
    /\ UNCHANGED <<dbVars, files, history, lock, other, doomed, contested, boundVars>>

-----------------------------------------------------------------------------
(* Reading: _load reads the row under _lock and the file after it, without; *)
(* get then touches the row.  A row that is gone is a miss, for which       *)
(* compute_if_absent runs its producer, unless this is its second look      *)
(* after a lost insertion.                                                  *)
Found(c) ==
    LET found == Row(c.key)
    IN IF found # Absent THEN [c EXCEPT !.pc = "read", !.meta = found]
       ELSE CASE c.op = "get"     -> Over(c, Absent)
              [] c.op = "compute" -> [c EXCEPT !.pc = "factory"]
              [] c.op = "recover" -> Over(c, Failed)

Get(t) ==
    /\ Calling(t)
    /\ lock = None
    /\ \E k \in Keys : call' = [call EXCEPT ![t] = Found([Idle EXCEPT !.op = "get", !.key = k])]
    /\ UNCHANGED <<dbVars, files, history, lock, lockVars, other, doomed, contested, restarts>>

Describe(t) ==
    /\ call[t].pc = "describe"
    /\ lock = None
    /\ call' = [call EXCEPT ![t] = Found(@)]
    /\ UNCHANGED <<dbVars, files, history, lock, lockVars, other, doomed, contested, boundVars>>

Read(t) ==
    /\ call[t].pc = "read"
    /\ IF files[call[t].key] # call[t].meta THEN Finish(t, Failed)
       ELSE IF call[t].op = "get" THEN Goto(t, "touch")
       ELSE Finish(t, call[t].meta)
    /\ UNCHANGED <<dbVars, files, history, lock, lockVars, other, doomed, contested, boundVars>>

Touch(t) ==
    /\ call[t].pc = "touch"
    /\ lock = None
    /\ Commit
    /\ Finish(t, call[t].meta)
    /\ UNCHANGED <<files, history, lock, lockVars, other, doomed, contested, boundVars>>

(* The producer returns a value, or raises.                                 *)
Factory(t) ==
    /\ call[t].pc = "factory"
    /\ \/ \E v \in Values :
            call' = [call EXCEPT ![t].pc = "check", ![t].made = v]
       \/ Finish(t, Failed)
    /\ UNCHANGED <<dbVars, files, history, lock, lockVars, other, doomed, contested, boundVars>>

-----------------------------------------------------------------------------
(* Mutant: nothing is remembered.                                           *)
ForgetfulRemembers(k, v) == TRUE

(* The digest of the new value is compared with the one of _history.        *)
Remembers(k, v) == history[k] \in {Absent, v}

(* put, under _lock: the row that is there decides, or what the key is      *)
(* remembered to have held; a new value goes to its file first.             *)
Check(t, c) ==
    LET k == c.key
        v == c.made
    IN /\ lock = None
       /\ \/ /\ Row(k) # Absent \/ ~Remembers(k, v)
             /\ call' = [call EXCEPT ![t] = Over(c,
                    IF Row(k) # v THEN Failed ELSE IF c.op = "compute" THEN v ELSE None)]
             /\ UNCHANGED <<files, lock, contested>>
          \/ /\ Row(k) = Absent
             /\ Remembers(k, v)
             /\ files' = [files EXCEPT ![k] = v]
             /\ lock' = t
             /\ contested' = IF OtherWrites(k) THEN contested \cup {k} ELSE contested
             /\ call' = [call EXCEPT ![t] = [c EXCEPT !.pc = "insert"]]
       /\ UNCHANGED <<dbVars, history, lockVars, other, doomed, restarts>>

Put(t) ==
    /\ Calling(t)
    /\ \E k \in Keys, v \in Values :
         Check(t, [Idle EXCEPT !.op = "put", !.key = k, !.made = v])

PutCheck(t) ==
    /\ call[t].pc = "check"
    /\ Check(t, call[t])
    /\ UNCHANGED calls

(* The row and its edges are inserted and committed, together with whatever *)
(* deletions an aborted invalidation left in the transaction.               *)
PutInsert(t) ==
    /\ call[t].pc = "insert"
    /\ LET k == call[t].key
       IN /\ Row(k) = Absent
          /\ store' = [x \in Keys |-> IF x = k THEN call[t].made ELSE Row(x)]
          /\ pinned' = (pinned \ (deleted \cup {k})) \cup ({k} \cap PinnedAtPut)
          /\ deleted' = {}
          /\ doomed' = doomed \ {k}
          /\ contested' = IF OtherWrites(k) THEN contested ELSE contested \ {k}
          /\ call' = [call EXCEPT ![t].pc = "budget", ![t].meta = call[t].made]
    /\ lock' = None
    /\ UNCHANGED <<files, history, lockVars, other, boundVars>>

(* The insertion fails: the key is there after all (the other process), or  *)
(* the database refuses.  The transaction is rolled back and the file       *)
(* removed.  compute_if_absent looks again when the key was there.          *)
PutFails(t) ==
    /\ call[t].pc = "insert"
    /\ LET k == call[t].key
       IN /\ Rollback
          /\ files' = [files EXCEPT ![k] = Absent]
          /\ contested' = contested \cup deleted \cup (IF store[k] # Absent THEN {k} ELSE {})
          /\ IF Row(k) # Absent /\ Computing(t)
             THEN call' = [call EXCEPT ![t].pc = "describe", ![t].op = "recover"]
             ELSE Finish(t, Failed)
    /\ lock' = None
    /\ UNCHANGED <<history, lockVars, other, doomed, boundVars>>

(* The size check after the put, without _lock: it evicts when the files    *)
(* exceed the budget, and raises when a file vanishes under it.             *)
Budget(t) ==
    /\ call[t].pc = "budget"
    /\ \/ /\ DiskBytes > MaxFiles
          /\ Goto(t, "evict")
       \/ /\ DiskBytes <= MaxFiles
          /\ Finish(t, IF Computing(t) THEN call[t].made ELSE None)
       \/ /\ \/ other.stage = "writing"
             \/ \E u \in Threads \ {t} : call[u].pc \in {"insert", "drop", "evicting"}
          /\ Finish(t, Failed)
    /\ UNCHANGED <<dbVars, files, history, lock, lockVars, other, doomed, contested, boundVars>>

-----------------------------------------------------------------------------
(* evict, under _lock throughout: unpinned entries go one at a time, each   *)
(* file at once and the rows with the commit at the end.                    *)
Listed(t, c) ==
    /\ lock = None
    /\ lock' = t
    /\ call' = [call EXCEPT ![t] = [c EXCEPT !.pc = "evicting", !.todo = Rows \ pinned,
                                             !.total = DiskBytes]]
    /\ UNCHANGED <<dbVars, files, history, lockVars, other, doomed, contested, restarts>>

Evict(t) ==
    /\ Calling(t)
    /\ Listed(t, [Idle EXCEPT !.op = "evict"])

EvictAfterPut(t) ==
    /\ call[t].pc = "evict"
    /\ Listed(t, call[t])
    /\ UNCHANGED calls

(* An eviction or invalidation that removed something records it: it takes  *)
(* _lock again and commits again (_record_event).                           *)
Report(t) ==
    IF call[t].todo \cap deleted # {}
    THEN call' = [call EXCEPT ![t].pc = "record", ![t].todo = {}, ![t].total = 0]
    ELSE Finish(t, IF Computing(t) THEN call[t].made ELSE None)

Record(t) ==
    /\ call[t].pc = "record"
    /\ lock = None
    /\ Commit
    /\ Finish(t, IF Computing(t) THEN call[t].made ELSE None)
    /\ UNCHANGED <<files, history, lock, lockVars, other, doomed, contested, boundVars>>

(* Mutant: the row goes, the file stays.                                    *)
FileKeptDelete(k) ==
    /\ deleted' = deleted \cup {k}
    /\ UNCHANGED <<store, pinned, files>>

(* _delete_locked.                                                          *)
Delete(k) ==
    /\ deleted' = deleted \cup {k}
    /\ files' = [files EXCEPT ![k] = Absent]
    /\ UNCHANGED <<store, pinned>>

(* Mutant: one entry too many may stay.                                     *)
LaxWithinBudget(c) == c.total <= MaxFiles + 1

WithinBudget(c) == c.total <= MaxFiles

EvictOne(t) ==
    /\ call[t].pc = "evicting"
    /\ ~WithinBudget(call[t])
    /\ \E k \in Remaining(t) :
         /\ Delete(k)
         /\ call' = [call EXCEPT ![t].total = IF files[k] # Absent THEN @ - 1 ELSE @]
    /\ UNCHANGED <<history, lock, lockVars, other, doomed, contested, boundVars>>

EvictDone(t) ==
    /\ call[t].pc = "evicting"
    /\ WithinBudget(call[t]) \/ Remaining(t) = {}
    /\ Commit
    /\ lock' = None
    /\ Report(t)
    /\ UNCHANGED <<files, history, lockVars, other, doomed, contested, boundVars>>

-----------------------------------------------------------------------------
(* invalidate and invalidate_family, under _lock throughout.                *)

(* The key and every entry that reaches it over declared upstream keys.     *)
Children(k) == {c \in Rows : k \in Upstream[c]}
(* Mutant: only the entries that declare the key itself.                    *)
OneLevelAffected(k) == {k} \cup Children(k)

Affected(k) ==
    {x \in Keys : \A S \in SUBSET Keys :
        (k \in S /\ \A y \in S : Children(y) \subseteq S) => x \in S}

Invalidate(t) ==
    /\ Calling(t)
    /\ lock = None
    /\ lock' = t
    /\ \E k \in Keys, op \in {"invalidate", "family"} :
         LET asked == IF op = "invalidate" THEN Affected(k)
                      ELSE {x \in Rows : Family[x] = Family[k]}
         IN /\ call' = [call EXCEPT ![t] = [Idle EXCEPT !.pc = "drop", !.op = op, !.key = k,
                                                    !.todo = asked \cap Rows]]
            /\ doomed' = doomed \cup asked
    /\ UNCHANGED <<dbVars, files, history, lockVars, other, contested, restarts>>

(* One entry goes.  invalidate first loads it into _history, and an entry   *)
(* that cannot be loaded ends the call: what is already deleted stays in    *)
(* the transaction for the next commit.                                     *)
DropOne(t) ==
    /\ call[t].pc = "drop"
    /\ \E k \in Remaining(t) :
         \/ /\ call[t].op = "family" \/ files[k] = store[k]
            /\ Delete(k)
            /\ history' = IF call[t].op = "family" THEN history
                          ELSE [history EXCEPT ![k] = store[k]]
            /\ UNCHANGED <<lock, call>>
         \/ /\ call[t].op = "invalidate" /\ files[k] # store[k]
            /\ Finish(t, Failed)
            /\ lock' = None
            /\ UNCHANGED <<dbVars, files, history>>
    /\ UNCHANGED <<lockVars, other, doomed, contested, boundVars>>

DropDone(t) ==
    /\ call[t].pc = "drop"
    /\ Remaining(t) = {}
    /\ Commit
    /\ lock' = None
    /\ Report(t)
    /\ UNCHANGED <<files, history, lockVars, other, doomed, contested, boundVars>>

Pin(t) ==
    /\ Calling(t)
    /\ lock = None
    /\ \E k \in Keys, pin \in BOOLEAN :
         IF Row(k) = Absent
         THEN Finish(t, Failed) /\ UNCHANGED dbVars
         ELSE /\ Finish(t, None)
              /\ store' = [x \in Keys |-> Row(x)]
              /\ deleted' = {}
              /\ pinned' = IF pin THEN (pinned \ deleted) \cup {k}
                           ELSE pinned \ (deleted \cup {k})
    /\ UNCHANGED <<files, history, lock, lockVars, other, doomed, contested, restarts>>

-----------------------------------------------------------------------------
(* The put of the other process, which has its own locks and its own        *)
(* connection, and finds the key missing: its file, then its row, or the    *)
(* same retreat as PutFails.  SQLite lets it write while no transaction of  *)
(* this process is open.                                                    *)
OtherWrite ==
    /\ other.stage = "idle"
    /\ \E k \in Shared, v \in Values :
         /\ store[k] = Absent
         /\ other' = [stage |-> "writing", key |-> k, val |-> v]
         /\ files' = [files EXCEPT ![k] = v]
         /\ contested' = IF \E t \in Threads : call[t].pc = "insert" /\ call[t].key = k
                         THEN contested \cup {k} ELSE contested
    /\ UNCHANGED <<dbVars, history, lock, lockVars, call, doomed, boundVars>>

OtherInsert ==
    /\ other.stage = "writing"
    /\ deleted = {}
    /\ LET k == other.key
       IN IF store[k] = Absent
          THEN /\ store' = [store EXCEPT ![k] = other.val]
               /\ doomed' = doomed \ {k}
               /\ UNCHANGED <<files, contested>>
          ELSE /\ files' = [files EXCEPT ![k] = Absent]
               /\ contested' = contested \cup {k}
               /\ UNCHANGED <<store, doomed>>
    /\ other' = [other EXCEPT !.stage = "done"]
    /\ UNCHANGED <<pinned, deleted, history, lock, lockVars, call, boundVars>>

(* The process dies and the service starts again on the same directory:     *)
(* the open transaction is undone, everything in memory is lost.            *)
Crash ==
    /\ restarts < MaxRestarts
    /\ restarts' = restarts + 1
    /\ Rollback
    /\ contested' = contested \cup deleted
                      \cup {call[t].key : t \in {u \in Threads : call[u].pc = "insert"}}
    /\ history' = [k \in Keys |-> Absent]
    /\ lock' = None
    /\ keyLock' = [k \in Keys |-> None]
    /\ users' = [k \in Keys |-> {}]
    /\ call' = [t \in Threads |-> Idle]
    /\ UNCHANGED <<files, other, doomed, calls>>

Step(t) ==
    \/ AcquireKey(t) \/ Unlock(t)
    \/ Describe(t) \/ Read(t) \/ Touch(t) \/ Factory(t)
    \/ PutCheck(t) \/ PutInsert(t) \/ PutFails(t) \/ Budget(t)
    \/ EvictAfterPut(t) \/ EvictOne(t) \/ EvictDone(t)
    \/ DropOne(t) \/ DropDone(t) \/ Record(t)

Call(t) == Compute(t) \/ Get(t) \/ Put(t) \/ Evict(t) \/ Invalidate(t) \/ Pin(t)

(* All calls of the instance are made and answered.                         *)
Rest == /\ calls = MaxCalls
        /\ \A t \in Threads : call[t].pc = "idle"
        /\ UNCHANGED vars

Next ==
    \/ \E t \in Threads : Call(t) \/ Step(t)
    \/ OtherWrite \/ OtherInsert \/ Crash \/ Rest

Spec == Init /\ [][Next]_vars

-----------------------------------------------------------------------------
Places == {"idle", "keylock", "describe", "read", "touch", "factory", "check", "insert",
           "budget", "evict", "evicting", "drop", "record", "unlock"}

Locals == [pc : Places, op : Operations, key : Keys \cup {None}, lk : Locks \cup {None},
           meta : Values \cup {Absent}, made : Values \cup {None}, todo : SUBSET Keys,
           total : Int, out : Values \cup {Absent, Failed, None}]

TypeOK ==
    /\ store \in [Keys -> Values \cup {Absent}]
    /\ pinned \in SUBSET {k \in Keys : store[k] # Absent}
    /\ deleted \in SUBSET {k \in Keys : store[k] # Absent}
    /\ files \in [Keys -> Values \cup {Absent}]
    /\ history \in [Keys -> Values \cup {Absent}]
    /\ lock \in Threads \cup {None}
    /\ keyLock \in [Keys -> Locks \cup {None}]
    /\ users \in [Keys -> SUBSET Threads]
    /\ call \in [Threads -> Locals]
    /\ other \in [stage : {"idle", "writing", "done"}, key : Keys \cup {None},
                  val : Values \cup {None}]
    /\ doomed \subseteq Keys /\ contested \subseteq Keys
    /\ calls \in Nat /\ restarts \in Nat

(* At most one thread runs the producer of a key: callers that arrive       *)
(* while another computes, or while the lock object is being given up,      *)
(* share one lock (compute_if_absent and its registry of lock objects).     *)
SingleFlight ==
    \A t, u \in Threads :
        call[t].pc = "factory" /\ call[u].pc = "factory" /\ call[t].key = call[u].key => t = u

(* Wherever no crash, rollback or other process met an entry half-way, the  *)
(* value file is the one of the row, and there is none without a row: only  *)
(* a put that is about to insert its row is ahead of the index.             *)
Inserting(k) == {t \in Threads : call[t].pc = "insert" /\ call[t].key = k}
IndexMatchesFiles ==
    \A k \in Keys \ contested :
        OtherWrites(k) \/ Inserting(k) # {} \/ files[k] = Row(k)

(* An eviction that ends has brought the files within the budget, or has    *)
(* nothing left that it may remove; entries of the other process aside,     *)
(* which may have come in since it took its list.                           *)
EvictReachesBudget ==
    [][\A t \in Threads :
         call[t].pc = "evicting" /\ call'[t].pc # "evicting" /\ restarts' = restarts =>
            \/ Cardinality({k \in Keys \ {other.key} : files'[k] # Absent}) <= MaxFiles
            \/ \A k \in Keys \ {other.key} : store'[k] # Absent => k \in pinned']_vars

(* When invalidate has done its work no entry is left that declares the key  *)
(* or a dropped entry upstream, apart from the entry of the other process.  *)
InvalidationClosed ==
    [][\A t \in Threads :
         /\ call[t].op = "invalidate" /\ call[t].pc = "drop"
         /\ call'[t].pc = "record" \/ (call'[t].pc = "idle" /\ call'[t].out = None)
         /\ restarts' = restarts
         => \A k \in Keys \ {other.key} :
              store'[k] # Absent => Upstream[k] \cap ({call[t].key} \cup call[t].todo) = {}]_vars

(* The cache keeps the promises of ResultCache: entries are written once,   *)
(* leave only by eviction when unpinned or by an invalidation somebody      *)
(* asked for, and a call answers with what its key held.                    *)
Promised == INSTANCE ResultCache
    WITH looked <- [t \in Threads |-> call[t].meta],
         answer <- [t \in Threads |-> call[t].out]
ImplementsResultCache == Promised!Spec
=============================================================================
