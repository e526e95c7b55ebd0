-------------------------- MODULE CacheStoreProofs --------------------------
(***************************************************************************)
(* Proofs about CacheStore.                                                *)
(***************************************************************************)
EXTENDS CacheStore, FiniteSetTheorems, TLAPS

(* What the place a call is at says about its locals.                       *)
LocalOK(c) ==
    /\ c.pc = "idle" => c.op = "get" /\ c.key = None
    /\ c.pc # "idle" /\ c.op # "evict" => c.key \in Keys
    /\ c.lk # None <=> c.op \in {"compute", "recover"}
    /\ c.pc \in {"keylock", "factory", "check"} => c.op = "compute"
    /\ c.pc \in {"describe", "unlock"} => c.op \in {"compute", "recover"}
    /\ c.pc = "read" => c.op \in {"get", "compute", "recover"} /\ c.meta \in Values
    /\ c.pc = "touch" => c.op = "get" /\ c.meta \in Values
    /\ c.pc = "check" => c.made \in Values
    /\ c.pc \in {"insert", "budget", "evict"} => c.op \in {"put", "compute"} /\ c.made \in Values
    /\ c.pc \in {"budget", "evict"} => c.meta = c.made
    /\ c.pc = "evicting" => \/ c.op = "evict" /\ c.meta = Absent
                            \/ c.op \in {"put", "compute"} /\ c.made \in Values
                                 /\ c.meta = c.made
    /\ c.pc = "drop" => c.op \in {"invalidate", "family"}
    /\ c.pc = "record" => \/ c.op \in {"evict", "invalidate", "family"} /\ c.meta = Absent
                          \/ c.op \in {"put", "compute"} /\ c.made \in Values
                               /\ c.meta = c.made
    /\ c.pc \in {"idle", "keylock", "describe", "factory", "check", "insert", "drop", "unlock"}
         => c.meta = Absent
    /\ c.pc \notin {"idle", "unlock"} => c.out = None

Good == {c \in Locals : LocalOK(c)}

-----------------------------------------------------------------------------
(* The records the steps build.                                             *)
LEMMA IdleGood == \A out \in Values \cup {Absent, Failed, None} :
                    [Idle EXCEPT !.out = out] \in Good
BY DEF Idle, Good, Locals, LocalOK, Places, Operations

(* The locals of a thread outside any call.                                 *)
LEMMA IdleTyped ==
  /\ Idle \in Locals
  /\ Idle.pc = "idle" /\ Idle.op = "get" /\ Idle.key = None /\ Idle.lk = None
  /\ Idle.meta = Absent /\ Idle.made = None /\ Idle.todo = {} /\ Idle.total = 0 /\ Idle.out = None
BY DEF Idle, Locals, Places, Operations

(* A call that is over keeps its lock object only inside compute_if_absent. *)
LEMMA OverGood ==
  ASSUME NEW c \in Locals, NEW out \in Values \cup {Absent, Failed, None},
         c.op \in {"compute", "recover"} => c.key \in Keys /\ c.lk # None
  PROVE  Over(c, out) \in Good
<1>1. CASE c.op \in {"compute", "recover"}
  <2>. DEFINE r == [pc |-> "unlock", op |-> "compute", key |-> c.key, lk |-> c.lk,
                    meta |-> Absent, made |-> None, todo |-> {}, total |-> 0, out |-> out]
  <2>1. Over(c, out) = r  BY <1>1 DEF Over, Idle
  <2>2. r \in Locals  BY <1>1 DEF Locals, Places, Operations
  <2>3. LocalOK(r)  BY <1>1 DEF LocalOK
  <2>. QED  BY <2>1, <2>2, <2>3 DEF Good
<1>2. CASE c.op \notin {"compute", "recover"}
  BY <1>2, IdleGood DEF Over
<1>. QED  BY <1>1, <1>2

(* What a call holds after its look at the index fits the place it goes to. *)
LEMMA FoundGood ==
  ASSUME store \in [Keys -> Values \cup {Absent}], CacheAssumption,
         NEW c \in Locals, c.key \in Keys, c.meta = Absent, c.out = None,
         c.op \in {"get", "compute", "recover"},
         c.lk # None <=> c.op \in {"compute", "recover"}
  PROVE  Found(c) \in Good
<1>. DEFINE found == Row(c.key)
<1>1. CASE found # Absent
  <2>1. found \in Values  BY <1>1 DEF Row
  <2>. DEFINE r == [c EXCEPT !.pc = "read", !.meta = found]
  <2>2. r \in Locals  BY <2>1 DEF Locals, Places
  <2>3. /\ r.pc = "read" /\ r.op = c.op /\ r.key = c.key /\ r.lk = c.lk
        /\ r.meta = found /\ r.out = c.out
    BY DEF Locals
  <2>4. Found(c) = r  BY <1>1 DEF Found
  <2>. HIDE DEF r, found
  <2>. QED  BY <2>1, <2>2, <2>3, <2>4 DEF Good, LocalOK
<1>2. CASE found = Absent /\ c.op = "get"
  BY <1>2, OverGood DEF Found
<1>3. CASE found = Absent /\ c.op = "compute"
  BY <1>3 DEF Found, Good, Locals, LocalOK, Places, Operations
<1>4. CASE found = Absent /\ c.op = "recover"
  BY <1>4, OverGood DEF Found
<1>. QED  BY <1>1, <1>2, <1>3, <1>4

-----------------------------------------------------------------------------
(* Types, and who holds _lock: the threads between the first and the last   *)
(* step of a put, an eviction or an invalidation, which have only existing  *)
(* rows on their lists.                                                     *)
Held == {"insert", "evicting", "drop"}
LockOK == \A t \in Threads : call[t].pc \in Held <=> lock = t
TodoOK ==
    \A t \in Threads : call[t].pc \in {"evicting", "drop"} =>
        \A k \in call[t].todo : store[k] # Absent

OtherOK ==
    IF other.stage = "idle" THEN other.key = None
    ELSE other.key \in Keys /\ other.val \in Values

Typed == TypeOK /\ call \in [Threads -> Good] /\ LockOK /\ TodoOK /\ OtherOK

(* The initial states are well typed.                                       *)
LEMMA InitTyped == Init => Typed
<1>. SUFFICES ASSUME Init PROVE Typed  OBVIOUS
<1>. USE CacheAssumption DEF Init
<1>1. Idle \in Good
  BY DEF Idle, Good, Locals, LocalOK, Places, Operations
<1>2. call \in [Threads -> Good] /\ call \in [Threads -> Locals]  BY <1>1 DEF Good
<1>3. PICK cache \in Opened : store = cache.store /\ pinned = cache.pinned  OBVIOUS
<1>4. store \in [Keys -> Values \cup {Absent}]
      /\ pinned \in SUBSET {k \in Keys : store[k] # Absent}
  BY <1>3
<1>5. LockOK /\ TodoOK /\ OtherOK  BY DEF LockOK, TodoOK, OtherOK, Held, Idle
<1>. QED  BY <1>2, <1>4, <1>5 DEF TypeOK, Typed

(* A step of a thread replaces the locals of that thread.                   *)
LEMMA Replace ==
  ASSUME NEW S, call \in [Threads -> S], NEW t \in Threads, NEW c \in S,
         call' = [call EXCEPT ![t] = c]
  PROVE  call' \in [Threads -> S] /\ call'[t] = c
                /\ \A u \in Threads \ {t} : call'[u] = call[u]
OBVIOUS

(* What put does up to its insertion, wherever it is called from.           *)
PutEffect(t, r) ==
    /\ lock = None
    /\ r.made \in Values /\ r.key \in Keys /\ r.meta = Absent /\ r.out = None
    /\ (r.op = "compute" /\ r.lk # None) \/ (r.op = "put" /\ r.lk = None)
    /\ r.key = call[t].key \/ call[t].pc = "idle"
    /\ r.lk = call[t].lk
    /\ UNCHANGED <<store, pinned, deleted, history, keyLock, users, other, doomed, restarts>>
    /\ \/ /\ UNCHANGED <<files, lock, contested>>
          /\ \/ call' = [call EXCEPT ![t] = Over(r, Failed)]
             \/ call' = [call EXCEPT ![t] = Over(r, None)] /\ r.op = "put"
             \/ call' = [call EXCEPT ![t] = Over(r, r.made)] /\ Row(r.key) = r.made
       \/ /\ Row(r.key) = Absent
          /\ Remembers(r.key, r.made)
          /\ files' = [files EXCEPT ![r.key] = r.made]
          /\ lock' = t
          /\ contested' = IF OtherWrites(r.key) THEN contested \cup {r.key} ELSE contested
          /\ call' = [call EXCEPT ![t] = [r EXCEPT !.pc = "insert"]]

(* A put has the effect of PutEffect, whether it is a call of its own or    *)
(* the one inside compute_if_absent.                                        *)
LEMMA PutChecks ==
  ASSUME call \in [Threads -> Good], CacheAssumption, NEW t \in Threads, Put(t) \/ PutCheck(t)
  PROVE  /\ calls' \in {calls, calls + 1}
         /\ call[t].pc \in {"idle", "check"}
         /\ \E r \in Locals : PutEffect(t, r)
<1>. DEFINE c == call[t]
<1>a. c \in Locals /\ LocalOK(c)  BY DEF Good
<1>1. CASE Put(t)
  <2>1. PICK k \in Keys, v \in Values :
          Check(t, [Idle EXCEPT !.op = "put", !.key = k, !.made = v])
    BY <1>1 DEF Put
  <2>. DEFINE r == [Idle EXCEPT !.op = "put", !.key = k, !.made = v]
  <2>2. r \in Locals /\ r.op = "put" /\ r.made \in Values /\ r.key \in Keys
        /\ r.meta = Absent /\ r.out = None /\ r.lk = None /\ r.lk = c.lk /\ c.pc = "idle"
    BY <1>1, <1>a, IdleTyped DEF Put, Calling, Locals, LocalOK, Operations
  <2>3. Check(t, r)  BY <2>1
  <2>4. PutEffect(t, r)
    <3>. HIDE DEF c, r
    <3>1. r.op # "compute"  BY <2>2
    <3>. QED  BY <2>2, <2>3, <3>1 DEF Check, PutEffect, dbVars, lockVars, c
  <2>5. \E x \in Locals : PutEffect(t, x)
    <3>. HIDE DEF r
    <3>. QED  BY <2>2, <2>4
  <2>. QED  BY <1>1, <2>2, <2>5 DEF Put, Calling
<1>2. CASE PutCheck(t)
  <2>1. c \in Locals /\ c.made \in Values /\ c.key \in Keys /\ c.meta = Absent
        /\ c.out = None /\ c.op = "compute" /\ c.lk # None
    BY <1>2, <1>a DEF PutCheck, LocalOK
  <2>2. Check(t, c)  BY <1>2 DEF PutCheck
  <2>3. PutEffect(t, c)
    BY <2>1, <2>2 DEF Check, PutEffect, dbVars, lockVars
  <2>4. \E x \in Locals : PutEffect(t, x)
    BY <2>1, <2>3
  <2>. QED  BY <1>2, <2>4 DEF PutCheck
<1>. QED  BY <1>1, <1>2

(* An eviction starts with every row that is not pinned and the size it     *)
(* measures.                                                                *)
LEMMA ListTaken ==
  ASSUME call \in [Threads -> Good], NEW t \in Threads, Evict(t) \/ EvictAfterPut(t)
  PROVE  /\ call'[t].pc = "evicting" /\ call'[t].todo = Rows \ pinned
         /\ call'[t].total = DiskBytes
         /\ call'[t].lk = call[t].lk /\ call'[t].key = call[t].key
         /\ call'[t].op = call[t].op \/ (call'[t].op = "evict" /\ call[t].op = "get")
<1>. DEFINE c == call[t]
<1>a. c \in Locals /\ LocalOK(c)  BY DEF Good
<1>1. PICK r \in Locals :
        /\ call' = [call EXCEPT ![t] = [r EXCEPT !.pc = "evicting", !.todo = Rows \ pinned,
                                                 !.total = DiskBytes]]
        /\ r.lk = c.lk /\ r.key = c.key
        /\ r.op = c.op \/ (r.op = "evict" /\ c.op = "get")
  <2>1. CASE Evict(t)
    <3>. DEFINE r == [Idle EXCEPT !.op = "evict"]
    <3>1. r \in Locals /\ r.lk = c.lk /\ r.key = c.key /\ r.op = "evict"
      BY <1>a, <2>1, IdleTyped DEF Evict, Calling, LocalOK, Locals, Operations
    <3>2. c.op = "get"  BY <1>a, <2>1 DEF Evict, Calling, LocalOK
    <3>3. call' = [call EXCEPT ![t] = [r EXCEPT !.pc = "evicting", !.todo = Rows \ pinned,
                                                !.total = DiskBytes]]
      BY <2>1 DEF Evict, Listed
    <3>. HIDE DEF r
    <3>. QED  BY <3>1, <3>2, <3>3
  <2>2. CASE EvictAfterPut(t)
    BY <1>a, <2>2 DEF EvictAfterPut, Listed
  <2>. QED  BY <2>1, <2>2
<1>2. call'[t] = [r EXCEPT !.pc = "evicting", !.todo = Rows \ pinned, !.total = DiskBytes]
  BY <1>1
<1>. QED  BY <1>1, <1>2 DEF Locals

(* A step of a thread touches its own locals only, and keeps them good.     *)
LEMMA CallStep ==
  ASSUME Typed, CacheAssumption, NEW t \in Threads, Call(t) \/ Step(t)
  PROVE  /\ call' \in [Threads -> Good]
         /\ \A u \in Threads \ {t} : call'[u] = call[u]
<1>. DEFINE c == call[t]
            goal == /\ call' \in [Threads -> Good]
                    /\ \A u \in Threads \ {t} : call'[u] = call[u]
<1>a. /\ call \in [Threads -> Good] /\ c \in Good /\ c \in Locals /\ LocalOK(c)
      /\ store \in [Keys -> Values \cup {Absent}]
  BY DEF Typed, Good, TypeOK
<1>b. \A r \in Good : call' = [call EXCEPT ![t] = r] => goal
  BY <1>a, Replace
<1>c. c.pc # "idle" => (c.op \in {"compute", "recover"} => c.key \in Keys /\ c.lk # None)
  BY <1>a DEF LocalOK
<1>d. \A out \in Values \cup {Absent, Failed, None} :
        c.pc # "idle" /\ Finish(t, out) => goal
  BY <1>a, <1>b, <1>c, OverGood DEF Finish
<1>e. UNCHANGED call => goal  BY <1>a
<1>. SUFFICES goal  OBVIOUS
<1>. HIDE DEF goal
<1>1. CASE Compute(t)
  <2>1. PICK k \in Keys, l \in Locks :
          call' = [call EXCEPT ![t] =
                [Idle EXCEPT !.pc = "keylock", !.op = "compute", !.key = k, !.lk = l]]
    BY <1>1 DEF Compute
  <2>. DEFINE r == [Idle EXCEPT !.pc = "keylock", !.op = "compute", !.key = k, !.lk = l]
  <2>2. r \in Good
    <3>1. r \in Locals  BY IdleTyped DEF Locals, Places, Operations
    <3>2. r.pc = "keylock" /\ r.op = "compute" /\ r.key = k /\ r.lk = l /\ r.meta = Absent
          /\ r.out = None
      BY IdleTyped DEF Locals
    <3>. HIDE DEF r
    <3>. QED  BY <3>1, <3>2, CacheAssumption DEF Good, LocalOK
  <2>. QED  BY <2>1, <2>2, <1>b
<1>2. CASE Get(t)
  <2>1. PICK k \in Keys :
          call' = [call EXCEPT ![t] = Found([Idle EXCEPT !.op = "get", !.key = k])]
    BY <1>2 DEF Get
  <2>. DEFINE r == [Idle EXCEPT !.op = "get", !.key = k]
  <2>2. Found(r) \in Good
    <3>1. r \in Locals /\ r.key \in Keys /\ r.meta = Absent /\ r.out = None /\ r.op = "get"
          /\ r.lk = None
      BY <1>2, <1>a, IdleTyped DEF Get, Calling, Locals, LocalOK, Operations
    <3>. HIDE DEF r
    <3>. QED  BY <3>1, <1>a, FoundGood
  <2>. QED  BY <2>1, <2>2, <1>b
<1>3. CASE Put(t) \/ PutCheck(t)
  <2>1. PICK r \in Locals : PutEffect(t, r)  BY <1>a, <1>3, PutChecks
  <2>2. \A out \in {Failed, None, r.made} : Over(r, out) \in Good
    BY <2>1, OverGood DEF PutEffect
  <2>3. [r EXCEPT !.pc = "insert"] \in Good
    BY <2>1 DEF PutEffect, Good, Locals, LocalOK, Places
  <2>. QED  BY <2>1, <2>2, <2>3, <1>b DEF PutEffect
<1>6. ASSUME NEW r \in Locals,
             (r.op = "evict" /\ r.meta = Absent /\ r.out = None /\ r.lk = None)
               \/ (r.pc = "evict" /\ LocalOK(r)),
             call' = [call EXCEPT ![t] = [r EXCEPT !.pc = "evicting", !.todo = Rows \ pinned,
                                                   !.total = DiskBytes]]
      PROVE  goal
  <2>. DEFINE x == [r EXCEPT !.pc = "evicting", !.todo = Rows \ pinned, !.total = DiskBytes]
  <2>1. DiskBytes \in Int
    <3>1. IsFiniteSet(Stored)  BY CacheAssumption, FS_Subset DEF Stored
    <3>. QED  BY <3>1, FS_CardinalityType DEF DiskBytes
  <2>2. Rows \ pinned \in SUBSET Keys  BY DEF Rows
  <2>3. x \in Good
    <3>. HIDE DEF Rows
    <3>. QED  BY <1>6, <2>1, <2>2 DEF Good, Locals, LocalOK, Places
  <2>. QED  BY <2>3, <1>6, <1>b
<1>7. CASE Evict(t)
  <2>. DEFINE r == [Idle EXCEPT !.op = "evict"]
  <2>1. r \in Locals /\ r.op = "evict" /\ r.meta = Absent /\ r.out = None /\ r.lk = None
    BY <1>7, <1>a, IdleTyped DEF Evict, Calling, Locals, LocalOK, Operations
  <2>2. call' = [call EXCEPT ![t] = [r EXCEPT !.pc = "evicting", !.todo = Rows \ pinned,
                                              !.total = DiskBytes]]
    BY <1>7 DEF Evict, Listed
  <2>. HIDE DEF r
  <2>. QED  BY <2>1, <2>2, <1>6
<1>8. CASE EvictAfterPut(t)
  <2>1. c.pc = "evict" /\ c \in Locals /\ LocalOK(c)
    BY <1>8, <1>a DEF EvictAfterPut
  <2>2. call' = [call EXCEPT ![t] = [c EXCEPT !.pc = "evicting", !.todo = Rows \ pinned,
                                              !.total = DiskBytes]]
    BY <1>8 DEF EvictAfterPut, Listed
  <2>. HIDE DEF c
  <2>. QED  BY <2>1, <2>2, <1>6
<1>9. CASE Invalidate(t)
  <2>1. PICK k \in Keys, op \in {"invalidate", "family"}, todo \in SUBSET Keys :
          call' = [call EXCEPT ![t] = [Idle EXCEPT !.pc = "drop", !.op = op, !.key = k,
                                                !.todo = todo]]
    BY <1>9 DEF Invalidate, Rows
  <2>. DEFINE r == [Idle EXCEPT !.pc = "drop", !.op = op, !.key = k, !.todo = todo]
  <2>2. r \in Good
    <3>1. r \in Locals  BY IdleTyped DEF Locals, Places, Operations
    <3>2. r.pc = "drop" /\ r.op = op /\ r.key = k /\ r.lk = None /\ r.meta = Absent
          /\ r.out = None
      BY IdleTyped DEF Locals
    <3>. HIDE DEF r
    <3>. QED  BY <3>1, <3>2 DEF Good, LocalOK
  <2>. QED  BY <2>1, <2>2, <1>b
<1>10. CASE Pin(t)
  <2>1. \E out \in {Failed, None} : Finish(t, out)  BY <1>10 DEF Pin
  <2>2. c.op = "get"  BY <1>10, <1>a DEF Pin, Calling, LocalOK
  <2>. QED  BY <2>1, <2>2, <1>a, <1>b, OverGood DEF Finish
<1>11. CASE AcquireKey(t)
  <2>1. [c EXCEPT !.pc = "describe"] \in Good
    BY <1>11, <1>a DEF AcquireKey, Good, Locals, LocalOK, Places
  <2>. QED  BY <1>11, <2>1, <1>b DEF AcquireKey, Goto
<1>12. CASE Unlock(t)
  <2>1. [Idle EXCEPT !.out = c.out] \in Good  BY <1>a, IdleGood DEF Locals
  <2>. QED  BY <1>12, <2>1, <1>b DEF Unlock
<1>13. CASE Describe(t)
  <2>1. Found(c) \in Good  BY <1>13, <1>a, FoundGood DEF Describe, LocalOK
  <2>. QED  BY <1>13, <2>1, <1>b DEF Describe
<1>14. CASE Read(t)
  <2>1. c.meta \in Values /\ c.pc = "read"  BY <1>14, <1>a DEF Read, LocalOK
  <2>2. CASE Goto(t, "touch")
    <3>1. c.op = "get" \/ Finish(t, Failed) \/ Finish(t, c.meta)  BY <1>14 DEF Read
    <3>2. ASSUME c.op = "get" PROVE [c EXCEPT !.pc = "touch"] \in Good
      BY <2>1, <3>2, <1>a DEF Good, Locals, LocalOK, Places
    <3>. QED  BY <2>1, <2>2, <3>1, <3>2, <1>b, <1>d DEF Goto
  <2>. QED  BY <1>14, <2>1, <2>2, <1>d DEF Read
<1>15. CASE Touch(t)
  BY <1>15, <1>a, <1>d DEF Touch, LocalOK
<1>16. CASE Factory(t)
  <2>1. ASSUME NEW v \in Values PROVE [c EXCEPT !.pc = "check", !.made = v] \in Good
    BY <1>16, <1>a DEF Factory, Good, Locals, LocalOK, Places
  <2>2. ASSUME NEW v \in Values, call' = [call EXCEPT ![t].pc = "check", ![t].made = v]
        PROVE goal
    <3>1. call' = [call EXCEPT ![t] = [c EXCEPT !.pc = "check", !.made = v]]  BY <2>2, <1>a
    <3>. QED  BY <3>1, <2>1, <1>b
  <2>. QED  BY <1>16, <2>2, <1>d DEF Factory
<1>17. CASE PutInsert(t)
  <2>1. [c EXCEPT !.pc = "budget", !.meta = c.made] \in Good
    BY <1>17, <1>a DEF PutInsert, Good, Locals, LocalOK, Places
  <2>2. call' = [call EXCEPT ![t] = [c EXCEPT !.pc = "budget", !.meta = c.made]]
    BY <1>17, <1>a DEF PutInsert
  <2>. QED  BY <2>1, <2>2, <1>b
<1>18. CASE PutFails(t)
  <2>1. Computing(t) => [c EXCEPT !.pc = "describe", !.op = "recover"] \in Good
    BY <1>18, <1>a DEF PutFails, Computing, Good, Locals, LocalOK, Places, Operations
  <2>2. \/ Finish(t, Failed)
        \/ Computing(t) /\ call' = [call EXCEPT ![t] = [c EXCEPT !.pc = "describe", !.op = "recover"]]
    BY <1>18, <1>a DEF PutFails
  <2>. QED  BY <1>18, <2>1, <2>2, <1>b, <1>d DEF PutFails
<1>19. CASE Budget(t)
  <2>1. c.pc = "budget" /\ c.made \in Values  BY <1>19, <1>a DEF Budget, LocalOK
  <2>2. [c EXCEPT !.pc = "evict"] \in Good
    BY <2>1, <1>a DEF Good, Locals, LocalOK, Places
  <2>3. \/ call' = [call EXCEPT ![t] = [c EXCEPT !.pc = "evict"]]
        \/ Finish(t, c.made) \/ Finish(t, None) \/ Finish(t, Failed)
    BY <1>19, <1>a DEF Budget, Goto
  <2>. QED  BY <2>1, <2>2, <2>3, <1>b, <1>d
<1>20. CASE EvictOne(t)
  <2>1. ASSUME NEW n \in Int PROVE [c EXCEPT !.total = n] \in Good
    BY <1>20, <1>a DEF EvictOne, Good, Locals, LocalOK
  <2>2. PICK k \in Keys : call' = [call EXCEPT ![t].total = IF files[k] # Absent THEN @ - 1 ELSE @]
    BY <1>20, <1>a DEF EvictOne, Remaining, Locals
  <2>3. \E n \in Int : call' = [call EXCEPT ![t] = [c EXCEPT !.total = n]]
    <3>1. c.total \in Int  BY <1>a DEF Locals
    <3>2. \/ call' = [call EXCEPT ![t] = [c EXCEPT !.total = c.total - 1]]
          \/ call' = [call EXCEPT ![t] = [c EXCEPT !.total = c.total]]
      BY <2>2, <1>a
    <3>. QED  BY <3>1, <3>2
  <2>. QED  BY <2>1, <2>3, <1>b
<1>21. CASE EvictDone(t) \/ DropDone(t)
  <2>1. c.pc \in {"evicting", "drop"}  BY <1>21 DEF EvictDone, DropDone
  <2>2. Computing(t) => c.made \in Values  BY <2>1, <1>a DEF LocalOK, Computing
  <2>3. [c EXCEPT !.pc = "record", !.todo = {}, !.total = 0] \in Good
    <3>. DEFINE r == [c EXCEPT !.pc = "record", !.todo = {}, !.total = 0]
    <3>1. r \in Locals
      <4>1. "record" \in Places /\ {} \in SUBSET Keys /\ 0 \in Int  BY DEF Places
      <4>2. c \in Locals  BY <1>a
      <4>. HIDE DEF c
      <4>. QED  BY <4>1, <4>2 DEF Locals
    <3>2. /\ r.pc = "record" /\ r.op = c.op /\ r.key = c.key /\ r.lk = c.lk
          /\ r.meta = c.meta /\ r.made = c.made /\ r.out = c.out
      BY <1>a DEF Locals
    <3>3. /\ c.out = None
          /\ c.op # "evict" => c.key \in Keys
          /\ c.lk # None <=> c.op \in {"compute", "recover"}
          /\ \/ c.op \in {"evict", "invalidate", "family"} /\ c.meta = Absent
             \/ c.op \in {"put", "compute"} /\ c.made \in Values /\ c.meta = c.made
      BY <2>1, <1>a DEF LocalOK
    <3>. HIDE DEF r
    <3>4. r \in Good  BY <3>1, <3>2, <3>3 DEF Good, LocalOK
    <3>. QED  BY <3>4 DEF r
  <2>4. \/ call' = [call EXCEPT ![t] = [c EXCEPT !.pc = "record", !.todo = {}, !.total = 0]]
        \/ (Computing(t) /\ Finish(t, c.made)) \/ Finish(t, None)
    BY <1>21, <1>a DEF EvictDone, DropDone, Report
  <2>. QED  BY <2>1, <2>2, <2>3, <2>4, <1>b, <1>d
<1>22. CASE DropOne(t)
  <2>1. c.pc = "drop" /\ (UNCHANGED call \/ Finish(t, Failed))  BY <1>22 DEF DropOne
  <2>. QED  BY <2>1, <1>d, <1>e
<1>23. CASE Record(t)
  <2>1. Computing(t) => c.made \in Values  BY <1>23, <1>a DEF Record, LocalOK, Computing
  <2>2. c.pc = "record" /\ ((Computing(t) /\ Finish(t, c.made)) \/ Finish(t, None))
    BY <1>23 DEF Record
  <2>. QED  BY <2>1, <2>2, <1>d
<1>. QED
  BY <1>1, <1>2, <1>3, <1>7, <1>8, <1>9, <1>10, <1>11, <1>12, <1>13, <1>14, <1>15, <1>16,
     <1>17, <1>18, <1>19, <1>20, <1>21, <1>22, <1>23 DEF Call, Step, goal

(* How a step of a thread uses the lock.                                    *)
LEMMA OverPlace ==
  ASSUME NEW c, NEW out
  PROVE  Over(c, out).pc \notin Held
BY DEF Over, Idle, Held

(* A look at the index ends at a place where _lock is not held.             *)
LEMMA FoundPlace ==
  ASSUME NEW c \in Locals, c.op \in {"get", "compute", "recover"}
  PROVE  Found(c).pc \notin Held
<1>1. [c EXCEPT !.pc = "read", !.meta = Row(c.key)].pc = "read"  BY DEF Locals
<1>2. [c EXCEPT !.pc = "factory"].pc = "factory"  BY DEF Locals
<1>. QED  BY <1>1, <1>2, OverPlace DEF Found, Held

(* A step leaves _lock alone, takes it when it is free, or gives back its   *)
(* own.                                                                     *)
LEMMA LockMove ==
  ASSUME Typed, CacheAssumption, NEW t \in Threads, Call(t) \/ Step(t)
  PROVE  \/ lock' = lock /\ (call'[t].pc \in Held <=> call[t].pc \in Held)
         \/ lock = None /\ lock' = t /\ call'[t].pc \in Held
         \/ lock = t /\ lock' = None /\ call'[t].pc \notin Held
<1>. DEFINE c == call[t]
            goal == \/ lock' = lock /\ (call'[t].pc \in Held <=> c.pc \in Held)
                    \/ lock = None /\ lock' = t /\ call'[t].pc \in Held
                    \/ lock = t /\ lock' = None /\ call'[t].pc \notin Held
<1>a. /\ call \in [Threads -> Good] /\ c \in Locals /\ LocalOK(c)
      /\ c.pc \in Held => lock = t
  BY DEF Typed, Good, LockOK
<1>b. \A r : call' = [call EXCEPT ![t] = r] => call'[t] = r  BY <1>a
<1>c. \A out : Finish(t, out) => call'[t].pc \notin Held  BY <1>b, OverPlace DEF Finish
<1>d. \A pc : Goto(t, pc) => call'[t].pc = pc  BY <1>a DEF Goto, Good, Locals
<1>1. CASE Compute(t) \/ AcquireKey(t) \/ Unlock(t) \/ Read(t) \/ Touch(t) \/ Factory(t)
           \/ Budget(t) \/ Pin(t) \/ Record(t)
  <2>1. lock' = lock /\ c.pc \notin Held
    BY <1>1 DEF Compute, AcquireKey, Unlock, Read, Touch, Factory, Budget, Pin, Record,
       Calling, Held
  <2>2. call'[t].pc \notin Held
    <3>1. CASE Compute(t)
      BY <3>1, <1>a DEF Compute, Good, Locals, Held, Idle
    <3>2. CASE Unlock(t)
      BY <3>2, <1>b DEF Unlock, Idle, Held
    <3>3. CASE Factory(t)
      BY <3>3, <1>a, <1>c DEF Factory, Good, Locals, Held
    <3>. QED
      BY <1>1, <3>1, <3>2, <3>3, <1>c, <1>d DEF AcquireKey, Read, Touch, Budget, Pin, Record, Held
  <2>. QED  BY <2>1, <2>2
<1>2. CASE Get(t) \/ Describe(t)
  <2>1. lock' = lock /\ c.pc \notin Held
    BY <1>2 DEF Get, Describe, Calling, Held
  <2>2. \E r \in Locals : r.op \in {"get", "compute", "recover"} /\ call'[t] = Found(r)
    <3>1. CASE Get(t)
      <4>1. PICK k \in Keys : call' = [call EXCEPT ![t] = Found([Idle EXCEPT !.op = "get", !.key = k])]
        BY <3>1 DEF Get
      <4>2. [Idle EXCEPT !.op = "get", !.key = k] \in Locals
            /\ [Idle EXCEPT !.op = "get", !.key = k].op = "get"
        BY IdleTyped DEF Locals, Operations
      <4>. QED  BY <4>1, <4>2, <1>b
    <3>2. CASE Describe(t)
      BY <3>2, <1>a, <1>b DEF Describe, LocalOK
    <3>. QED  BY <1>2, <3>1, <3>2
  <2>. QED  BY <2>1, <2>2, FoundPlace
<1>3. CASE Put(t) \/ PutCheck(t)
  <2>1. PICK r \in Locals : PutEffect(t, r)  BY <1>a, <1>3, PutChecks
  <2>2. [r EXCEPT !.pc = "insert"].pc = "insert"  BY DEF Locals
  <2>3. c.pc \notin Held  BY <1>a, <1>3, PutChecks DEF Held
  <2>. QED  BY <2>1, <2>2, <2>3, <1>b, OverPlace DEF PutEffect, Held
<1>6. CASE Evict(t) \/ EvictAfterPut(t) \/ Invalidate(t)
  <2>1. CASE Evict(t) \/ EvictAfterPut(t)
    BY <2>1, <1>a, ListTaken DEF Evict, EvictAfterPut, Listed, Held
  <2>2. CASE Invalidate(t)
    BY <2>2, <1>a DEF Invalidate, Locals, Held, Idle
  <2>. QED  BY <1>6, <2>1, <2>2
<1>7. CASE PutInsert(t) \/ PutFails(t) \/ EvictDone(t) \/ DropDone(t)
  <2>1. lock = t /\ lock' = None
    BY <1>7, <1>a DEF PutInsert, PutFails, EvictDone, DropDone, Held
  <2>2. call'[t].pc \notin Held
    BY <1>7, <1>a, <1>c DEF PutInsert, PutFails, EvictDone, DropDone, Report, Held, Locals
  <2>. QED  BY <2>1, <2>2
<1>8. CASE EvictOne(t)
  BY <1>8, <1>a DEF EvictOne, Locals
<1>9. CASE DropOne(t)
  BY <1>9, <1>a, <1>c DEF DropOne, Held
<1>. QED
  BY <1>1, <1>2, <1>3, <1>6, <1>7, <1>8, <1>9 DEF Call, Step

(* Only a thread that holds _lock, or finds it free, changes the rows.       *)
LEMMA StoreMove ==
  ASSUME Typed, NEW t \in Threads, Call(t) \/ Step(t)
  PROVE  UNCHANGED <<store, pinned, deleted>> \/ lock \in {None, t}
BY DEF Typed, LockOK, Held, Call, Step, Compute, Get, Put, Check, Evict, Invalidate, Pin, AcquireKey,
   Unlock, Describe, Read, Touch, Factory, PutCheck, PutInsert, PutFails, Budget, EvictAfterPut,
   Listed, EvictOne, EvictDone, DropOne, DropDone, Record, dbVars

(* The list of an eviction or invalidation is taken from the rows once.     *)
LEMMA ListMove ==
  ASSUME Typed, CacheAssumption, NEW t \in Threads, Call(t) \/ Step(t),
         call'[t].pc \in {"evicting", "drop"}
  PROVE  /\ UNCHANGED store
         /\ \/ call'[t].todo \subseteq Rows
            \/ call'[t].todo = call[t].todo /\ call'[t].pc = call[t].pc
<1>. DEFINE c == call[t]
<1>a. /\ call \in [Threads -> Good] /\ c \in Locals
      /\ c.pc \in Held <=> lock = t
  BY DEF Typed, Good, LockOK
<1>b. None # t  BY CacheAssumption
<1>c. call'[t].pc \in Held  BY DEF Held
<1>1. lock' = lock => c.pc \in Held  BY LockMove, <1>a, <1>b, <1>c
<1>2. lock' # None  BY LockMove, <1>a, <1>b, <1>c
<1>3. CASE Evict(t) \/ EvictAfterPut(t)
  BY <1>3, <1>a, ListTaken DEF Evict, EvictAfterPut, Listed, dbVars
<1>4. CASE Invalidate(t)
  <2>1. call'[t].todo \subseteq Rows
    BY <1>4, <1>a DEF Invalidate, Good, Locals, Idle
  <2>. QED  BY <2>1, <1>4 DEF Invalidate, dbVars
<1>5. CASE EvictOne(t)
  <2>1. call'[t].todo = c.todo /\ call'[t].pc = c.pc
    BY <1>5, <1>a DEF EvictOne, Good, Locals
  <2>. QED  BY <2>1, <1>5 DEF EvictOne, Delete
<1>6. CASE DropOne(t)
  <2>1. \A out : Finish(t, out) => FALSE
    BY <1>a, <1>c, OverPlace DEF Finish
  <2>2. UNCHANGED call /\ UNCHANGED store
    BY <1>6, <2>1 DEF DropOne, Delete
  <2>. QED  BY <2>2
<1>7. CASE Put(t) \/ PutCheck(t)
  <2>1. PICK r \in Locals : PutEffect(t, r)  BY <1>a, <1>7, PutChecks
  <2>2. [r EXCEPT !.pc = "insert"].pc = "insert"  BY DEF Locals
  <2>3. \A out : Over(r, out).pc \notin {"evicting", "drop"}  BY OverPlace DEF Held
  <2>. QED  BY <2>1, <2>2, <2>3, <1>a DEF PutEffect
<1>8. CASE PutInsert(t) \/ PutFails(t) \/ EvictDone(t) \/ DropDone(t)
  BY <1>8, <1>2 DEF PutInsert, PutFails, EvictDone, DropDone
<1>9. CASE Compute(t) \/ Get(t) \/ Pin(t) \/ AcquireKey(t) \/ Unlock(t) \/ Describe(t)
           \/ Read(t) \/ Touch(t) \/ Factory(t) \/ Budget(t) \/ Record(t)
  BY <1>9, <1>1 DEF Compute, Get, Pin, AcquireKey, Unlock, Describe, Read, Touch, Factory, Budget,
     Record, Calling, Held
<1>. QED  BY <1>3, <1>4, <1>5, <1>6, <1>7, <1>8, <1>9 DEF Call, Step

(* Rows are values or Absent, before and after a commit.                    *)
LEMMA RowType ==
  ASSUME TypeOK
  PROVE  \A k \in Keys : Row(k) \in Values \cup {Absent}
BY DEF TypeOK, Row

(* A commit leaves rows, pins and pending deletions well typed.             *)
LEMMA CommitType ==
  ASSUME TypeOK, Commit
  PROVE  /\ store' \in [Keys -> Values \cup {Absent}]
         /\ pinned' \in SUBSET {k \in Keys : store'[k] # Absent}
         /\ deleted' \in SUBSET {k \in Keys : store'[k] # Absent}
BY RowType DEF TypeOK, Commit, Row

(* The threads leave the put of the other process alone.                    *)
LEMMA OtherKept ==
  ASSUME call \in [Threads -> Good], CacheAssumption, NEW t \in Threads, Call(t) \/ Step(t)
  PROVE  UNCHANGED other
<1>1. CASE Put(t) \/ PutCheck(t)
  BY <1>1, PutChecks DEF PutEffect
<1>. QED
  BY <1>1 DEF Call, Step, Compute, Get, Evict, Invalidate, Pin, AcquireKey,
     Unlock, Describe, Read, Touch, Factory, PutInsert, PutFails, Budget,
     EvictAfterPut, Listed, EvictOne, EvictDone, DropOne, DropDone, Record

(* Every step keeps types, places, the lock and the lists.                  *)
LEMMA TypedStep ==
  ASSUME Typed, CacheAssumption, [Next]_vars
  PROVE  Typed'
<1>. DEFINE dbOK == /\ store' \in [Keys -> Values \cup {Absent}]
                    /\ pinned' \in SUBSET {k \in Keys : store'[k] # Absent}
                    /\ deleted' \in SUBSET {k \in Keys : store'[k] # Absent}
            diskOK == /\ files' \in [Keys -> Values \cup {Absent}]
                      /\ history' \in [Keys -> Values \cup {Absent}]
            locksOK == /\ lock' \in Threads \cup {None}
                       /\ keyLock' \in [Keys -> Locks \cup {None}]
                       /\ users' \in [Keys -> SUBSET Threads]
            restOK == /\ other' \in [stage : {"idle", "writing", "done"}, key : Keys \cup {None},
                                     val : Values \cup {None}]
                      /\ doomed' \subseteq Keys /\ contested' \subseteq Keys
                      /\ calls' \in Nat /\ restarts' \in Nat
<1>a. TypeOK /\ call \in [Threads -> Good] /\ LockOK /\ TodoOK /\ OtherOK  BY DEF Typed
<1>b. call' \in [Threads -> Good] => call' \in [Threads -> Locals]  BY DEF Good
<1>c. call' \in [Threads -> Good] /\ dbOK /\ diskOK /\ locksOK /\ restOK => TypeOK'
  BY <1>b DEF TypeOK
<1>1. ASSUME NEW t \in Threads, Call(t) \/ Step(t) PROVE Typed'
  <2>. DEFINE c == call[t]
  <2>0. call' \in [Threads -> Good] /\ \A u \in Threads \ {t} : call'[u] = call[u]
    BY <1>1, CallStep, <1>a DEF Typed
  <2>a. c \in Good /\ c \in Locals /\ LocalOK(c)  BY <1>a DEF Good
  <2>b. c.pc \in {"check", "insert", "unlock"} => c.key \in Keys  BY <2>a DEF LocalOK
  <2>c. c.pc \in {"check", "insert"} => c.made \in Values  BY <2>a DEF LocalOK
  <2>d. c.todo \subseteq Keys  BY <2>a DEF Locals
  <2>e. c.pc \in {"evicting", "drop"} => \A k \in c.todo : store[k] # Absent  BY <1>a DEF TodoOK
  <2>f. dbOK /\ diskOK /\ locksOK /\ restOK
    <3>. HIDE DEF c
    <3>1. CASE Compute(t)
      BY <3>1, <1>a DEF Compute, Calling, TypeOK, dbVars
    <3>2. CASE Get(t) \/ Describe(t) \/ Read(t) \/ Factory(t) \/ AcquireKey(t) \/ Budget(t)
      <4>1. calls' \in {calls, calls + 1}
            /\ UNCHANGED <<dbVars, files, history, lock, lockVars, other, doomed, contested, restarts>>
        BY <3>2 DEF Get, Describe, Read, Factory, AcquireKey, Budget, Calling, boundVars
      <4>. QED  BY <4>1, <1>a DEF TypeOK, dbVars, lockVars
    <3>3. CASE Put(t) \/ PutCheck(t)
      <4>1. PICK r \in Locals : PutEffect(t, r)  BY <1>a, <3>3, PutChecks
      <4>2. calls' \in Nat  BY <1>a, <3>3, PutChecks DEF TypeOK
      <4>. QED  BY <4>1, <4>2, <1>a DEF PutEffect, TypeOK
    <3>4. CASE Evict(t) \/ EvictAfterPut(t)
      BY <3>4, <1>a DEF Evict, EvictAfterPut, Listed, Calling, TypeOK, dbVars, lockVars
    <3>5. CASE Invalidate(t)
      <4>1. doomed' \subseteq Keys
        BY <3>5, <1>a DEF Invalidate, Rows, Affected, TypeOK
      <4>. QED  BY <4>1, <3>5, <1>a DEF Invalidate, Calling, TypeOK, dbVars, lockVars
    <3>6. CASE Pin(t)
      <4>1. dbOK  BY <3>6, <1>a, RowType DEF Pin, TypeOK, Row, dbVars
      <4>. QED  BY <4>1, <3>6, <1>a DEF Pin, Calling, TypeOK, lockVars
    <3>7. CASE Unlock(t)
      BY <3>7, <2>b, <1>a DEF Unlock, ReleaseKey, TypeOK, dbVars, boundVars, c
    <3>8. CASE Touch(t) \/ Record(t)
      BY <3>8, <1>a, CommitType DEF Touch, Record, TypeOK, lockVars, boundVars
    <3>9. CASE PutInsert(t)
      <4>1. dbOK  BY <3>9, <2>b, <2>c, <1>a, RowType, CacheAssumption DEF PutInsert, TypeOK, Row, c
      <4>. QED  BY <4>1, <3>9, <2>b, <1>a DEF PutInsert, TypeOK, lockVars, boundVars, c
    <3>10. CASE PutFails(t)
      <4>1. dbOK  BY <3>10, <1>a DEF PutFails, Rollback, TypeOK
      <4>2. contested' \subseteq Keys  BY <3>10, <2>b, <1>a DEF PutFails, TypeOK, c
      <4>. QED
        BY <4>1, <4>2, <3>10, <2>b, <1>a DEF PutFails, TypeOK, lockVars, boundVars, c
    <3>11. ASSUME NEW k \in c.todo, Delete(k), c.pc \in {"evicting", "drop"}
           PROVE  dbOK /\ files' \in [Keys -> Values \cup {Absent}]
      BY <3>11, <2>d, <2>e, <1>a DEF Delete, TypeOK
    <3>12. CASE EvictOne(t)
      <4>1. dbOK /\ files' \in [Keys -> Values \cup {Absent}]
        BY <3>12, <3>11 DEF EvictOne, Remaining, c
      <4>. QED  BY <4>1, <3>12, <1>a DEF EvictOne, TypeOK, lockVars, boundVars
    <3>13. CASE EvictDone(t) \/ DropDone(t)
      BY <3>13, <1>a, CommitType DEF EvictDone, DropDone, TypeOK, lockVars, boundVars
    <3>14. CASE DropOne(t)
      <4>1. PICK k \in c.todo :
              \/ /\ Delete(k)
                 /\ history' \in {history, [history EXCEPT ![k] = store[k]]}
                 /\ UNCHANGED lock
              \/ lock' = None /\ UNCHANGED <<dbVars, files, history>>
        BY <3>14 DEF DropOne, Remaining, c
      <4>2. dbOK /\ files' \in [Keys -> Values \cup {Absent}]
        BY <4>1, <3>14, <3>11, <1>a DEF DropOne, TypeOK, dbVars, c
      <4>3. diskOK  BY <4>1, <4>2, <2>d, <1>a DEF TypeOK
      <4>. QED  BY <4>1, <4>2, <4>3, <3>14, <1>a DEF DropOne, TypeOK, lockVars, boundVars
    <3>. QED
      BY <1>1, <3>1, <3>2, <3>3, <3>4, <3>5, <3>6, <3>7, <3>8, <3>9, <3>10, <3>12, <3>13, <3>14
         DEF Call, Step
  <2>g. LockOK'
    <3>1. \/ lock' = lock /\ (call'[t].pc \in Held <=> call[t].pc \in Held)
          \/ lock = None /\ lock' = t /\ call'[t].pc \in Held
          \/ lock = t /\ lock' = None /\ call'[t].pc \notin Held
      BY <1>1, LockMove
    <3>2. None \notin Threads  BY CacheAssumption
    <3>3. ASSUME NEW u \in Threads \ {t} PROVE call'[u].pc \in Held <=> lock' = u
      <4>1. call'[u] = call[u]  BY <2>0
      <4>2. call[u].pc \in Held <=> lock = u  BY <1>a DEF LockOK
      <4>. QED  BY <4>1, <4>2, <3>1, <3>2
    <3>4. call'[t].pc \in Held <=> lock' = t
      <4>1. call[t].pc \in Held <=> lock = t  BY <1>a DEF LockOK
      <4>. QED  BY <4>1, <3>1, <3>2
    <3>. QED  BY <3>3, <3>4 DEF LockOK
  <2>h. TodoOK'
    <3>1. ASSUME NEW u \in Threads \ {t}, call'[u].pc \in {"evicting", "drop"},
                 NEW k \in call'[u].todo
          PROVE  store'[k] # Absent
      <4>1. call'[u] = call[u] /\ lock = u /\ store[k] # Absent
        BY <3>1, <2>0, <1>a DEF LockOK, TodoOK, Held
      <4>2. t # u /\ None # u /\ lock # t  BY <4>1, CacheAssumption
      <4>. QED  BY <1>1, <4>1, <4>2, StoreMove
    <3>2. ASSUME call'[t].pc \in {"evicting", "drop"}, NEW k \in call'[t].todo
          PROVE  store'[k] # Absent
      BY <1>1, <3>2, <2>a, <2>e, ListMove DEF Rows, Row
    <3>. QED  BY <2>0, <3>1, <3>2 DEF TodoOK
  <2>i. OtherOK'
    <3>1. UNCHANGED other  BY <1>1, <1>a, OtherKept
    <3>. QED  BY <3>1, <1>a DEF OtherOK
  <2>. QED  BY <2>0, <2>f, <2>g, <2>h, <2>i, <1>c DEF Typed
<1>2. CASE OtherWrite
  <2>1. PICK k \in Keys, v \in Values :
          /\ other' = [stage |-> "writing", key |-> k, val |-> v]
          /\ files' = [files EXCEPT ![k] = v]
          /\ contested' \in {contested, contested \cup {k}}
    BY <1>2, CacheAssumption DEF OtherWrite
  <2>2. LockOK' /\ TodoOK' /\ OtherOK'
    BY <1>2, <1>a, <2>1 DEF OtherWrite, LockOK, TodoOK, OtherOK, dbVars
  <2>3. TypeOK'
    BY <1>2, <1>a, <2>1 DEF OtherWrite, TypeOK, dbVars, lockVars, boundVars
  <2>. QED  BY <1>2, <1>a, <2>2, <2>3 DEF OtherWrite, Typed
<1>3. CASE OtherInsert
  <2>1. other.key \in Keys /\ other.val \in Values
    BY <1>3, <1>a DEF OtherInsert, OtherOK
  <2>2. /\ other'.stage = "done" /\ other'.key = other.key /\ other'.val = other.val
        /\ other' \in [stage : {"idle", "writing", "done"}, key : Keys \cup {None},
                       val : Values \cup {None}]
    BY <1>3, <1>a DEF OtherInsert, TypeOK
  <2>3. UNCHANGED store \/ store' = [store EXCEPT ![other.key] = other.val]
    BY <1>3 DEF OtherInsert
  <2>4. \A x \in Keys : store[x] # Absent => store'[x] # Absent
    BY <2>1, <2>3, <1>a, CacheAssumption DEF TypeOK
  <2>5. TypeOK'
    BY <1>3, <1>a, <2>1, <2>2, <2>3, <2>4 DEF OtherInsert, TypeOK, lockVars, boundVars
  <2>6. LockOK' /\ OtherOK'
    BY <1>3, <1>a, <2>1, <2>2 DEF OtherInsert, LockOK, OtherOK
  <2>7. TodoOK'
    BY <1>3, <1>a, <2>4 DEF OtherInsert, TodoOK, Good, Locals
  <2>. QED  BY <1>3, <1>a, <2>5, <2>6, <2>7 DEF OtherInsert, Typed
<1>4. CASE Crash
  <2>1. call' \in [Threads -> Good] /\ LockOK' /\ TodoOK' /\ OtherOK'
    <3>1. Idle \in Good /\ Idle.pc = "idle"
      BY CacheAssumption DEF Idle, Good, Locals, LocalOK, Places, Operations
    <3>. QED  BY <3>1, <1>4, <1>a, CacheAssumption DEF Crash, LockOK, TodoOK, OtherOK, Held
  <2>2. contested' \subseteq Keys
    <3>1. ASSUME NEW t \in Threads, call[t].pc = "insert" PROVE call[t].key \in Keys
      BY <3>1, <1>a DEF Good, LocalOK
    <3>. QED  BY <3>1, <1>4, <1>a DEF Crash, TypeOK
  <2>3. TypeOK'
    BY <1>4, <1>a, <1>b, <2>1, <2>2 DEF Crash, Rollback, TypeOK
  <2>. QED  BY <2>1, <2>3 DEF Typed
<1>5. CASE UNCHANGED vars
  BY <1>5, <1>a DEF vars, Typed, TypeOK, LockOK, TodoOK, OtherOK
<1>. QED  BY <1>1, <1>2, <1>3, <1>4, <1>5 DEF Next, Rest

(* The cache's state has the types TypeOK gives it.                         *)
THEOREM TypeCorrect == Spec => []TypeOK
<1>1. Init => Typed  BY InitTyped
<1>2. Typed /\ [Next]_vars => Typed'  BY TypedStep, CacheAssumption
<1>3. Typed => TypeOK  BY DEF Typed
<1>. QED  BY <1>1, <1>2, <1>3, PTL DEF Spec

-----------------------------------------------------------------------------
(* Who uses and who holds the lock of a key.  The registry names the lock   *)
(* of every call that counts itself among the key's users, and forgets it   *)
(* with the last of them, so that two keys never share a lock object; and   *)
(* at most one user of a lock is past the point where it is taken.          *)
HasLock(t) == call[t].lk # None
RegistryOK ==
    /\ \A t \in Threads : HasLock(t) =>
         keyLock[call[t].key] = call[t].lk /\ t \in users[call[t].key]
    /\ \A k \in Keys : \A t \in users[k] : HasLock(t) /\ call[t].key = k
    /\ \A k \in Keys : keyLock[k] # None => users[k] # {}
    /\ \A t, u \in Threads : HasLock(t) /\ call[u].lk = call[t].lk => call[u].key = call[t].key
OneHolder ==
    \A t, u \in Threads :
        /\ HasLock(t) /\ call[u].lk = call[t].lk
        /\ call[t].pc # "keylock" /\ call[u].pc # "keylock"
        => t = u
KeyLockOK == RegistryOK /\ OneHolder

(* A call that is over still has the lock object, and the key, it entered   *)
(* with.                                                                    *)
LEMMA OverLock ==
  ASSUME NEW c, NEW out, c.lk # None <=> c.op \in {"compute", "recover"}
  PROVE  Over(c, out).lk = c.lk /\ (c.lk # None => Over(c, out).key = c.key)
         /\ Over(c, out).pc # "keylock"
<1>. HIDE DEF Idle
<1>1. Idle.lk = None /\ Idle.pc = "idle" /\ Idle \in [pc : {"idle"}, op : {"get"}, key : {None},
         lk : {None}, meta : {Absent}, made : {None}, todo : {{}}, total : {0}, out : {None}]
  BY DEF Idle
<1>. QED  BY <1>1 DEF Over

(* So has a call after its look at the index.                               *)
LEMMA FoundLock ==
  ASSUME NEW c \in Locals, c.op \in {"get", "compute", "recover"},
         c.lk # None <=> c.op \in {"compute", "recover"}
  PROVE  Found(c).lk = c.lk /\ (c.lk # None => Found(c).key = c.key)
         /\ Found(c).pc # "keylock"
<1>. DEFINE a == [c EXCEPT !.pc = "read", !.meta = Row(c.key)]
            b == [c EXCEPT !.pc = "factory"]
<1>1. a.lk = c.lk /\ a.key = c.key /\ a.pc = "read"  BY DEF Locals
<1>2. b.lk = c.lk /\ b.key = c.key /\ b.pc = "factory"  BY DEF Locals
<1>3. Found(c) \in {a, b, Over(c, Absent), Over(c, Failed)}  BY DEF Found
<1>. HIDE DEF a, b
<1>. QED  BY <1>1, <1>2, <1>3, OverLock

(* The other steps of a call keep its lock and key, and the registry.       *)
LEMMA LockKept ==
  ASSUME Typed, CacheAssumption, NEW t \in Threads, Call(t) \/ Step(t),
         ~Compute(t), ~AcquireKey(t), ~Unlock(t)
  PROVE  /\ UNCHANGED <<keyLock, users>>
         /\ call[t].pc # "keylock" /\ call'[t].pc # "keylock"
         /\ call'[t].lk = call[t].lk
         /\ HasLock(t) => call'[t].key = call[t].key
<1>. DEFINE c == call[t]
            same(r) == r.lk = c.lk /\ (c.lk # None => r.key = c.key) /\ r.pc # "keylock"
<1>a. /\ call \in [Threads -> Good] /\ c \in Locals /\ LocalOK(c)
      /\ c.lk # None <=> c.op \in {"compute", "recover"}
  BY DEF Typed, Good, LocalOK
<1>b. \A r : call' = [call EXCEPT ![t] = r] => call'[t] = r  BY <1>a
<1>c. \A out : Finish(t, out) => same(call'[t])
  <2>1. ASSUME NEW out, Finish(t, out) PROVE same(call'[t])
    <3>1. call'[t] = Over(c, out)  BY <2>1, <1>b DEF Finish
    <3>. QED  BY <3>1, <1>a, OverLock
  <2>. QED  BY <2>1
<1>d. \A pc : Goto(t, pc) /\ pc # "keylock" => same(call'[t])
  BY <1>a DEF Goto, Good, Locals
<1>e. c.pc = "idle" => c.lk = None  BY <1>a DEF LocalOK
<1>. SUFFICES UNCHANGED <<keyLock, users>> /\ c.pc # "keylock" /\ same(call'[t])
  BY DEF HasLock
<1>. HIDE DEF same
<1>1. CASE Get(t) \/ Describe(t)
  <2>1. \E r \in Locals : /\ r.op \in {"get", "compute", "recover"}
                          /\ r.lk # None <=> r.op \in {"compute", "recover"}
                          /\ call'[t] = Found(r) /\ r.lk = c.lk
                          /\ c.lk # None => r.key = c.key
    <3>1. CASE Get(t)
      <4>1. PICK k \in Keys : call' = [call EXCEPT ![t] = Found([Idle EXCEPT !.op = "get", !.key = k])]
        BY <3>1 DEF Get
      <4>. DEFINE r == [Idle EXCEPT !.op = "get", !.key = k]
      <4>3. c.lk = None  BY <3>1, <1>e DEF Get, Calling
      <4>2. r \in Locals /\ r.op = "get" /\ r.lk = c.lk
        BY <4>3, IdleTyped DEF Locals, Operations
      <4>4. call'[t] = Found(r)  BY <4>1, <1>b
      <4>. HIDE DEF r
      <4>. QED  BY <4>2, <4>3, <4>4
    <3>2. CASE Describe(t)
      BY <3>2, <1>a, <1>b DEF Describe, LocalOK
    <3>. QED  BY <1>1, <3>1, <3>2
  <2>2. PICK r \in Locals : /\ r.op \in {"get", "compute", "recover"}
                            /\ r.lk # None <=> r.op \in {"compute", "recover"}
                            /\ call'[t] = Found(r) /\ r.lk = c.lk
                            /\ c.lk # None => r.key = c.key
    BY <2>1
  <2>3. Found(r).lk = r.lk /\ (r.lk # None => Found(r).key = r.key) /\ Found(r).pc # "keylock"
    BY <2>2, FoundLock
  <2>4. same(call'[t])  BY <2>2, <2>3 DEF same
  <2>. QED  BY <2>4, <1>1 DEF Get, Describe, Calling, lockVars
<1>2. CASE Put(t) \/ PutCheck(t)
  <2>1. PICK r \in Locals : PutEffect(t, r)  BY <1>a, <1>2, PutChecks
  <2>2. r.lk = c.lk /\ (c.lk # None => r.key = c.key)
        /\ (r.lk # None <=> r.op \in {"compute", "recover"})
    BY <2>1, <1>e DEF PutEffect
  <2>3. ASSUME NEW out PROVE same(Over(r, out))
    <3>1. Over(r, out).lk = r.lk /\ (r.lk # None => Over(r, out).key = r.key)
          /\ Over(r, out).pc # "keylock"
      BY <2>2, OverLock
    <3>. QED  BY <3>1, <2>2 DEF same
  <2>4. same([r EXCEPT !.pc = "insert"])  BY <2>2 DEF Locals, same
  <2>a. \/ \E out : call' = [call EXCEPT ![t] = Over(r, out)]
        \/ call' = [call EXCEPT ![t] = [r EXCEPT !.pc = "insert"]]
    BY <2>1 DEF PutEffect
  <2>5. same(call'[t])
    <3>1. ASSUME NEW out, call' = [call EXCEPT ![t] = Over(r, out)] PROVE same(call'[t])
      <4>1. call'[t] = Over(r, out)  BY <3>1, <1>b
      <4>2. same(Over(r, out))  BY <2>3
      <4>. QED  BY <4>1, <4>2
    <3>2. ASSUME call' = [call EXCEPT ![t] = [r EXCEPT !.pc = "insert"]] PROVE same(call'[t])
      <4>1. call'[t] = [r EXCEPT !.pc = "insert"]  BY <3>2, <1>b
      <4>. QED  BY <4>1, <2>4
    <3>. QED  BY <2>a, <3>1, <3>2
  <2>. QED  BY <2>1, <2>5, <1>a, <1>2, PutChecks DEF PutEffect
<1>3. CASE Evict(t) \/ EvictAfterPut(t)
  <2>1. same(call'[t])  BY <1>3, <1>a, ListTaken DEF same
  <2>. QED  BY <2>1, <1>3 DEF Evict, EvictAfterPut, Listed, Calling, lockVars
<1>4. CASE Invalidate(t)
  <2>1. call'[t].lk = None /\ call'[t].pc = "drop" /\ c.lk = None
    BY <1>4, <1>a, <1>e, IdleTyped DEF Invalidate, Calling, Locals
  <2>2. same(call'[t])  BY <2>1 DEF same
  <2>. QED  BY <2>2, <1>4 DEF Invalidate, Calling, lockVars
<1>5. CASE Factory(t)
  <2>1. same(call'[t])
    <3>1. ASSUME NEW v \in Values, call' = [call EXCEPT ![t].pc = "check", ![t].made = v]
          PROVE  same(call'[t])
      BY <3>1, <1>a DEF same, Good, Locals
    <3>. QED  BY <3>1, <1>5, <1>c DEF Factory
  <2>. QED  BY <2>1, <1>5 DEF Factory, lockVars
<1>6. CASE PutInsert(t)
  BY <1>6, <1>a DEF PutInsert, Good, Locals, same, lockVars
<1>7. CASE PutFails(t)
  <2>1. same(call'[t])
    <3>1. ASSUME call' = [call EXCEPT ![t].pc = "describe", ![t].op = "recover"]
          PROVE  same(call'[t])
      BY <3>1, <1>a DEF same, Good, Locals
    <3>. QED  BY <3>1, <1>7, <1>c DEF PutFails
  <2>. QED  BY <2>1, <1>7 DEF PutFails, lockVars
<1>8. CASE EvictOne(t)
  BY <1>8, <1>a DEF EvictOne, Good, Locals, same, lockVars
<1>9. CASE DropOne(t)
  <2>1. UNCHANGED call \/ Finish(t, Failed)  BY <1>9 DEF DropOne
  <2>2. UNCHANGED call /\ c.pc # "keylock" => same(call'[t])  BY DEF same
  <2>. QED  BY <2>1, <2>2, <1>9, <1>c DEF DropOne, lockVars
<1>10. CASE Read(t) \/ Touch(t) \/ Budget(t) \/ Pin(t) \/ EvictDone(t) \/ DropDone(t)
            \/ Record(t)
  <2>1. same(call'[t])
    <3>1. CASE EvictDone(t) \/ DropDone(t)
      <4>. DEFINE r == [c EXCEPT !.pc = "record", !.todo = {}, !.total = 0]
      <4>1. call' = [call EXCEPT ![t] = r] \/ \E out : Finish(t, out)
        BY <3>1, <1>a DEF EvictDone, DropDone, Report
      <4>2. r.lk = c.lk /\ r.key = c.key /\ r.pc = "record"  BY <1>a DEF Locals
      <4>. HIDE DEF r
      <4>3. same(r)  BY <4>2 DEF same
      <4>. QED  BY <4>1, <4>3, <1>b, <1>c
    <3>. QED  BY <1>10, <3>1, <1>c, <1>d DEF Read, Touch, Budget, Pin, Record
  <2>. QED
    BY <2>1, <1>10 DEF Read, Touch, Budget, Pin, Calling, EvictDone, DropDone, Record, lockVars
<1>. QED
  BY <1>1, <1>2, <1>3, <1>4, <1>5, <1>6, <1>7, <1>8, <1>9, <1>10 DEF Call, Step

(* Every step keeps the registry of lock objects in order.                  *)
LEMMA KeyLockStep ==
  ASSUME Typed, KeyLockOK, CacheAssumption, [Next]_vars
  PROVE  KeyLockOK'
<1>a. /\ call \in [Threads -> Good] /\ TypeOK
      /\ \A t \in Threads : call[t] \in Locals /\ LocalOK(call[t])
  BY DEF Typed, Good
<1>b. \A t \in Threads : HasLock(t) => call[t].key \in Keys /\ call[t].lk \in Locks
  BY <1>a DEF HasLock, LocalOK, Locals
<1>c. keyLock \in [Keys -> Locks \cup {None}] /\ users \in [Keys -> SUBSET Threads]
  BY <1>a DEF TypeOK
<1>d. None \notin Locks  BY CacheAssumption
<1>. USE DEF HasLock
<1>1. ASSUME NEW t \in Threads, Compute(t) PROVE KeyLockOK'
  <2>1. PICK k \in Keys, l \in Locks :
          /\ IF keyLock[k] # None THEN l = keyLock[k]
             ELSE \A u \in Threads : call[u].lk # l
          /\ keyLock' = [keyLock EXCEPT ![k] = l]
          /\ users' = [users EXCEPT ![k] = @ \cup {t}]
          /\ call' = [call EXCEPT ![t] =
                [Idle EXCEPT !.pc = "keylock", !.op = "compute", !.key = k, !.lk = l]]
    BY <1>1 DEF Compute
  <2>2. /\ call'[t].lk = l /\ call'[t].key = k /\ call'[t].pc = "keylock"
        /\ \A u \in Threads \ {t} : call'[u] = call[u]
    BY <2>1, <1>a DEF Locals
  <2>3. call[t].lk = None  BY <1>1, <1>a DEF Compute, Calling, LocalOK
  <2>4. \A u \in Threads : call[u].lk = l => call[u].key = k
    <3>1. CASE keyLock[k] # None
      <4>1. PICK v \in users[k] : TRUE  BY <3>1 DEF KeyLockOK, RegistryOK
      <4>2. v \in Threads /\ call[v].key = k /\ call[v].lk # None  BY <1>c DEF KeyLockOK, RegistryOK
      <4>3. call[v].lk = l  BY <4>2, <2>1, <3>1 DEF KeyLockOK, RegistryOK
      <4>. QED  BY <4>2, <4>3 DEF KeyLockOK, RegistryOK
    <3>2. CASE keyLock[k] = None
      BY <3>2, <2>1
    <3>. QED  BY <3>1, <3>2
  <2>5. \A u \in Threads : call[u].lk # None /\ call[u].key = k => call[u].lk = l
    BY <2>1, <1>b DEF KeyLockOK, RegistryOK
  <2>6. RegistryOK'
    <3>1. ASSUME NEW u \in Threads, call'[u].lk # None
          PROVE  keyLock'[call'[u].key] = call'[u].lk /\ u \in users'[call'[u].key]
      BY <3>1, <2>1, <2>2, <2>5, <1>b, <1>c DEF KeyLockOK, RegistryOK
    <3>2. ASSUME NEW x \in Keys, NEW u \in users'[x] PROVE call'[u].lk # None /\ call'[u].key = x
      BY <2>1, <2>2, <2>3, <1>c, <1>d DEF KeyLockOK, RegistryOK
    <3>3. ASSUME NEW x \in Keys, keyLock'[x] # None PROVE users'[x] # {}
      BY <3>3, <2>1, <1>c DEF KeyLockOK, RegistryOK
    <3>4. ASSUME NEW u \in Threads, NEW v \in Threads, call'[u].lk # None,
                 call'[v].lk = call'[u].lk
          PROVE  call'[v].key = call'[u].key
      BY <3>4, <2>2, <2>4 DEF KeyLockOK, RegistryOK
    <3>. QED  BY <3>1, <3>2, <3>3, <3>4 DEF RegistryOK
  <2>7. OneHolder'
    BY <2>2 DEF KeyLockOK, OneHolder
  <2>. QED  BY <2>6, <2>7 DEF KeyLockOK
<1>2. ASSUME NEW t \in Threads, AcquireKey(t) PROVE KeyLockOK'
  <2>1. /\ call'[t].lk = call[t].lk /\ call'[t].key = call[t].key
        /\ \A u \in Threads \ {t} : call'[u] = call[u]
        /\ UNCHANGED <<keyLock, users>>
    BY <1>2, <1>a DEF AcquireKey, Goto, Locals, lockVars
  <2>2. \A u \in Threads : call[u].lk = call[t].lk => call[u].pc = "keylock"
    BY <1>2 DEF AcquireKey, HeldBy
  <2>3. RegistryOK'
    BY <2>1, <1>c DEF KeyLockOK, RegistryOK
  <2>4. OneHolder'
    BY <2>1, <2>2 DEF KeyLockOK, OneHolder
  <2>. QED  BY <2>3, <2>4 DEF KeyLockOK
<1>3. ASSUME NEW t \in Threads, Unlock(t) PROVE KeyLockOK'
  <2>. DEFINE k == call[t].key
  <2>1. /\ call'[t].lk = None /\ call'[t].pc = "idle"
        /\ \A u \in Threads \ {t} : call'[u] = call[u]
    BY <1>3, <1>a DEF Unlock, Idle
  <2>2. k \in Keys /\ call[t].lk # None  BY <1>3, <1>a DEF Unlock, LocalOK
  <2>3. /\ users' = [users EXCEPT ![k] = @ \ {t}]
        /\ keyLock' = [keyLock EXCEPT ![k] = IF users[k] = {t} THEN None ELSE @]
    BY <1>3 DEF Unlock, ReleaseKey
  <2>. HIDE DEF k
  <2>4. \A x \in Keys \ {k} : t \notin users[x]
    BY <2>2 DEF KeyLockOK, RegistryOK, k
  <2>5. RegistryOK'
    <3>1. ASSUME NEW u \in Threads, call'[u].lk # None
          PROVE  keyLock'[call'[u].key] = call'[u].lk /\ u \in users'[call'[u].key]
      <4>1. u # t /\ call'[u] = call[u]  BY <3>1, <2>1
      <4>2. keyLock[call[u].key] = call[u].lk /\ u \in users[call[u].key] /\ call[u].key \in Keys
        BY <3>1, <4>1, <1>b DEF KeyLockOK, RegistryOK
      <4>. QED  BY <4>1, <4>2, <2>2, <2>3, <1>c
    <3>2. ASSUME NEW x \in Keys, NEW u \in users'[x] PROVE call'[u].lk # None /\ call'[u].key = x
      <4>1. u \in users[x] /\ u \in Threads /\ u # t  BY <2>2, <2>3, <2>4, <1>c
      <4>. QED  BY <4>1, <2>1 DEF KeyLockOK, RegistryOK
    <3>3. ASSUME NEW x \in Keys, keyLock'[x] # None PROVE users'[x] # {}
      <4>1. keyLock[x] # None /\ users[x] # {}  BY <3>3, <2>2, <2>3, <1>c DEF KeyLockOK, RegistryOK
      <4>2. CASE x = k
        BY <4>1, <4>2, <3>3, <2>2, <2>3, <1>c
      <4>3. CASE x # k
        BY <4>1, <4>3, <2>2, <2>3, <1>c
      <4>. QED  BY <4>2, <4>3
    <3>4. ASSUME NEW u \in Threads, NEW v \in Threads, call'[u].lk # None,
                 call'[v].lk = call'[u].lk
          PROVE  call'[v].key = call'[u].key
      BY <3>4, <2>1 DEF KeyLockOK, RegistryOK
    <3>. QED  BY <3>1, <3>2, <3>3, <3>4 DEF RegistryOK
  <2>6. OneHolder'
    BY <2>1 DEF KeyLockOK, OneHolder
  <2>. QED  BY <2>5, <2>6 DEF KeyLockOK
<1>4. ASSUME NEW t \in Threads, Call(t) \/ Step(t), ~Compute(t), ~AcquireKey(t), ~Unlock(t)
      PROVE  KeyLockOK'
  <2>1. /\ UNCHANGED <<keyLock, users>>
        /\ call[t].pc # "keylock" /\ call'[t].pc # "keylock"
        /\ call'[t].lk = call[t].lk
        /\ call[t].lk # None => call'[t].key = call[t].key
    BY <1>4, LockKept
  <2>2. \A u \in Threads \ {t} : call'[u] = call[u]
    BY <1>4, CallStep
  <2>3. RegistryOK'
    BY <2>1, <2>2, <1>c DEF KeyLockOK, RegistryOK
  <2>4. OneHolder'
    BY <2>1, <2>2 DEF KeyLockOK, OneHolder
  <2>. QED  BY <2>3, <2>4 DEF KeyLockOK
<1>5. CASE OtherWrite \/ OtherInsert \/ UNCHANGED vars
  <2>1. UNCHANGED <<keyLock, users, call>>
    BY <1>5 DEF OtherWrite, OtherInsert, vars, lockVars
  <2>. QED  BY <2>1 DEF KeyLockOK, RegistryOK, OneHolder
<1>6. CASE Crash
  BY <1>6 DEF Crash, KeyLockOK, RegistryOK, OneHolder, Idle
<1>. QED  BY <1>1, <1>2, <1>3, <1>4, <1>5, <1>6 DEF Next, Rest

(* At most one thread runs the producer of a key, whatever the threads and  *)
(* keys: the lock object of the key is shared by all that want it, and only *)
(* one of them is past it.                                                  *)
THEOREM OneProducer == Spec => []SingleFlight
<1>1. Init => Typed /\ KeyLockOK
  <2>1. Init => KeyLockOK
    BY DEF Init, Idle, KeyLockOK, RegistryOK, OneHolder, HasLock
  <2>. QED  BY <2>1, InitTyped
<1>2. Typed /\ KeyLockOK /\ [Next]_vars => (Typed /\ KeyLockOK)'
  BY TypedStep, KeyLockStep, CacheAssumption
<1>3. Typed /\ KeyLockOK => SingleFlight
  <2>1. ASSUME Typed, KeyLockOK, NEW t \in Threads, NEW u \in Threads,
               call[t].pc = "factory", call[u].pc = "factory", call[t].key = call[u].key
        PROVE  t = u
    <3>1. \A x \in {t, u} : call[x].lk # None  BY <2>1 DEF Typed, Good, LocalOK
    <3>2. call[t].lk = call[u].lk  BY <2>1, <3>1 DEF KeyLockOK, RegistryOK, HasLock
    <3>. QED  BY <2>1, <3>1, <3>2 DEF KeyLockOK, OneHolder, HasLock
  <2>. QED  BY <2>1 DEF SingleFlight
<1>. QED  BY <1>1, <1>2, <1>3, PTL DEF Spec

-----------------------------------------------------------------------------
(* What invalidate has on its list.  The entries it was asked for are       *)
(* closed under "declares upstream", and stay so while it holds _lock: a    *)
(* row it does not list declares nothing that it lists.                     *)
Pending(c) == store[c] # Absent /\ c \notin deleted
ClosedOK ==
    \A t \in Threads : call[t].pc = "drop" /\ call[t].op = "invalidate" =>
        \A c \in Keys \ {other.key} :
            Pending(c) /\ Upstream[c] \cap ({call[t].key} \cup call[t].todo) # {}
            => c \in call[t].todo

(* The list of an invalidation contains its key and whatever declares a     *)
(* listed entry upstream.                                                   *)
LEMMA AffectedClosed ==
  ASSUME NEW k \in Keys
  PROVE  /\ k \in Affected(k)
         /\ \A y \in Affected(k) : Children(y) \subseteq Affected(k)
<1>1. \A y : Children(y) \subseteq Keys  BY DEF Children, Rows
<1>2. ASSUME NEW y \in Affected(k), NEW x \in Children(y) PROVE x \in Affected(k)
  <2>1. ASSUME NEW S \in SUBSET Keys, k \in S, \A z \in S : Children(z) \subseteq S
        PROVE  x \in S
    BY <2>1, <1>2 DEF Affected
  <2>. QED  BY <1>1, <2>1 DEF Affected
<1>. QED  BY <1>2 DEF Affected

(* A call is in the deletions of an invalidation when it has just started   *)
(* or has deleted one more entry.                                           *)
LEMMA DropMove ==
  ASSUME Typed, CacheAssumption, NEW t \in Threads, Call(t) \/ Step(t), call'[t].pc = "drop"
  PROVE  Invalidate(t) \/ (DropOne(t) /\ UNCHANGED call)
<1>. DEFINE c == call[t]
<1>a. /\ call \in [Threads -> Good] /\ c \in Locals
      /\ c.pc \in Held <=> lock = t
  BY DEF Typed, Good, LockOK
<1>b. None # t  BY CacheAssumption
<1>c. call'[t].pc \in Held  BY DEF Held
<1>1. lock' = lock => c.pc \in Held  BY LockMove, <1>a, <1>b, <1>c
<1>2. lock' # None  BY LockMove, <1>a, <1>b, <1>c
<1>3. ~(Evict(t) \/ EvictAfterPut(t))  BY <1>a, ListTaken
<1>4. ~EvictOne(t)  BY <1>a DEF EvictOne, Good, Locals
<1>5. DropOne(t) => UNCHANGED call
  <2>1. \A out : Finish(t, out) => FALSE
    BY <1>a, <1>c, OverPlace DEF Finish
  <2>. QED  BY <2>1 DEF DropOne
<1>6. ~(Put(t) \/ PutCheck(t))
  <2>. SUFFICES ASSUME Put(t) \/ PutCheck(t) PROVE FALSE  OBVIOUS
  <2>1. PICK r \in Locals : PutEffect(t, r)  BY <1>a, PutChecks
  <2>2. [r EXCEPT !.pc = "insert"].pc = "insert"  BY DEF Locals
  <2>3. \A out : Over(r, out).pc # "drop"  BY OverPlace DEF Held
  <2>. QED  BY <2>1, <2>2, <2>3, <1>a DEF PutEffect
<1>7. ~(PutInsert(t) \/ PutFails(t) \/ EvictDone(t) \/ DropDone(t))
  BY <1>2 DEF PutInsert, PutFails, EvictDone, DropDone
<1>8. ~(Compute(t) \/ Get(t) \/ Pin(t) \/ AcquireKey(t) \/ Unlock(t) \/ Describe(t)
        \/ Read(t) \/ Touch(t) \/ Factory(t) \/ Budget(t) \/ Record(t))
  BY <1>1 DEF Compute, Get, Pin, AcquireKey, Unlock, Describe, Read, Touch, Factory, Budget,
     Record, Calling, Held
<1>. QED  BY <1>3, <1>4, <1>5, <1>6, <1>7, <1>8 DEF Call, Step

(* Every step keeps the lists of the running invalidations closed.          *)
LEMMA ClosedStep ==
  ASSUME Typed, ClosedOK, CacheAssumption, [Next]_vars
  PROVE  ClosedOK'
<1>a. call \in [Threads -> Good] /\ LockOK /\ TypeOK  BY DEF Typed
<1>1. ASSUME NEW t \in Threads, Call(t) \/ Step(t) PROVE ClosedOK'
  <2>0. UNCHANGED other /\ \A u \in Threads \ {t} : call'[u] = call[u]
    BY <1>1, <1>a, OtherKept, CallStep
  <2>1. ASSUME NEW u \in Threads \ {t}, call'[u].pc = "drop", call'[u].op = "invalidate",
               NEW c \in Keys \ {other.key}, Pending(c)',
               Upstream[c] \cap ({call'[u].key} \cup call'[u].todo) # {}
        PROVE  c \in call'[u].todo
    <3>1. call'[u] = call[u] /\ lock = u  BY <2>0, <2>1, <1>a DEF LockOK, Held
    <3>2. u # t /\ u # None  BY CacheAssumption
    <3>3. UNCHANGED <<store, deleted>>  BY <1>1, <3>1, <3>2, StoreMove
    <3>. QED  BY <2>1, <3>1, <3>3 DEF ClosedOK, Pending
  <2>2. ASSUME call'[t].pc = "drop", call'[t].op = "invalidate",
               NEW c \in Keys \ {other.key}, Pending(c)',
               Upstream[c] \cap ({call'[t].key} \cup call'[t].todo) # {}
        PROVE  c \in call'[t].todo
    <3>1. CASE Invalidate(t)
      <4>1. PICK k \in Keys, op \in {"invalidate", "family"}, asked \in SUBSET Keys :
              /\ op = "invalidate" => asked = Affected(k)
              /\ call' = [call EXCEPT ![t] = [Idle EXCEPT !.pc = "drop", !.op = op, !.key = k,
                                                      !.todo = asked \cap Rows]]
        BY <3>1 DEF Invalidate, Affected, Rows
      <4>2. call'[t].key = k /\ call'[t].op = op /\ call'[t].todo = asked \cap Rows
        BY <4>1, <1>a DEF Good, Locals, Idle
      <4>3. asked = Affected(k)  BY <4>1, <4>2, <2>2
      <4>4. c \in Rows  BY <2>2, <3>1 DEF Pending, Invalidate, Rows, Row, dbVars
      <4>5. PICK y \in {k} \cup Affected(k) : y \in Upstream[c]  BY <2>2, <4>2, <4>3
      <4>6. c \in Children(y)  BY <4>4, <4>5 DEF Children
      <4>7. c \in Affected(k)  BY <4>5, <4>6, AffectedClosed
      <4>. QED  BY <4>2, <4>3, <4>4, <4>7
    <3>2. CASE DropOne(t) /\ UNCHANGED call
      <4>1. UNCHANGED store /\ deleted \subseteq deleted'
        BY <3>2 DEF DropOne, Delete, dbVars
      <4>. QED  BY <2>2, <3>2, <4>1 DEF ClosedOK, Pending
    <3>. QED  BY <1>1, <2>2, <3>1, <3>2, DropMove
  <2>. QED  BY <2>0, <2>1, <2>2 DEF ClosedOK
<1>2. CASE OtherWrite
  <2>1. UNCHANGED <<store, deleted, call>>  BY <1>2 DEF OtherWrite, dbVars
  <2>2. other.key \notin Keys  BY <1>2, CacheAssumption DEF OtherWrite, Typed, OtherOK
  <2>. QED  BY <2>1, <2>2 DEF ClosedOK, Pending
<1>3. CASE OtherInsert
  <2>1. UNCHANGED <<deleted, call>> /\ other'.key = other.key
        /\ \A c \in Keys \ {other.key} : store'[c] = store[c]
    BY <1>3, <1>a DEF OtherInsert, TypeOK
  <2>. QED  BY <2>1 DEF ClosedOK, Pending
<1>4. CASE Crash
  BY <1>4 DEF Crash, ClosedOK, Idle
<1>5. CASE UNCHANGED vars
  BY <1>5 DEF vars, ClosedOK, Pending
<1>. QED  BY <1>1, <1>2, <1>3, <1>4, <1>5 DEF Next, Rest

(* An invalidation that returns normally leaves no entry behind that        *)
(* declares one of the dropped entries upstream.                            *)
THEOREM InvalidationComplete == Spec => InvalidationClosed
<1>1. Init => Typed /\ ClosedOK
  <2>1. Init => ClosedOK  BY DEF Init, Idle, ClosedOK
  <2>. QED  BY <2>1, InitTyped
<1>2. Typed /\ ClosedOK /\ [Next]_vars => (Typed /\ ClosedOK)'
  BY TypedStep, ClosedStep, CacheAssumption
<1>. DEFINE Closed ==
       \A t \in Threads :
         /\ call[t].op = "invalidate" /\ call[t].pc = "drop"
         /\ call'[t].pc = "record" \/ (call'[t].pc = "idle" /\ call'[t].out = None)
         /\ restarts' = restarts
         => \A k \in Keys \ {other.key} :
              store'[k] # Absent => Upstream[k] \cap ({call[t].key} \cup call[t].todo) = {}
<1>3. Typed /\ ClosedOK /\ [Next]_vars => [Closed]_vars
  <2>1. ASSUME Typed, ClosedOK, [Next]_vars, NEW t \in Threads,
               call[t].op = "invalidate", call[t].pc = "drop",
               call'[t].pc = "record" \/ (call'[t].pc = "idle" /\ call'[t].out = None),
               restarts' = restarts,
               NEW k \in Keys \ {other.key}, store'[k] # Absent
        PROVE  Upstream[k] \cap ({call[t].key} \cup call[t].todo) = {}
    <3>a. call \in [Threads -> Good] /\ TypeOK  BY <2>1 DEF Typed
    <3>1. call' # call  BY <2>1
    <3>2. DropOne(t) \/ DropDone(t)
      <4>1. ~Crash /\ ~OtherWrite /\ ~OtherInsert /\ ~Rest /\ ~UNCHANGED vars
        BY <2>1, <3>1, <3>a DEF Crash, OtherWrite, OtherInsert, Rest, vars, TypeOK
      <4>2. PICK u \in Threads : Call(u) \/ Step(u)  BY <4>1, <2>1 DEF Next
      <4>3. u = t  BY <2>1, <4>2, CallStep, CacheAssumption
      <4>4. ~(Put(t) \/ PutCheck(t))  BY <2>1, <3>a, PutChecks, CacheAssumption
      <4>. QED
        BY <2>1, <4>2, <4>3, <4>4 DEF Call, Step, Compute, Get, Evict, Invalidate, Pin, Calling,
           AcquireKey, Unlock, Describe, Read, Touch, Factory, PutInsert, PutFails, Budget,
           EvictAfterPut, EvictOne, EvictDone, Record
    <3>3. ~DropOne(t)
      <4>1. ASSUME Finish(t, Failed) PROVE FALSE
        <5>1. call'[t] = [Idle EXCEPT !.out = Failed]
          BY <2>1, <4>1, <3>a DEF Finish, Over
        <5>. QED  BY <2>1, <5>1, CacheAssumption DEF Idle
      <4>. QED  BY <3>1, <4>1 DEF DropOne
    <3>4. Commit /\ call[t].todo \subseteq deleted
      BY <3>2, <3>3 DEF DropDone, Remaining
    <3>5. Row(k) # Absent /\ Pending(k) /\ k \notin call[t].todo
      BY <2>1, <3>4 DEF Commit, Row, Pending
    <3>. QED  BY <2>1, <3>5 DEF ClosedOK
  <2>. QED  BY <2>1
<1>. QED  BY <1>1, <1>2, <1>3, PTL DEF Spec, InvalidationClosed

-----------------------------------------------------------------------------
(* An invalidation goes on to drop its list.                                *)
LEMMA InvalidatePlace ==
  ASSUME call \in [Threads -> Good], NEW t \in Threads, Invalidate(t)
  PROVE  call'[t].pc = "drop"
<1>1. PICK k, op, todo :
        call' = [call EXCEPT ![t] = [Idle EXCEPT !.pc = "drop", !.op = op, !.key = k,
                                              !.todo = todo]]
  BY DEF Invalidate
<1>2. [Idle EXCEPT !.pc = "drop", !.op = op, !.key = k, !.todo = todo].pc = "drop"
  BY DEF Idle
<1>. QED  BY <1>1, <1>2

(* A thread is in an eviction, or about to insert, because it has just      *)
(* taken the lock for it or held it already.                                *)
LEMMA EvictMove ==
  ASSUME Typed, CacheAssumption, NEW t \in Threads, Call(t) \/ Step(t), call'[t].pc = "evicting"
  PROVE  Evict(t) \/ EvictAfterPut(t) \/ EvictOne(t)
<1>. DEFINE c == call[t]
<1>a. /\ call \in [Threads -> Good] /\ c \in Locals
      /\ c.pc \in Held <=> lock = t
  BY DEF Typed, Good, LockOK
<1>b. None # t  BY CacheAssumption
<1>c. call'[t].pc \in Held  BY DEF Held
<1>1. lock' = lock => c.pc \in Held  BY LockMove, <1>a, <1>b, <1>c
<1>2. lock' # None  BY LockMove, <1>a, <1>b, <1>c
<1>3. ~Invalidate(t)  BY <1>a, InvalidatePlace
<1>4. ~DropOne(t)
  <2>1. \A out : ~Finish(t, out)  BY <1>a, <1>c, OverPlace DEF Finish
  <2>. QED  BY <2>1 DEF DropOne
<1>5. ~(Put(t) \/ PutCheck(t))
  <2>. SUFFICES ASSUME Put(t) \/ PutCheck(t) PROVE FALSE  OBVIOUS
  <2>1. PICK r \in Locals : PutEffect(t, r)  BY <1>a, PutChecks
  <2>2. [r EXCEPT !.pc = "insert"].pc = "insert"  BY DEF Locals
  <2>3. \A out : Over(r, out).pc # "evicting"  BY OverPlace DEF Held
  <2>. QED  BY <2>1, <2>2, <2>3, <1>a DEF PutEffect
<1>6. ~(PutInsert(t) \/ PutFails(t) \/ EvictDone(t) \/ DropDone(t))
  BY <1>2 DEF PutInsert, PutFails, EvictDone, DropDone
<1>7. ~(Compute(t) \/ Get(t) \/ Pin(t) \/ AcquireKey(t) \/ Unlock(t) \/ Describe(t)
        \/ Read(t) \/ Touch(t) \/ Factory(t) \/ Budget(t) \/ Record(t))
  BY <1>1 DEF Compute, Get, Pin, AcquireKey, Unlock, Describe, Read, Touch, Factory, Budget,
     Record, Calling, Held
<1>. QED  BY <1>3, <1>4, <1>5, <1>6, <1>7 DEF Call, Step

(* The only way to an insertion is a put that found no row and wrote its    *)
(* file.                                                                    *)
LEMMA InsertMove ==
  ASSUME Typed, CacheAssumption, NEW t \in Threads, Call(t) \/ Step(t), call'[t].pc = "insert"
  PROVE  \E r \in Locals :
           /\ PutEffect(t, r) /\ Row(r.key) = Absent /\ Remembers(r.key, r.made)
           /\ files' = [files EXCEPT ![r.key] = r.made]
           /\ contested' = IF OtherWrites(r.key) THEN contested \cup {r.key} ELSE contested
           /\ call'[t].key = r.key /\ call'[t].made = r.made
<1>. DEFINE c == call[t]
<1>a. /\ call \in [Threads -> Good] /\ c \in Locals
      /\ c.pc \in Held <=> lock = t
  BY DEF Typed, Good, LockOK
<1>b. None # t  BY CacheAssumption
<1>c. call'[t].pc \in Held  BY DEF Held
<1>1. lock' = lock => c.pc \in Held  BY LockMove, <1>a, <1>b, <1>c
<1>2. lock' # None  BY LockMove, <1>a, <1>b, <1>c
<1>3. ~Invalidate(t)  BY <1>a, InvalidatePlace
<1>4. ~DropOne(t)
  <2>1. \A out : ~Finish(t, out)  BY <1>a, <1>c, OverPlace DEF Finish
  <2>. QED  BY <2>1 DEF DropOne
<1>5. ~(Evict(t) \/ EvictAfterPut(t))  BY <1>a, ListTaken
<1>6. ~EvictOne(t)  BY <1>a DEF EvictOne, Good, Locals
<1>7. ~(PutInsert(t) \/ PutFails(t) \/ EvictDone(t) \/ DropDone(t))
  BY <1>2 DEF PutInsert, PutFails, EvictDone, DropDone
<1>8. ~(Compute(t) \/ Get(t) \/ Pin(t) \/ AcquireKey(t) \/ Unlock(t) \/ Describe(t)
        \/ Read(t) \/ Touch(t) \/ Factory(t) \/ Budget(t) \/ Record(t))
  BY <1>1 DEF Compute, Get, Pin, AcquireKey, Unlock, Describe, Read, Touch, Factory, Budget,
     Record, Calling, Held
<1>9. Put(t) \/ PutCheck(t)
  BY <1>3, <1>4, <1>5, <1>6, <1>7, <1>8 DEF Call, Step
<1>10. PICK r \in Locals : PutEffect(t, r)  BY <1>9, <1>a, PutChecks
<1>11. \A out : Over(r, out).pc # "insert"  BY OverPlace DEF Held
<1>12. /\ call' = [call EXCEPT ![t] = [r EXCEPT !.pc = "insert"]]
       /\ Row(r.key) = Absent /\ Remembers(r.key, r.made)
       /\ files' = [files EXCEPT ![r.key] = r.made]
       /\ contested' = IF OtherWrites(r.key) THEN contested \cup {r.key} ELSE contested
  BY <1>10, <1>11, <1>a DEF PutEffect
<1>13. call'[t].key = r.key /\ call'[t].made = r.made  BY <1>12, <1>a DEF Locals
<1>. QED  BY <1>10, <1>12, <1>13

(* While a thread holds _lock, the others leave what it relies on alone.    *)
LEMMA OthersWait ==
  ASSUME Typed, CacheAssumption, NEW t \in Threads, Call(t) \/ Step(t),
         NEW u \in Threads \ {t}, lock = u
  PROVE  UNCHANGED <<store, pinned, deleted, files, history, doomed>>
<1>a. call \in [Threads -> Good] /\ call[t].pc \notin Held /\ u # None /\ u # t
  BY CacheAssumption DEF Typed, LockOK
<1>1. UNCHANGED <<store, pinned, deleted>>  BY <1>a, StoreMove
<1>2. ~(Put(t) \/ PutCheck(t))  BY <1>a, PutChecks DEF PutEffect
<1>3. UNCHANGED <<files, history, doomed>>
  BY <1>a, <1>2 DEF Held, Call, Step, Compute, Get, Evict, Invalidate, Pin, AcquireKey,
     Unlock, Describe, Read, Touch, Factory, PutInsert, PutFails, Budget, EvictAfterPut,
     Listed, EvictOne, EvictDone, DropOne, DropDone, Record
<1>. QED  BY <1>1, <1>3

-----------------------------------------------------------------------------
(* The files of the entries that nobody met half-way.  While the other      *)
(* process writes an entry its file is ahead of the missing row, and so is  *)
(* the file of a put of this process; a put that finds its row still        *)
(* missing finds its own file.                                              *)
FilesOK ==
    \A k \in Keys \ contested :
        /\ OtherWrites(k) => store[k] = Absent /\ files[k] = other.val /\ Inserting(k) = {}
        /\ Inserting(k) # {} => Row(k) = Absent
        /\ ~OtherWrites(k) /\ Inserting(k) = {} => files[k] = Row(k)
AheadOK ==
    \A t \in Threads :
        call[t].pc = "insert" /\ Row(call[t].key) = Absent /\ ~OtherWrites(call[t].key)
        => files[call[t].key] = call[t].made

(* A step that leaves the rows, the files and the insertions as they are;   *)
(* a commit does.                                                           *)
LEMMA FilesKept ==
  ASSUME FilesOK, AheadOK, UNCHANGED <<files, contested, other>>,
         \A k \in Keys : /\ Row(k)' = Row(k)
                         /\ store'[k] = store[k] \/ store'[k] = Row(k)
                         /\ Inserting(k)' = Inserting(k),
         \A t \in Threads : call'[t].pc = "insert" => call'[t] = call[t] /\ call[t].key \in Keys
  PROVE  FilesOK' /\ AheadOK'
<1>1. ASSUME NEW k \in Keys PROVE OtherWrites(k)' <=> OtherWrites(k)  BY DEF OtherWrites
<1>2. ASSUME NEW k \in Keys, store[k] = Absent PROVE store'[k] = Absent  BY <1>2 DEF Row
<1>3. FilesOK'  BY <1>1, <1>2 DEF FilesOK
<1>4. AheadOK'  BY <1>1 DEF AheadOK
<1>. QED  BY <1>3, <1>4

(* A commit changes no row as its own connection sees it.                   *)
LEMMA CommitRows ==
  ASSUME Commit
  PROVE  \A k \in Keys : Row(k)' = Row(k) /\ store'[k] = Row(k)
BY DEF Commit, Row

(* Every step keeps the files in step with the rows.                        *)
LEMMA FilesStep ==
  ASSUME Typed, FilesOK, AheadOK, CacheAssumption, [Next]_vars
  PROVE  FilesOK' /\ AheadOK'
<1>a. /\ TypeOK /\ call \in [Threads -> Good] /\ LockOK /\ TodoOK /\ OtherOK
      /\ files \in [Keys -> Values \cup {Absent}] /\ store \in [Keys -> Values \cup {Absent}]
  BY DEF Typed, TypeOK
<1>b. \A t \in Threads : t # None  BY CacheAssumption
<1>c. \A t \in Threads : call[t].pc = "insert" => call[t].key \in Keys /\ call[t].made \in Values
  BY <1>a DEF Good, LocalOK
<1>1. ASSUME NEW t \in Threads, Call(t) \/ Step(t) PROVE FilesOK' /\ AheadOK'
  <2>0. (\A u \in Threads \ {t} : call'[u] = call[u]) /\ UNCHANGED other
    BY <1>1, <1>a, CallStep, OtherKept
  <2>a. \A k \in Keys : OtherWrites(k)' <=> OtherWrites(k)  BY <2>0 DEF OtherWrites
  <2>1. CASE call'[t].pc = "insert"
    <3>1. PICK r \in Locals :
            /\ PutEffect(t, r) /\ Row(r.key) = Absent
            /\ files' = [files EXCEPT ![r.key] = r.made]
            /\ contested' = IF OtherWrites(r.key) THEN contested \cup {r.key} ELSE contested
            /\ call'[t].key = r.key /\ call'[t].made = r.made
      BY <2>1, <1>1, InsertMove
    <3>2. lock = None /\ r.key \in Keys /\ UNCHANGED <<store, deleted>>  BY <3>1 DEF PutEffect
    <3>3. \A u \in Threads : call[u].pc # "insert"  BY <3>2, <1>a, <1>b DEF LockOK, Held
    <3>4. /\ \A k \in Keys : Inserting(k) = {} /\ Row(k)' = Row(k)
          /\ \A k \in Keys \ {r.key} : Inserting(k)' = {}
          /\ Inserting(r.key)' # {}
      BY <2>0, <2>1, <3>1, <3>2, <3>3 DEF Inserting, Row
    <3>5. AheadOK'
      BY <2>0, <3>1, <3>2, <3>3, <1>a DEF AheadOK
    <3>6. ASSUME NEW k \in Keys \ {r.key}, k \notin contested'
          PROVE  files'[k] = files[k] /\ k \notin contested
      BY <3>1, <3>6, <1>a
    <3>7. FilesOK'
      BY <2>0, <2>a, <3>1, <3>2, <3>4, <3>6, <1>a DEF FilesOK
    <3>. QED  BY <3>5, <3>7
  <2>2. CASE PutInsert(t)
    <3>k. PICK k \in Keys : k = call[t].key
      BY <2>2, <1>c DEF PutInsert, PutFails
    <3>1. /\ call[t].pc = "insert" /\ lock = t /\ call[t].made \in Values
          /\ Row(k) = Absent
          /\ store' = [x \in Keys |-> IF x = k THEN call[t].made ELSE Row(x)]
          /\ deleted' = {} /\ UNCHANGED files
          /\ contested' = IF OtherWrites(k) THEN contested ELSE contested \ {k}
      BY <2>2, <3>k, <1>a, <1>c DEF PutInsert, LockOK, Held
    <3>2. call'[t].pc = "budget"  BY <2>2, <1>a DEF PutInsert, Good, Locals
    <3>3. \A u \in Threads : call'[u].pc # "insert" /\ (call[u].pc = "insert" => u = t)
      BY <2>0, <3>1, <3>2, <1>a DEF LockOK, Held
    <3>4. AheadOK'  BY <3>3 DEF AheadOK
    <3>5. \A x \in Keys : Inserting(x)' = {}  BY <3>3 DEF Inserting
    <3>6. \A x \in Keys \ {k} : Inserting(x) = {} /\ Row(x)' = Row(x) /\ store'[x] = Row(x)
      BY <3>1, <3>3, <3>k DEF Inserting, Row
    <3>7. ASSUME k \notin contested' PROVE ~OtherWrites(k) /\ files'[k] = Row(k)'
      <4>1. t \in Inserting(k)  BY <3>1, <3>k DEF Inserting
      <4>2. ~OtherWrites(k)  BY <3>1, <3>7, <4>1 DEF FilesOK
      <4>3. files[k] = call[t].made  BY <3>1, <3>k, <4>2 DEF AheadOK
      <4>. QED  BY <4>2, <4>3, <3>1 DEF Row
    <3>8. ASSUME NEW x \in Keys \ {k}, x \notin contested' PROVE x \notin contested
      BY <3>1, <3>8
    <3>9. \A x \in Keys : store[x] = Absent => Row(x) = Absent  BY DEF Row
    <3>10. FilesOK'
      BY <2>0, <2>a, <3>1, <3>5, <3>6, <3>7, <3>8, <3>9 DEF FilesOK
    <3>. QED  BY <3>4, <3>10
  <2>3. CASE PutFails(t)
    <3>k. PICK k \in Keys : k = call[t].key
      BY <2>3, <1>c DEF PutInsert, PutFails
    <3>1. /\ call[t].pc = "insert" /\ lock = t
          /\ UNCHANGED store /\ deleted' = {}
          /\ files' = [files EXCEPT ![k] = Absent]
          /\ contested' = contested \cup deleted \cup (IF store[k] # Absent THEN {k} ELSE {})
      BY <2>3, <3>k, <1>a DEF PutFails, Rollback, LockOK, Held
    <3>2. call'[t].pc # "insert"
      <4>1. \/ call'[t].pc = "describe"
            \/ \E out : call'[t] = Over(call[t], out)
        BY <2>3, <1>a DEF PutFails, Finish, Good, Locals
      <4>. QED  BY <4>1, OverPlace DEF Held
    <3>3. \A u \in Threads : call'[u].pc # "insert" /\ (call[u].pc = "insert" => u = t)
      BY <2>0, <3>1, <3>2, <1>a DEF LockOK, Held
    <3>4. AheadOK'  BY <3>3 DEF AheadOK
    <3>5. \A x \in Keys : Inserting(x)' = {}  BY <3>3 DEF Inserting
    <3>6. \A x \in Keys \ {k} : Inserting(x) = {} /\ files'[x] = files[x]
      BY <3>1, <3>3, <3>k, <1>a DEF Inserting
    <3>7. \A x \in Keys \ contested' : Row(x) = store[x] /\ Row(x)' = store[x]
      BY <3>1 DEF Row
    <3>8. ASSUME k \notin contested'
          PROVE  ~OtherWrites(k) /\ files'[k] = Absent /\ store[k] = Absent
      <4>1. t \in Inserting(k)  BY <3>1, <3>k DEF Inserting
      <4>2. ~OtherWrites(k)  BY <3>1, <3>8, <4>1 DEF FilesOK
      <4>. QED  BY <3>1, <3>8, <4>2, <1>a
    <3>9. FilesOK'
      BY <2>0, <2>a, <3>1, <3>5, <3>6, <3>7, <3>8 DEF FilesOK
    <3>. QED  BY <3>4, <3>9
  (* The other steps neither begin nor end an insertion.                    *)
  <2>4. CASE call'[t].pc # "insert" /\ ~PutInsert(t) /\ ~PutFails(t)
    <3>1. call[t].pc # "insert"
      <4>1. ~(Put(t) \/ PutCheck(t))
            \/ call[t].pc # "insert"  BY <1>a, PutChecks
      <4>. QED
        BY <4>1, <1>1, <2>4 DEF Call, Step, Compute, Get, Evict, Invalidate, Pin, Calling,
           AcquireKey, Unlock, Describe, Read, Touch, Factory, Budget, EvictAfterPut, EvictOne,
           EvictDone, DropOne, DropDone, Record
    <3>2. \A k \in Keys : Inserting(k)' = Inserting(k)
      BY <2>0, <2>4, <3>1 DEF Inserting
    <3>3. \A u \in Threads : call'[u].pc = "insert" => call'[u] = call[u] /\ call[u].key \in Keys
      BY <2>0, <2>4, <1>c
    <3>4. ASSUME NEW k \in Keys, k \in call[t].todo, call[t].pc \in {"evicting", "drop"},
                 Delete(k), UNCHANGED contested
          PROVE  FilesOK' /\ AheadOK'
      <4>1. lock = t /\ store[k] # Absent  BY <3>4, <1>a DEF LockOK, TodoOK, Held
      <4>2. \A u \in Threads : call[u].pc # "insert" /\ call'[u].pc # "insert"
        BY <4>1, <3>4, <2>0, <2>4, <1>a DEF LockOK, Held
      <4>3. AheadOK'  BY <4>2 DEF AheadOK
      <4>4. /\ UNCHANGED store /\ files' = [files EXCEPT ![k] = Absent]
            /\ deleted' = deleted \cup {k}
        BY <3>4 DEF Delete
      <4>5. Row(k)' = Absent /\ files'[k] = Absent  BY <4>4, <1>a DEF Row
      <4>6. \A x \in Keys \ {k} : Row(x)' = Row(x) /\ files'[x] = files[x]
        BY <4>4, <1>a DEF Row
      <4>7. \A x \in Keys : Inserting(x)' = {} /\ Inserting(x) = {}  BY <4>2 DEF Inserting
      <4>8. FilesOK'
        BY <2>0, <2>a, <3>4, <4>1, <4>4, <4>5, <4>6, <4>7 DEF FilesOK
      <4>. QED  BY <4>3, <4>8
    <3>5. CASE EvictOne(t)
      <4>1. PICK k \in Remaining(t) : Delete(k)  BY <3>5 DEF EvictOne
      <4>2. k \in Keys /\ k \in call[t].todo  BY <1>a DEF Remaining, Good, Locals
      <4>. QED  BY <4>1, <4>2, <3>4, <3>5 DEF EvictOne
    <3>6. CASE DropOne(t) /\ UNCHANGED call
      <4>1. ~Finish(t, Failed)
        <5>1. \A out : Finish(t, out) => call'[t].pc \notin Held  BY <1>a, OverPlace DEF Finish
        <5>. QED  BY <5>1, <3>6 DEF DropOne, Held
      <4>2. PICK k \in Remaining(t) : Delete(k)  BY <4>1, <3>6 DEF DropOne
      <4>3. k \in Keys /\ k \in call[t].todo  BY <1>a DEF Remaining, Good, Locals
      <4>. QED  BY <4>2, <4>3, <3>4, <3>6 DEF DropOne
    <3>7. CASE ~EvictOne(t) /\ ~(DropOne(t) /\ UNCHANGED call)
      <4>1. CASE Put(t) \/ PutCheck(t)
        <5>1. PICK r \in Locals : PutEffect(t, r)  BY <4>1, <1>a, PutChecks
        <5>2. [r EXCEPT !.pc = "insert"].pc = "insert"  BY DEF Locals
        <5>3. UNCHANGED <<store, deleted, files, contested>>
          BY <5>1, <5>2, <2>4, <1>a DEF PutEffect
        <5>4. \A k \in Keys : Row(k)' = Row(k) /\ store'[k] = store[k]  BY <5>3 DEF Row
        <5>. QED  BY <5>3, <5>4, <2>0, <3>2, <3>3, FilesKept
      <4>2. CASE Touch(t) \/ Record(t) \/ EvictDone(t) \/ DropDone(t)
        <5>1. Commit /\ UNCHANGED <<files, contested>>
          BY <4>2 DEF Touch, Record, EvictDone, DropDone
        <5>. QED  BY <5>1, CommitRows, <2>0, <3>2, <3>3, FilesKept
      <4>3. CASE Pin(t)
        <5>1. /\ UNCHANGED <<files, contested>>
              /\ \A k \in Keys : /\ Row(k)' = Row(k)
                                 /\ store'[k] = store[k] \/ store'[k] = Row(k)
          BY <4>3 DEF Pin, dbVars, Row
        <5>. QED  BY <5>1, <2>0, <3>2, <3>3, FilesKept
      <4>4. CASE Compute(t) \/ Get(t) \/ Evict(t) \/ Invalidate(t) \/ AcquireKey(t)
                 \/ Unlock(t) \/ Describe(t) \/ Read(t) \/ Factory(t) \/ Budget(t)
                 \/ EvictAfterPut(t) \/ DropOne(t)
        <5>1. UNCHANGED <<store, deleted, files, contested>>
          BY <4>4, <3>7 DEF Compute, Get, Evict, Invalidate, AcquireKey, Unlock, Describe,
             Read, Factory, Budget, EvictAfterPut, DropOne, Listed, dbVars
        <5>2. \A k \in Keys : Row(k)' = Row(k) /\ store'[k] = store[k]  BY <5>1 DEF Row
        <5>. QED  BY <5>1, <5>2, <2>0, <3>2, <3>3, FilesKept
      <4>. QED  BY <1>1, <2>4, <3>7, <4>1, <4>2, <4>3, <4>4 DEF Call, Step
    <3>. QED  BY <3>5, <3>6, <3>7
  <2>. QED  BY <2>1, <2>2, <2>3, <2>4
<1>2. CASE OtherWrite
  <2>1. PICK k \in Keys, v \in Values :
          /\ store[k] = Absent
          /\ other' = [stage |-> "writing", key |-> k, val |-> v]
          /\ files' = [files EXCEPT ![k] = v]
          /\ contested' = IF Inserting(k) # {} THEN contested \cup {k} ELSE contested
    <3>1. PICK k \in Shared, v \in Values :
            /\ store[k] = Absent
            /\ other' = [stage |-> "writing", key |-> k, val |-> v]
            /\ files' = [files EXCEPT ![k] = v]
            /\ contested' = IF \E t \in Threads : call[t].pc = "insert" /\ call[t].key = k
                            THEN contested \cup {k} ELSE contested
      BY <1>2 DEF OtherWrite
    <3>2. (\E t \in Threads : call[t].pc = "insert" /\ call[t].key = k) <=> Inserting(k) # {}
      BY DEF Inserting
    <3>3. k \in Keys  BY CacheAssumption
    <3>. QED  BY <3>1, <3>2, <3>3
  <2>2. UNCHANGED <<store, deleted, call>> /\ other.stage = "idle"
    BY <1>2 DEF OtherWrite, dbVars
  <2>3. /\ \A x \in Keys : ~OtherWrites(x) /\ (OtherWrites(x)' <=> x = k)
        /\ \A x \in Keys : Row(x)' = Row(x) /\ Inserting(x)' = Inserting(x)
    BY <2>1, <2>2 DEF OtherWrites, Row, Inserting
  <2>4. \A x \in Keys \ {k} : files'[x] = files[x]  BY <2>1, <1>a
  <2>5. files'[k] = other'.val  BY <2>1, <1>a
  <2>6. FilesOK'  BY <2>1, <2>2, <2>3, <2>4, <2>5 DEF FilesOK
  <2>7. AheadOK'
    <3>. SUFFICES ASSUME NEW t \in Threads, call[t].pc = "insert", Row(call[t].key)' = Absent,
                         ~OtherWrites(call[t].key)'
                  PROVE  files'[call[t].key] = call[t].made
      BY <2>2 DEF AheadOK
    <3>1. call[t].key \in Keys \ {k} /\ Row(call[t].key) = Absent
      BY <2>2, <2>3, <1>c DEF Row, OtherWrites
    <3>. QED  BY <3>1, <2>3, <2>4 DEF AheadOK
  <2>. QED  BY <2>6, <2>7
<1>3. CASE OtherInsert
  <2>1. PICK k \in Keys : k = other.key  BY <1>3, <1>a DEF OtherInsert, OtherOK
  <2>2. /\ OtherWrites(k) /\ deleted = {} /\ UNCHANGED <<deleted, call>>
        /\ \A x \in Keys : ~OtherWrites(x)' /\ (x # k => ~OtherWrites(x))
    BY <1>3, <2>1, <1>a DEF OtherInsert, OtherWrites, TypeOK
  <2>3. \A x \in Keys : Inserting(x)' = Inserting(x) /\ Row(x) = store[x] /\ Row(x)' = store'[x]
    BY <2>2 DEF Inserting, Row
  <2>4. CASE store[k] = Absent
    <3>1. store' = [store EXCEPT ![k] = other.val] /\ UNCHANGED <<files, contested>>
      BY <1>3, <2>1, <2>4 DEF OtherInsert
    <3>2. store'[k] = other.val /\ other.val \in Values /\ \A x \in Keys \ {k} : store'[x] = store[x]
      BY <3>1, <1>3, <1>a DEF OtherInsert, OtherOK
    <3>3. FilesOK'  BY <3>1, <3>2, <2>2, <2>3 DEF FilesOK
    <3>4. AheadOK'
      <4>. SUFFICES ASSUME NEW t \in Threads, call[t].pc = "insert", Row(call[t].key)' = Absent
                    PROVE  files[call[t].key] = call[t].made
        BY <2>2, <3>1 DEF AheadOK
      <4>1. call[t].key \in Keys /\ store'[call[t].key] = Absent
        BY <2>2, <1>c DEF Row
      <4>2. call[t].key # k  BY <4>1, <3>2, CacheAssumption
      <4>. QED  BY <4>1, <4>2, <2>2, <2>3, <3>2 DEF AheadOK
    <3>. QED  BY <3>3, <3>4
  <2>5. CASE store[k] # Absent
    <3>1. /\ files' = [files EXCEPT ![k] = Absent] /\ contested' = contested \cup {k}
          /\ UNCHANGED store
      BY <1>3, <2>1, <2>5 DEF OtherInsert
    <3>2. \A x \in Keys \ {k} : files'[x] = files[x]  BY <3>1, <1>a
    <3>3. FilesOK'  BY <3>1, <3>2, <2>2, <2>3 DEF FilesOK
    <3>4. AheadOK'
      <4>. SUFFICES ASSUME NEW t \in Threads, call[t].pc = "insert", Row(call[t].key)' = Absent
                    PROVE  files'[call[t].key] = call[t].made
        BY <2>2 DEF AheadOK
      <4>1. call[t].key \in Keys /\ store[call[t].key] = Absent
        BY <2>2, <3>1, <1>c DEF Row
      <4>. QED  BY <4>1, <2>2, <2>3, <2>5, <3>2 DEF AheadOK
    <3>. QED  BY <3>3, <3>4
  <2>. QED  BY <2>4, <2>5
<1>4. CASE Crash
  <2>1. \A t \in Threads : call'[t].pc # "insert"  BY <1>4 DEF Crash, Idle
  <2>2. AheadOK' /\ \A k \in Keys : Inserting(k)' = {}  BY <2>1 DEF AheadOK, Inserting
  <2>3. ASSUME NEW k \in Keys \ contested'
        PROVE  k \notin contested /\ k \notin deleted /\ Inserting(k) = {}
    BY <1>4, <2>3 DEF Crash, Inserting
  <2>4. UNCHANGED <<store, files, other>> /\ deleted' = {}  BY <1>4 DEF Crash, Rollback
  <2>5. \A k \in Keys : (OtherWrites(k)' <=> OtherWrites(k)) /\ Row(k)' = store[k]
    BY <2>4 DEF OtherWrites, Row
  <2>6. FilesOK'  BY <2>2, <2>3, <2>4, <2>5 DEF FilesOK, Row
  <2>. QED  BY <2>2, <2>6
<1>5. CASE UNCHANGED vars
  BY <1>5 DEF vars, FilesOK, AheadOK, Inserting, OtherWrites, Row
<1>. QED  BY <1>1, <1>2, <1>3, <1>4, <1>5 DEF Next, Rest

(* Wherever no crash, rollback or other process met an entry half-way, its  *)
(* value file is the one of its row, or nobody's.                           *)
THEOREM FilesMatchIndex == Spec => []IndexMatchesFiles
<1>1. Init => FilesOK /\ AheadOK
  BY DEF Init, Idle, FilesOK, AheadOK, OtherWrites, Inserting, Row
<1>2. Typed /\ FilesOK /\ AheadOK /\ [Next]_vars => (Typed /\ FilesOK /\ AheadOK)'
  BY TypedStep, FilesStep, CacheAssumption
<1>3. FilesOK => IndexMatchesFiles
  BY DEF FilesOK, IndexMatchesFiles
<1>. QED  BY <1>1, <1>2, <1>3, InitTyped, PTL DEF Spec

-----------------------------------------------------------------------------
(* What an eviction knows.  The files it has still counted are no fewer     *)
(* than those that are there, and the rows it has not listed are pinned;    *)
(* the entry of the other process counts only while it is on the list.      *)
Counted(t) == {k \in Keys : files[k] # Absent /\ (k # other.key \/ k \in Remaining(t))}
EvictionOK ==
    \A t \in Threads : call[t].pc = "evicting" =>
        /\ Cardinality(Counted(t)) <= call[t].total
        /\ \A k \in Keys \ {other.key} :
             Row(k) # Absent => k \in pinned \/ k \in call[t].todo

(* Subsets of the keys are counted monotonically.                           *)
LEMMA SmallerCount ==
  ASSUME CacheAssumption, NEW S \in SUBSET Keys, NEW T \in SUBSET S
  PROVE  /\ Cardinality(S) \in Nat /\ Cardinality(T) \in Nat
         /\ Cardinality(T) <= Cardinality(S)
<1>1. IsFiniteSet(S)  BY FS_Subset, CacheAssumption
<1>2. IsFiniteSet(T) /\ Cardinality(T) <= Cardinality(S)  BY <1>1, FS_Subset
<1>. QED  BY <1>1, <1>2, FS_CardinalityType

(* A step after which an eviction has no more to count and no other rows.   *)
LEMMA EvictionKept ==
  ASSUME CacheAssumption, NEW t \in Threads, call[t].pc = "evicting", EvictionOK,
         call[t].total \in Int, call'[t].total = call[t].total,
         call'[t].todo = call[t].todo,
         Counted(t)' \subseteq Counted(t),
         \A k \in Keys \ {other'.key} :
            k # other.key /\ (Row(k)' # Absent => Row(k) # Absent /\ (k \in pinned => k \in pinned'))
  PROVE  /\ Cardinality(Counted(t)') <= call'[t].total
         /\ \A k \in Keys \ {other'.key} :
              Row(k)' # Absent => k \in pinned' \/ k \in call'[t].todo
<1>1. Cardinality(Counted(t)) <= call[t].total  BY DEF EvictionOK
<1>2. Counted(t) \in SUBSET Keys /\ Counted(t)' \in SUBSET Counted(t)  BY DEF Counted
<1>3. /\ Cardinality(Counted(t)) \in Nat /\ Cardinality(Counted(t)') \in Nat
      /\ Cardinality(Counted(t)') <= Cardinality(Counted(t))
  BY <1>2, SmallerCount
<1>4. Cardinality(Counted(t)') <= call'[t].total  BY <1>1, <1>3
<1>. QED  BY <1>4 DEF EvictionOK

(* Every step keeps what the running evictions know.                        *)
LEMMA EvictionStep ==
  ASSUME Typed, EvictionOK, CacheAssumption, [Next]_vars
  PROVE  EvictionOK'
<1>a. /\ TypeOK /\ call \in [Threads -> Good] /\ LockOK /\ TodoOK /\ OtherOK
      /\ files \in [Keys -> Values \cup {Absent}] /\ store \in [Keys -> Values \cup {Absent}]
      /\ \A t \in Threads : call[t] \in Locals
  BY DEF Typed, TypeOK, Good
<1>1. ASSUME NEW t \in Threads, Call(t) \/ Step(t) PROVE EvictionOK'
  <2>0. (\A u \in Threads \ {t} : call'[u] = call[u]) /\ UNCHANGED other
    BY <1>1, <1>a, CallStep, OtherKept
  <2>1. ASSUME NEW u \in Threads \ {t}, call'[u].pc = "evicting"
        PROVE  /\ Cardinality(Counted(u)') <= call'[u].total
               /\ \A k \in Keys \ {other'.key} :
                    Row(k)' # Absent => k \in pinned' \/ k \in call'[u].todo
    <3>1. call'[u] = call[u] /\ lock = u  BY <2>0, <2>1, <1>a DEF LockOK, Held
    <3>2. UNCHANGED <<store, pinned, deleted, files>>  BY <3>1, <1>1, OthersWait
    <3>3. Counted(u)' = Counted(u) /\ \A k \in Keys : Row(k)' = Row(k)
      BY <2>0, <3>1, <3>2 DEF Counted, Remaining, Row
    <3>. QED  BY <2>0, <2>1, <3>1, <3>2, <3>3 DEF EvictionOK
  <2>2. ASSUME call'[t].pc = "evicting"
        PROVE  /\ Cardinality(Counted(t)') <= call'[t].total
               /\ \A k \in Keys \ {other'.key} :
                    Row(k)' # Absent => k \in pinned' \/ k \in call'[t].todo
    <3>1. CASE Evict(t) \/ EvictAfterPut(t)
      <4>1. call'[t].todo = Rows \ pinned /\ call'[t].total = DiskBytes
        BY <3>1, <1>a, ListTaken
      <4>2. UNCHANGED <<store, pinned, deleted, files>>
        BY <3>1 DEF Evict, EvictAfterPut, Listed, dbVars
      <4>3. Counted(t)' \in SUBSET Stored /\ Stored \in SUBSET Keys
        BY <4>2 DEF Counted, Stored
      <4>4. Cardinality(Counted(t)') <= call'[t].total
        BY <4>1, <4>3, SmallerCount DEF DiskBytes
      <4>5. \A k \in Keys : Row(k)' = Row(k)  BY <4>2 DEF Row
      <4>. QED  BY <4>1, <4>2, <4>4, <4>5 DEF Rows
    <3>2. CASE EvictOne(t)
      <4>1. PICK k \in Remaining(t) :
              /\ Delete(k)
              /\ call' = [call EXCEPT ![t].total = IF files[k] # Absent THEN @ - 1 ELSE @]
        BY <3>2 DEF EvictOne
      <4>2. /\ call[t].pc = "evicting" /\ call'[t].todo = call[t].todo
            /\ call[t].total \in Int
            /\ call'[t].total = IF files[k] # Absent THEN call[t].total - 1 ELSE call[t].total
        BY <3>2, <4>1, <1>a DEF EvictOne, Locals
      <4>3. /\ UNCHANGED <<store, pinned>> /\ deleted' = deleted \cup {k}
            /\ files' = [files EXCEPT ![k] = Absent] /\ k \in Keys
        BY <4>1, <1>a DEF Delete, Remaining, Locals
      <4>4. Counted(t)' \subseteq Counted(t) \ {k}
        <5>1. Remaining(t)' = Remaining(t) \ {k}  BY <4>2, <4>3 DEF Remaining
        <5>. QED  BY <5>1, <4>3, <2>0, <1>a DEF Counted
      <4>5. files[k] # Absent => k \in Counted(t)  BY <4>1, <4>3 DEF Counted
      <4>6. Cardinality(Counted(t)') <= call'[t].total
        <5>1. Counted(t) \in SUBSET Keys /\ IsFiniteSet(Counted(t))
          BY FS_Subset, CacheAssumption DEF Counted
        <5>2. /\ Cardinality(Counted(t)') \in Nat /\ Cardinality(Counted(t)) \in Nat
              /\ Cardinality(Counted(t) \ {k}) \in Nat
              /\ Cardinality(Counted(t)') <= Cardinality(Counted(t) \ {k})
              /\ Cardinality(Counted(t) \ {k}) <= Cardinality(Counted(t))
          BY <4>4, <5>1, SmallerCount
        <5>3. k \in Counted(t) => Cardinality(Counted(t) \ {k}) = Cardinality(Counted(t)) - 1
          BY <5>1, FS_RemoveElement
        <5>4. Cardinality(Counted(t)) <= call[t].total  BY <4>2 DEF EvictionOK
        <5>. QED  BY <5>2, <5>3, <5>4, <4>2, <4>5
      <4>7. \A x \in Keys : Row(x)' # Absent => Row(x) # Absent  BY <4>3 DEF Row
      <4>. QED  BY <4>2, <4>3, <4>6, <4>7, <2>0 DEF EvictionOK
    <3>. QED  BY <3>1, <3>2, <2>2, <1>1, EvictMove
  <2>. QED  BY <2>1, <2>2 DEF EvictionOK
<1>2. ASSUME OtherWrite \/ OtherInsert, NEW t \in Threads, call'[t].pc = "evicting"
      PROVE  /\ Cardinality(Counted(t)') <= call'[t].total
             /\ \A k \in Keys \ {other'.key} :
                  Row(k)' # Absent => k \in pinned' \/ k \in call'[t].todo
  <2>0. UNCHANGED <<pinned, deleted, call>> /\ call[t].pc = "evicting"
    BY <1>2 DEF OtherWrite, OtherInsert, dbVars
  <2>a. call[t].total \in Int /\ Remaining(t) \subseteq {k \in Keys : store[k] # Absent}
        /\ Remaining(t)' = Remaining(t)
    BY <2>0, <1>a DEF Locals, TodoOK, Remaining
  <2>1. CASE OtherWrite
    <3>1. PICK k \in Keys, v \in Values :
            /\ store[k] = Absent /\ other'.key = k
            /\ files' = [files EXCEPT ![k] = v]
      <4>1. PICK k \in Shared, v \in Values :
              /\ store[k] = Absent
              /\ other' = [stage |-> "writing", key |-> k, val |-> v]
              /\ files' = [files EXCEPT ![k] = v]
        BY <2>1 DEF OtherWrite
      <4>2. k \in Keys /\ other'.key = k  BY <4>1, CacheAssumption
      <4>. QED  BY <4>1, <4>2
    <3>2. other.key \notin Keys /\ UNCHANGED store
      BY <2>1, <1>a, CacheAssumption DEF OtherWrite, OtherOK, dbVars
    <3>3. k \notin Remaining(t)  BY <3>1, <2>a
    <3>4. Counted(t)' \subseteq Counted(t)  BY <2>a, <3>1, <3>2, <3>3, <1>a DEF Counted
    <3>5. \A x \in Keys : Row(x)' = Row(x)  BY <2>0, <3>2 DEF Row
    <3>. QED  BY <2>0, <2>a, <3>2, <3>4, <3>5, EvictionKept
  <2>2. CASE OtherInsert
    <3>1. /\ other'.key = other.key /\ other.key \in Keys
          /\ \A x \in Keys \ {other.key} : store'[x] = store[x]
          /\ \A x \in Keys : files'[x] # Absent => files[x] # Absent
      BY <2>2, <1>a DEF OtherInsert, OtherOK
    <3>2. Counted(t)' \subseteq Counted(t)  BY <2>a, <3>1 DEF Counted
    <3>3. \A x \in Keys \ {other.key} : Row(x)' = Row(x)  BY <2>0, <3>1 DEF Row
    <3>. QED  BY <2>0, <2>a, <3>1, <3>2, <3>3, EvictionKept
  <2>. QED  BY <1>2, <2>1, <2>2
<1>3. CASE Crash
  BY <1>3 DEF Crash, EvictionOK, Idle
<1>4. CASE UNCHANGED vars
  BY <1>4 DEF vars, EvictionOK, Counted, Remaining, Row
<1>5. CASE OtherWrite \/ OtherInsert
  BY <1>2, <1>5 DEF EvictionOK
<1>. QED  BY <1>1, <1>3, <1>4, <1>5 DEF Next, Rest

(* An eviction that ends has reached the budget or has only pinned entries  *)
(* left, whatever was pinned, put or inserted by the other process.         *)
THEOREM EvictionReachesBudget == Spec => EvictReachesBudget
<1>1. Init => Typed /\ EvictionOK
  <2>1. Init => EvictionOK  BY DEF Init, Idle, EvictionOK
  <2>. QED  BY <2>1, InitTyped
<1>2. Typed /\ EvictionOK /\ [Next]_vars => (Typed /\ EvictionOK)'
  BY TypedStep, EvictionStep, CacheAssumption
<1>. DEFINE Reaches ==
       \A t \in Threads :
         call[t].pc = "evicting" /\ call'[t].pc # "evicting" /\ restarts' = restarts =>
            \/ Cardinality({k \in Keys \ {other.key} : files'[k] # Absent}) <= MaxFiles
            \/ \A k \in Keys \ {other.key} : store'[k] # Absent => k \in pinned'
<1>3. Typed /\ EvictionOK /\ [Next]_vars => [Reaches]_vars
  <2>1. ASSUME Typed, EvictionOK, [Next]_vars, NEW t \in Threads,
               call[t].pc = "evicting", call'[t].pc # "evicting", restarts' = restarts
        PROVE  \/ Cardinality({k \in Keys \ {other.key} : files'[k] # Absent}) <= MaxFiles
               \/ \A k \in Keys \ {other.key} : store'[k] # Absent => k \in pinned'
    <3>a. call \in [Threads -> Good] /\ TypeOK /\ call[t] \in Locals
      BY <2>1 DEF Typed, Good
    <3>1. EvictDone(t)
      <4>1. ~Crash /\ ~OtherWrite /\ ~OtherInsert /\ ~Rest /\ ~UNCHANGED vars
        BY <2>1, <3>a DEF Crash, OtherWrite, OtherInsert, Rest, vars, TypeOK
      <4>2. PICK u \in Threads : Call(u) \/ Step(u)  BY <4>1, <2>1 DEF Next
      <4>3. u = t  BY <2>1, <4>2, CallStep, CacheAssumption
      <4>4. ~(Put(t) \/ PutCheck(t))  BY <2>1, <3>a, PutChecks, CacheAssumption
      <4>5. ~EvictOne(t)  BY <2>1, <3>a DEF EvictOne, Locals
      <4>. QED
        BY <2>1, <4>2, <4>3, <4>4, <4>5 DEF Call, Step, Compute, Get, Evict, Invalidate, Pin,
           Calling, AcquireKey, Unlock, Describe, Read, Touch, Factory, PutInsert, PutFails,
           Budget, EvictAfterPut, DropOne, DropDone, Record
    <3>2. Commit /\ UNCHANGED files /\ (call[t].total <= MaxFiles \/ Remaining(t) = {})
      BY <3>1 DEF EvictDone, WithinBudget
    <3>3. CASE call[t].total <= MaxFiles
      <4>. DEFINE S == {k \in Keys \ {other.key} : files'[k] # Absent}
      <4>1. S \in SUBSET Counted(t) /\ Counted(t) \in SUBSET Keys  BY <3>2 DEF Counted
      <4>2. /\ Cardinality(S) \in Nat /\ Cardinality(Counted(t)) \in Nat
            /\ Cardinality(S) <= Cardinality(Counted(t))
        BY <4>1, SmallerCount, CacheAssumption
      <4>3. Cardinality(Counted(t)) <= call[t].total  BY <2>1 DEF EvictionOK
      <4>4. call[t].total \in Int /\ MaxFiles \in Int  BY <3>a, CacheAssumption DEF Locals
      <4>. QED  BY <3>3, <4>2, <4>3, <4>4
    <3>4. CASE Remaining(t) = {}
      BY <2>1, <3>2, <3>4 DEF EvictionOK, Remaining, Commit, Row
    <3>. QED  BY <3>2, <3>3, <3>4
  <2>. QED  BY <2>1
<1>. QED  BY <1>1, <1>2, <1>3, PTL DEF Spec, EvictReachesBudget
=============================================================================
