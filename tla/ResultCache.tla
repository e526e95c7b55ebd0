---------------------------- MODULE ResultCache ----------------------------
(***************************************************************************)
(* What the persistent result cache promises its callers, whatever happens *)
(* inside: a partial map from keys to values in which an entry is written  *)
(* once, is never changed in place, and disappears only when it is not     *)
(* pinned or when somebody asked for its invalidation; a call answers with *)
(* a value its key held while the call was running, or with a miss, or     *)
(* fails.  CacheStore implements it.                                       *)
(***************************************************************************)
CONSTANTS Threads, Keys, Values,
          Absent,   \* "no entry", and the answer to a miss
          Failed,   \* the call raised
          None      \* the call returned and has nothing to say

VARIABLES store,    \* the value of each key, or Absent
          pinned,   \* the entries that eviction must keep
          doomed,   \* the keys whose invalidation was asked since they were written
          looked,   \* what the running call of each thread has found or stored
          answer    \* what the last call of each thread has answered, if none is running

vars == <<store, pinned, doomed, looked, answer>>

Init ==
    /\ store \in [Keys -> Values \cup {Absent}]
    /\ pinned \in SUBSET {k \in Keys : store[k] # Absent}
    /\ doomed = {}
    /\ looked = [t \in Threads |-> Absent]
    /\ answer = [t \in Threads |-> None]

(* What a call may see at a key: its entry, or none if it is doomed.        *)
Seen(k) == {store[k]} \cup (IF k \in doomed THEN {Absent} ELSE {})

(* A call starts.                                                           *)
Begin(t) ==
    /\ answer' = [answer EXCEPT ![t] = None]
    /\ UNCHANGED <<store, pinned, doomed, looked>>

(* A call finds an entry.                                                   *)
Look(t) ==
    /\ \E k \in Keys : looked' = [looked EXCEPT ![t] = store[k]]
    /\ answer' = [answer EXCEPT ![t] = None]
    /\ UNCHANGED <<store, pinned, doomed>>

(* A call looks at a key and answers at once with what it sees.             *)
Reply(t) ==
    /\ \E k \in Keys : \E v \in Seen(k) : answer' = [answer EXCEPT ![t] = v]
    /\ looked' = [looked EXCEPT ![t] = Absent]
    /\ UNCHANGED <<store, pinned, doomed>>

(* A call answers what it found, or nothing, or fails; entries that are     *)
(* doomed or not pinned may leave the map meanwhile.                        *)
Answer(t) ==
    /\ \E a \in {looked[t], Failed, None} :
         a # Absent /\ answer' = [answer EXCEPT ![t] = a]
    /\ \E gone \in SUBSET (doomed \cup (Keys \ pinned)) :
         /\ store' = [k \in Keys |-> IF k \in gone THEN Absent ELSE store[k]]
         /\ pinned' = pinned \ gone
    /\ looked' = [looked EXCEPT ![t] = Absent]
    /\ UNCHANGED doomed

(* Entries that are doomed or not pinned leave the map.                     *)
Drop ==
    /\ \E gone \in SUBSET (doomed \cup (Keys \ pinned)) :
         /\ store' = [k \in Keys |-> IF k \in gone THEN Absent ELSE store[k]]
         /\ pinned' = pinned \ gone
    /\ UNCHANGED <<doomed, looked, answer>>

(* An entry is written under a key that has none; a doomed entry may only   *)
(* be written again as it was.  Other doomed entries may go meanwhile.      *)
Insert ==
    \E k \in Keys : \E v \in Values, pin \in SUBSET {k}, gone \in SUBSET doomed :
        /\ store[k] \in {Absent, v}
        /\ store[k] = v => k \in doomed
        /\ store' = [x \in Keys |-> IF x = k THEN v
                                    ELSE IF x \in gone THEN Absent ELSE store[x]]
        /\ pinned' = (pinned \ (gone \cup {k})) \cup pin
        /\ doomed' = doomed \ {k}
        /\ looked' \in {looked} \cup {[looked EXCEPT ![t] = v] : t \in Threads}
        /\ UNCHANGED answer

(* A pin is set or taken back; doomed entries may go meanwhile.             *)
Pin(t) ==
    \E k \in Keys, gone \in SUBSET doomed :
        /\ store[k] # Absent
        /\ k \notin gone
        /\ store' = [x \in Keys |-> IF x \in gone THEN Absent ELSE store[x]]
        /\ pinned' \in {(pinned \ gone) \cup {k}, pinned \ (gone \cup {k})}
        /\ answer' = [answer EXCEPT ![t] = None]
        /\ UNCHANGED <<doomed, looked>>

(* A call asks for the invalidation of some keys.                           *)
Doom(t) ==
    /\ \E keys \in SUBSET Keys : doomed' = doomed \cup keys
    /\ answer' = [answer EXCEPT ![t] = None]
    /\ UNCHANGED <<store, pinned, looked>>

(* The process dies with its calls; the map survives.                       *)
Crash ==
    /\ looked' = [t \in Threads |-> Absent]
    /\ answer' = [t \in Threads |-> None]
    /\ UNCHANGED <<store, pinned, doomed>>

Next ==
    \/ \E t \in Threads : Begin(t) \/ Look(t) \/ Reply(t) \/ Answer(t) \/ Pin(t) \/ Doom(t)
    \/ Drop \/ Insert \/ Crash

Spec == Init /\ [][Next]_vars
=============================================================================
