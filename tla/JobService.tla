---------------------------- MODULE JobService ----------------------------
(***************************************************************************)
(* What the native job manager promises those who submit, poll and cancel  *)
(* jobs, whatever its threads do: a job is attended by one thread at a     *)
(* time and its solver is started once; it is never left in work unless    *)
(* the whole process goes down, and then it is failed before anybody can   *)
(* ask again; it is completed by its own attendant, with a published       *)
(* result; and once its attendant is gone and no cancel is about to end    *)
(* it, what it has become it stays.  JobLifecycle implements it.           *)
(*                                                                         *)
(* It does not promise that a CANCELLED job stays so while it is attended. *)
(***************************************************************************)
EXTENDS Naturals

CONSTANTS Jobs

VARIABLES
    status,     \* of each job, as a poller sees it; "WORKING" stands for the
                \* four states between QUEUED and the end
    attended,   \* the jobs that a thread is busy with
    ending,     \* the jobs that an accepted cancel is about to end
    starts,     \* how often the solver of each job was started
    published,  \* the jobs with a published result
    down        \* the process has died and is not up again

vars == <<status, attended, ending, starts, published, down>>

Open == {"QUEUED", "WORKING"}
Settled == {"COMPLETED", "FAILED", "CANCELLED"}

Become(j, s) == status' = [status EXCEPT ![j] = s]

Init ==
    /\ status = [j \in Jobs |-> "ABSENT"]
    /\ attended = {} /\ ending = {} /\ published = {}
    /\ starts = [j \in Jobs |-> 0]
    /\ down = FALSE

Submit(j) ==
    /\ ~down /\ status[j] = "ABSENT"
    /\ Become(j, "QUEUED")
    /\ UNCHANGED <<attended, ending, starts, published, down>>

(* A thread takes a job that waits and that nobody has taken ...            *)
Attend(j) ==
    /\ ~down /\ status[j] = "QUEUED" /\ j \notin attended
    /\ attended' = attended \cup {j}
    /\ UNCHANGED <<status, ending, starts, published, down>>

(* ... and leaves it, but not in the middle of its work.                    *)
Leave(j) ==
    /\ j \in attended /\ status[j] \in {"QUEUED"} \cup Settled
    /\ attended' = attended \ {j}
    /\ UNCHANGED <<status, ending, starts, published, down>>

(* The attendant moves the job on or settles it; a cancel may have come     *)
(* first, and may be undone.  Only a published result completes a job.      *)
Work(j) ==
    /\ j \in attended /\ status[j] \in Open \cup {"CANCELLED"}
    /\ \/ \E s \in {"WORKING", "FAILED", "CANCELLED"} : Become(j, s)
       \/ j \in published /\ starts[j] = 1 /\ Become(j, "COMPLETED")
    /\ UNCHANGED <<attended, ending, starts, published, down>>

(* The solver of the job is started, for the first time.                    *)
Execute(j) ==
    /\ j \in attended /\ starts[j] = 0
    /\ status[j] \in {"WORKING", "CANCELLED"}
    /\ starts' = [starts EXCEPT ![j] = 1]
    /\ UNCHANGED <<status, attended, ending, published, down>>

(* Its result is published, once.                                           *)
Publish(j) ==
    /\ j \in attended /\ starts[j] = 1 /\ j \notin published
    /\ published' = published \cup {j}
    /\ UNCHANGED <<status, attended, ending, starts, down>>

(* A cancel is accepted while the job is open, and ends it later.           *)
Accept(j) ==
    /\ ~down /\ status[j] \in Open
    /\ ending' = ending \cup {j}
    /\ UNCHANGED <<status, attended, starts, published, down>>

End(j) ==
    /\ j \in ending
    /\ Become(j, "CANCELLED")
    /\ ending' \in {ending, ending \ {j}}
    /\ UNCHANGED <<attended, starts, published, down>>

(* The process dies with its threads; the jobs it worked on are failed      *)
(* before it is up again.                                                   *)
Crash ==
    /\ attended' = {} /\ ending' = {} /\ down' = TRUE
    /\ UNCHANGED <<status, starts, published>>

Fail(j) ==
    /\ down /\ status[j] = "WORKING"
    /\ Become(j, "FAILED")
    /\ UNCHANGED <<attended, ending, starts, published, down>>

Restart ==
    /\ down /\ \A j \in Jobs : status[j] # "WORKING"
    /\ down' = FALSE
    /\ UNCHANGED <<status, attended, ending, starts, published>>

Next ==
    \/ \E j \in Jobs : \/ Submit(j) \/ Attend(j) \/ Leave(j) \/ Work(j)
                       \/ Execute(j) \/ Publish(j)
                       \/ Accept(j) \/ End(j) \/ Fail(j)
    \/ Crash \/ Restart

Spec == Init /\ [][Next]_vars
=============================================================================
