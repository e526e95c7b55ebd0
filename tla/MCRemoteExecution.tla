-------------------------- MODULE MCRemoteExecution --------------------------
(***************************************************************************)
(* Instances of RemoteExecution for TLC.  Every attempt is planned at 2    *)
(* units, the per-job ceiling; a receipt reports 1 or 3, so that one may   *)
(* cost more than its plan.  The session and the daily ceiling leave 3     *)
(* units, enough for two attempts only if the first one is cheap; the      *)
(* project ceiling does not bind.                                          *)
(***************************************************************************)
EXTENDS RemoteExecution, TLC

CONSTANTS a1, a2

MCScopes == {"session", "daily", "project"}
MCLimit == [s \in MCScopes |-> CASE s = "session" -> 3 [] s = "daily" -> 5 [] OTHER -> 9]
MCOpening == [s \in MCScopes |-> IF s = "daily" THEN 2 ELSE 0]
MCPlanned == [j \in Jobs |-> 2]
MCCosts == {1, 3}
=============================================================================
