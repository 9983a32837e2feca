---------------------------- MODULE RunContract ----------------------------
(***************************************************************************)
(* What the platform promises about one workflow run, whoever executes it: *)
(* the statuses of models/workflow_run.py as a one-way machine.  A run is  *)
(* created pending, may start, settles at most once, and is cancelled only *)
(* after a user asked for it.  RunLifecycle implements this when the       *)
(* broker delivers each task once.                                         *)
(***************************************************************************)
CONSTANT Runs

VARIABLES status,     \* the status a reader of the run sees
          stopAsked   \* a user's stop request has been recorded

vars == <<status, stopAsked>>

Settled == {"completed", "failed", "cancelled"}
Statuses == {"absent", "pending", "running", "deleted"} \cup Settled

Init == /\ status = [r \in Runs |-> "absent"]
        /\ stopAsked = [r \in Runs |-> FALSE]

Move(r, from, to) ==
    /\ status[r] \in from
    /\ status' = [status EXCEPT ![r] = to]
    /\ UNCHANGED stopAsked

Create(r) == Move(r, {"absent"}, "pending")
Start(r)  == Move(r, {"pending"}, "running")
Settle(r) == \E outcome \in {"completed", "failed"} : Move(r, {"running"}, outcome)
Cancel(r) == stopAsked[r] /\ Move(r, {"pending", "running"}, "cancelled")
Delete(r) == Move(r, Statuses \ {"absent", "deleted"}, "deleted")

\* A stop may be recorded after the run has settled: the check that the run is
\* still active and the write are separate transactions.
AskStop(r) ==
    /\ status[r] \notin {"absent", "deleted"}
    /\ stopAsked' = [stopAsked EXCEPT ![r] = TRUE]
    /\ UNCHANGED status

Next == \E r \in Runs : \/ Create(r) \/ Start(r) \/ Settle(r)
                        \/ Cancel(r) \/ Delete(r) \/ AskStop(r)

Spec == Init /\ [][Next]_vars
=============================================================================
