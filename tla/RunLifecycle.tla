---------------------------- MODULE RunLifecycle ----------------------------
(***************************************************************************)
(* The life of workflow runs across the web API, the Celery broker and the *)
(* workers: RunService (services/run_service.py) over RunRepository        *)
(* (repositories/run_repository.py), the tasks of workers/tasks.py and the *)
(* cooperative stop of runtime/cancellation.py.                            *)
(*                                                                         *)
(* Every repository call commits, so one action is one transaction; what a *)
(* handler read in an earlier transaction it keeps in its program counter  *)
(* or in `seen`, and may act on when it is stale.                          *)
(***************************************************************************)
EXTENDS Naturals, FiniteSets

CONSTANTS Runs,             \* run ids
          Workers,          \* Celery worker processes (concurrency 1)
          NoRun,            \* no run
          MaxNodes,         \* bound: graph nodes one execution visits
          MaxRedeliveries,  \* bound: visibility-timeout redeliveries
          MaxCrashes        \* bound: worker process crashes

ASSUME RunLifecycleAssumption ==
    /\ NoRun \notin Runs /\ IsFiniteSet(Workers)
    /\ MaxNodes \in Nat \ {0}
    /\ MaxRedeliveries \in Nat
    /\ MaxCrashes \in Nat

VARIABLES
    row,          \* workflow_runs: the row of each run
    logs,         \* run_logs: the kinds of entries that other code relies on
    trigger,      \* workflow_runs.triggered_by and what created the run
    api,          \* progress of the request that creates and enqueues the run
    stopper,      \* progress of a stop request for the run
    queued,       \* copies of each run's task in the Redis queue
    reserved,     \* the task each worker has prefetched and not acknowledged
    pc, task,     \* where each worker is in execute_run, and for which run
    seen,         \* the status execute_run loaded at its start
    node,         \* nodes this execution has finished
    agentsGone,   \* workers whose node in progress may refer to a deleted agent
    notices,      \* runs whose failure was announced to their Telegram chat
    lost,         \* history: runs whose executor died or gave up without a mark
    early,        \* history: runs stopped while pending, before any pick-up
    late,         \* history: nodes that wrote their output after the stop
    redelivered, crashed   \* use of the two fault budgets

apiVars    == <<trigger, api>>
brokerVars == <<queued, reserved, redelivered>>
held       == <<task, seen, node, agentsGone>>
workerVars == <<pc, held>>
vars == <<row, logs, apiVars, stopper, brokerVars, workerVars,
          notices, lost, early, late, crashed>>

-----------------------------------------------------------------------------
(* workflow_runs rows and the writes of RunRepository.                      *)
(* A definition named Original_Fault is a faulty variant of Original: Next   *)
(* never uses it, and each property is shown to fail with some variant.      *)

RunActiveStatuses == {"pending", "running"}
Settled  == {"completed", "failed", "cancelled"}
Statuses == {"absent", "deleted"} \cup RunActiveStatuses \cup Settled
Row == [status : Statuses, cancel_requested : BOOLEAN,
        started_at : BOOLEAN, finished_at : BOOLEAN, error : BOOLEAN]

NoRow == [status |-> "absent", cancel_requested |-> FALSE,
          started_at |-> FALSE, finished_at |-> FALSE, error |-> FALSE]

Exists(r) == row[r].status \notin {"absent", "deleted"}
Active(r) == row[r].status \in RunActiveStatuses

\* `error = None` is never written: the session loaded a pending row, whose error
\* is already None, and SQLAlchemy updates only the columns that changed.
MarkedRunning(row_)   == [row_ EXCEPT !.status = "running", !.started_at = TRUE]
MarkedCompleted(row_) == [row_ EXCEPT !.status = "completed", !.finished_at = TRUE]
MarkedFailed_StatusKept(row_) == [row_ EXCEPT !.finished_at = TRUE, !.error = TRUE]
MarkedFailed(row_)    == [row_ EXCEPT !.status = "failed", !.finished_at = TRUE,
                                      !.error = TRUE]
MarkedCancelled_AsFailed(row_) == [row_ EXCEPT !.status = "failed",
                                      !.finished_at = TRUE, !.error = TRUE]
MarkedCancelled(row_) == [row_ EXCEPT !.status = "cancelled", !.finished_at = TRUE,
                                      !.cancel_requested = TRUE, !.error = TRUE]
StopRequested_Settles(row_) == [row_ EXCEPT !.cancel_requested = TRUE,
                                            !.status = "cancelled"]
StopRequested(row_)   == [row_ EXCEPT !.cancel_requested = TRUE]

AddLog(r, entry) == logs' = [logs EXCEPT ![r] = @ \cup {entry}]

-----------------------------------------------------------------------------
(* The decisions of the code that the actions below consult. *)

\* What a run does next after reading cancel_requested before it starts ...
StartLabel_NoCheck(r) == "cleared"
StartLabel(r) == IF Exists(r) /\ row[r].cancel_requested THEN "cancelling" ELSE "cleared"

\* ... and before each node (ensure_run_not_cancelled).
NodeLabel_NoCheck(r) == "node"
NodeLabel(r) == IF row[r].cancel_requested THEN "cancelling" ELSE "node"

\* Any other exception of the graph fails the run.
ExceptionLabel_AsStop == "cancelling"
ExceptionLabel == "failing"

\* The graph may have one more node to visit.
MoreNodes_OneTooMany(w) == node[w] < MaxNodes
MoreNodes(w) == node[w] + 1 < MaxNodes

\* apply_async is called once, after the log entry the worker relies on.
ReadyToPublish_Retried(r) == api[r] \in {"logged", "published"}
ReadyToPublish_BeforeLog(r) == api[r] \in {"created", "logged"}
ReadyToPublish(r) == api[r] = "logged"

\* Only the failure of a run launched from Telegram is announced.
Announces_AnyOutcome(r, outcome) == trigger[r] = "telegram"
Announces(r, outcome) == outcome = "failed" /\ trigger[r] = "telegram"

\* A settled run is not executed.
MayExecute_Settled(r) == Exists(r)
MayExecute(r) == Active(r)

-----------------------------------------------------------------------------
(* Initial state *)

Init ==
    /\ row      = [r \in Runs |-> NoRow]
    /\ logs     = [r \in Runs |-> {}]
    /\ trigger  = [r \in Runs |-> "none"]
    /\ api      = [r \in Runs |-> "none"]
    /\ stopper  = [r \in Runs |-> "idle"]
    /\ queued   = [r \in Runs |-> 0]
    /\ late     = [r \in Runs |-> 0]
    /\ reserved = [w \in Workers |-> NoRun]
    /\ pc       = [w \in Workers |-> "idle"]
    /\ task     = [w \in Workers |-> NoRun]
    /\ seen     = [w \in Workers |-> "none"]
    /\ node     = [w \in Workers |-> 0]
    /\ agentsGone = {} /\ notices = {} /\ lost = {} /\ early = {}
    /\ redelivered = 0 /\ crashed = 0

-----------------------------------------------------------------------------
(* The API: enqueue_run, cancel_run, and the deletes that reach a run. *)

\* RunRepository.create_run commits a pending row.  A Telegram conversation
\* (_ensure_conversation_run) creates one too, and never enqueues it.
CreateRun(r, by) ==
    /\ api[r] = "none"
    /\ row'     = [row EXCEPT ![r].status = "pending"]
    /\ trigger' = [trigger EXCEPT ![r] = by]
    /\ api'     = [api EXCEPT ![r] = IF by = "conversation" THEN "unpublished"
                                                            ELSE "created"]
    /\ UNCHANGED <<logs, stopper, brokerVars, workerVars,
                   notices, lost, early, late, crashed>>

\* The "Run queued" entry, which carries telegram_chat_id; the insert fails
\* when the workflow, and with it the run, has been deleted meanwhile.
LogQueued(r) ==
    /\ api[r] = "created"
    /\ \/ /\ Exists(r)
          /\ AddLog(r, "queued")
          /\ api' = [api EXCEPT ![r] = "logged"]
       \/ /\ ~Exists(r)
          /\ api' = [api EXCEPT ![r] = "unpublished"]
          /\ UNCHANGED logs
    /\ UNCHANGED <<row, trigger, stopper, brokerVars, workerVars,
                   notices, lost, early, late, crashed>>

\* apply_async reaches the broker.
Publish(r) ==
    /\ ReadyToPublish(r)
    /\ queued' = [queued EXCEPT ![r] = @ + 1]
    /\ api'    = [api EXCEPT ![r] = "published"]
    /\ UNCHANGED <<row, logs, trigger, stopper, reserved, redelivered,
                   workerVars, notices, lost, early, late, crashed>>

\* apply_async raises, or the API process dies between the commits: the pending
\* row is left without a task.
PublishFails(r) ==
    /\ api[r] \in {"created", "logged"}
    /\ api' = [api EXCEPT ![r] = "unpublished"]
    /\ UNCHANGED <<row, logs, trigger, stopper, brokerVars, workerVars,
                   notices, lost, early, late, crashed>>

\* cancel_run reads the row and refuses a run that is settled or already stopping.
StopCheck(r) ==
    /\ stopper[r] = "idle"
    /\ Active(r) /\ ~row[r].cancel_requested
    /\ stopper' = [stopper EXCEPT ![r] = "checked"]
    /\ UNCHANGED <<row, logs, apiVars, brokerVars, workerVars,
                   notices, lost, early, late, crashed>>

Busy(w, r) == pc[w] # "idle" /\ task[w] = r
PickedUp(r) == \E w \in Workers : Busy(w, r)

\* request_cancel writes its one column, whatever the status has become.
StopCommit(r) ==
    /\ stopper[r] = "checked"
    /\ \/ /\ Exists(r)
          /\ row' = [row EXCEPT ![r] = StopRequested(@)]
          /\ stopper' = [stopper EXCEPT ![r] = "requested"]
          /\ early' = IF row[r].status = "pending" /\ ~PickedUp(r)
                      THEN early \cup {r} ELSE early
       \/ /\ ~Exists(r)
          /\ stopper' = [stopper EXCEPT ![r] = "idle"]
          /\ UNCHANGED <<row, early>>
    /\ UNCHANGED <<logs, apiVars, brokerVars, workerVars,
                   notices, lost, late, crashed>>

StopLog(r) ==
    /\ stopper[r] = "requested"
    /\ IF Exists(r) THEN AddLog(r, "stop") ELSE UNCHANGED logs
    /\ stopper' = [stopper EXCEPT ![r] = "idle"]
    /\ UNCHANGED <<row, apiVars, brokerVars, workerVars,
                   notices, lost, early, late, crashed>>

\* Deleting a workflow cascades to its runs and their logs, active or not.
DeleteWorkflow(r) ==
    /\ Exists(r)
    /\ row'  = [row EXCEPT ![r].status = "deleted"]
    /\ logs' = [logs EXCEPT ![r] = {}]
    /\ UNCHANGED <<apiVars, stopper, brokerVars, workerVars,
                   notices, lost, early, late, crashed>>

\* Deleting an agent while a node runs with it, or between nodes once it is the
\* last agent a channel node will name: the next insert can violate the foreign key.
\* At any other moment the run finds the agent missing: GraphFails, NodeRaises.
DeleteAgent(r) ==
    LET hit == {w \in Workers : /\ task[w] = r
                                /\ pc[w] = "node" \/ (pc[w] = "graph" /\ node[w] > 0)}
    IN /\ ~(hit \subseteq agentsGone)
       /\ agentsGone' = agentsGone \cup hit
       /\ UNCHANGED <<row, logs, apiVars, stopper, brokerVars, pc, task, seen, node,
                      notices, lost, early, late, crashed>>

-----------------------------------------------------------------------------
(* How a worker moves on within a task, and how it ends one. *)

GoTo(w, label) == pc' = [pc EXCEPT ![w] = label]

\* The task ends: the session is closed and the worker is free.
Done(w) ==
    /\ pc'   = [pc EXCEPT ![w] = "idle"]
    /\ task' = [task EXCEPT ![w] = NoRun]
    /\ seen' = [seen EXCEPT ![w] = "none"]
    /\ node' = [node EXCEPT ![w] = 0]
    /\ agentsGone' = agentsGone \ {w}

\* A failed flush leaves the worker's only session unusable, and nothing rolls it
\* back: mark_failed in the handler raises as well and the row stays as it is.
GiveUp(w) ==
    /\ Done(w)
    /\ lost' = IF Exists(task[w]) THEN lost \cup {task[w]} ELSE lost

-----------------------------------------------------------------------------
(* The Celery broker and worker processes (external): prefetch of one task, *)
(* acknowledged when its execution begins.                                  *)

Reserve(w, r) ==
    /\ reserved[w] = NoRun
    /\ queued[r] > 0
    /\ queued'   = [queued EXCEPT ![r] = @ - 1]
    /\ reserved' = [reserved EXCEPT ![w] = r]
    /\ UNCHANGED <<row, logs, apiVars, stopper, redelivered, workerVars,
                   notices, lost, early, late, crashed>>

\* A task that waits reserved for longer than the visibility timeout is queued
\* again, and the worker that holds it still executes its copy.
Redeliver(w) ==
    /\ reserved[w] # NoRun
    /\ redelivered < MaxRedeliveries
    /\ redelivered' = redelivered + 1
    /\ queued' = [queued EXCEPT ![reserved[w]] = @ + 1]
    /\ UNCHANGED <<row, logs, apiVars, stopper, reserved, workerVars,
                   notices, lost, early, late, crashed>>

\* The task in execution is acknowledged already and is gone; the reserved one
\* returns to the queue.
Crash(w) ==
    /\ crashed < MaxCrashes
    /\ crashed' = crashed + 1
    /\ lost' = IF pc[w] = "idle" THEN lost ELSE lost \cup {task[w]}
    /\ queued' = IF reserved[w] = NoRun THEN queued
                 ELSE [queued EXCEPT ![reserved[w]] = @ + 1]
    /\ reserved' = [reserved EXCEPT ![w] = NoRun]
    /\ Done(w)
    /\ UNCHANGED <<row, logs, apiVars, stopper, redelivered,
                   notices, early, late>>

-----------------------------------------------------------------------------
(* execute_workflow_run / RunService.execute_run, one worker at a time. *)

\* get_run: a missing or settled run ends the task; otherwise its status is kept.
Begin(w) ==
    LET r == reserved[w] IN
    /\ pc[w] = "idle" /\ r # NoRun
    /\ reserved' = [reserved EXCEPT ![w] = NoRun]
    /\ \/ /\ MayExecute(r)
          /\ GoTo(w, "begun")
          /\ task' = [task EXCEPT ![w] = r]
          /\ seen' = [seen EXCEPT ![w] = row[r].status]
          /\ UNCHANGED <<node, agentsGone>>
       \/ /\ ~MayExecute(r)
          /\ UNCHANGED workerVars
    /\ UNCHANGED <<row, logs, apiVars, stopper, queued, redelivered,
                   notices, lost, early, late, crashed>>

\* is_cancel_requested reads the column afresh.
CheckStop(w) ==
    /\ pc[w] = "begun"
    /\ GoTo(w, StartLabel(task[w]))
    /\ UNCHANGED <<row, logs, apiVars, stopper, brokerVars,
                   held, notices, lost, early, late, crashed>>

\* mark_running, if the status loaded at the start was pending; a run that was
\* running already is executed again from its first node.
StartRun(w) ==
    LET r == task[w] IN
    /\ pc[w] = "cleared"
    /\ \/ /\ Exists(r)
          /\ row' = IF seen[w] = "pending" THEN [row EXCEPT ![r] = MarkedRunning(@)]
                                           ELSE row
          /\ GoTo(w, "graph")
          /\ UNCHANGED <<held, lost>>
       \/ /\ ~Exists(r) /\ GiveUp(w) /\ UNCHANGED row
    /\ UNCHANGED <<logs, apiVars, stopper, brokerVars, notices, early, late, crashed>>

\* No linked agents, an invalid graph, the recursion limit.
GraphFails(w) ==
    /\ pc[w] = "graph"
    /\ GoTo(w, ExceptionLabel)
    /\ UNCHANGED <<row, logs, apiVars, stopper, brokerVars,
                   held, notices, lost, early, late, crashed>>

\* Every node starts with ensure_run_not_cancelled.
EnterNode(w) ==
    LET r == task[w] IN
    /\ pc[w] = "graph"
    /\ \/ /\ Exists(r)
          /\ GoTo(w, NodeLabel(r))
          /\ UNCHANGED <<held, lost>>
       \/ /\ ~Exists(r) /\ GiveUp(w)
    /\ UNCHANGED <<row, logs, apiVars, stopper, brokerVars, notices, early, late, crashed>>

\* The node writes its messages and usage.
NodeWrites(w) ==
    LET r == task[w] IN
    /\ pc[w] = "node" /\ Exists(r)
    /\ node' = [node EXCEPT ![w] = @ + 1]
    /\ late' = [late EXCEPT ![r] = IF row[r].cancel_requested THEN @ + 1 ELSE @]
    /\ \/ MoreNodes(w) /\ GoTo(w, "graph")
       \/ GoTo(w, "finishing")
    /\ UNCHANGED <<row, logs, apiVars, stopper, brokerVars, task, seen, agentsGone,
                   notices, lost, early, crashed>>

\* The LLM or a tool raises, or the agent's row cannot be reloaded.
NodeRaises(w) ==
    /\ pc[w] = "node"
    /\ GoTo(w, ExceptionLabel)
    /\ UNCHANGED <<row, logs, apiVars, stopper, brokerVars,
                   held, notices, lost, early, late, crashed>>

\* An insert refers to an agent or a run that was deleted during the LLM call.
NodeFlushFails(w) ==
    /\ pc[w] = "node"
    /\ w \in agentsGone \/ ~Exists(task[w])
    /\ GiveUp(w)
    /\ UNCHANGED <<row, logs, apiVars, stopper, brokerVars, notices, early, late, crashed>>

\* A mark_* call of execute_run and its commit, whatever the row has become.
Mark(w, from, marked, to) ==
    LET r == task[w] IN
    /\ pc[w] = from
    /\ \/ /\ Exists(r)
          /\ row' = [row EXCEPT ![r] = marked]
          /\ GoTo(w, to)
          /\ UNCHANGED <<held, lost>>
       \/ /\ ~Exists(r) /\ GiveUp(w) /\ UNCHANGED row
    /\ UNCHANGED <<logs, apiVars, stopper, brokerVars, notices, early, late, crashed>>

MarkCompleted(w) ==
    Mark(w, "finishing", MarkedCompleted(row[task[w]]), "completed")
MarkFailed(w) ==
    Mark(w, "failing", MarkedFailed(row[task[w]]), "failed")
MarkCancelled(w) ==
    Mark(w, "cancelling", MarkedCancelled(row[task[w]]), "cancelled")

\* The log entry of the outcome; the failure of a run launched from Telegram is
\* announced next.
LogOutcome(w) ==
    LET r == task[w] IN
    /\ pc[w] \in Settled
    /\ \/ /\ Exists(r)
          /\ AddLog(r, pc[w])
          /\ IF Announces(r, pc[w])
             THEN GoTo(w, "notifying") /\ UNCHANGED held
             ELSE Done(w)
       \/ /\ ~Exists(r) /\ Done(w) /\ UNCHANGED logs
    /\ UNCHANGED <<row, apiVars, stopper, brokerVars, notices, lost, early, late, crashed>>

\* notify_telegram_run_failed looks the chat up in the run's logs.
NotifyRunFailed(w) ==
    LET r == task[w] IN
    /\ pc[w] = "notifying"
    /\ notices' = IF "queued" \in logs[r] THEN notices \cup {r} ELSE notices
    /\ Done(w)
    /\ UNCHANGED <<row, logs, apiVars, stopper, brokerVars, lost, early, late, crashed>>

-----------------------------------------------------------------------------
(* Next-state relation and fairness *)

ApiStep(r) ==
    \/ \E by \in {"manual", "telegram", "conversation"} : CreateRun(r, by)
    \/ LogQueued(r) \/ Publish(r) \/ PublishFails(r)
    \/ StopCheck(r) \/ StopCommit(r) \/ StopLog(r)
    \/ DeleteWorkflow(r) \/ DeleteAgent(r)

BrokerStep(w) ==
    \/ \E r \in Runs : Reserve(w, r)
    \/ Redeliver(w)
    \/ Crash(w)

ExecuteRun(w) ==
    \/ Begin(w) \/ CheckStop(w) \/ StartRun(w)
    \/ GraphFails(w) \/ EnterNode(w)
    \/ NodeWrites(w) \/ NodeRaises(w) \/ NodeFlushFails(w)
    \/ MarkCompleted(w) \/ MarkFailed(w) \/ MarkCancelled(w)
    \/ LogOutcome(w) \/ NotifyRunFailed(w)

Next == \/ \E r \in Runs : ApiStep(r)
        \/ \E w \in Workers : BrokerStep(w)
        \/ \E w \in Workers : ExecuteRun(w)

\* A worker that is up takes tasks and runs them; nothing obliges a user to stop
\* or delete anything, the broker to redeliver, or a worker to crash.
Fairness == \A w \in Workers : /\ WF_vars(\E r \in Runs : Reserve(w, r))
                               /\ WF_vars(ExecuteRun(w))

Spec     == Init /\ [][Next]_vars
FairSpec == Spec /\ Fairness

-----------------------------------------------------------------------------
(* Properties *)

Labels == {"idle", "begun", "cleared", "graph", "node", "finishing", "failing",
           "cancelling", "notifying"} \cup Settled

BeforeLastNode == {"idle", "begun", "cleared", "graph", "node"}

\* Every variable has its type, a worker executes a run exactly when it is busy,
\* and an execution visits no more nodes than its bound allows.
TypeOK ==
    /\ row \in [Runs -> Row]
    /\ logs \in [Runs -> SUBSET ({"queued", "stop"} \cup Settled)]
    /\ trigger \in [Runs -> {"none", "manual", "telegram", "conversation"}]
    /\ api \in [Runs -> {"none", "created", "logged", "published", "unpublished"}]
    /\ stopper \in [Runs -> {"idle", "checked", "requested"}]
    /\ queued \in [Runs -> Nat] /\ late \in [Runs -> Nat]
    /\ reserved \in [Workers -> Runs \cup {NoRun}]
    /\ pc \in [Workers -> Labels]
    /\ task \in [Workers -> Runs \cup {NoRun}]
    /\ \A w \in Workers : pc[w] = "idle" <=> task[w] = NoRun
    /\ seen \in [Workers -> {"none", "pending", "running"}]
    /\ node \in [Workers -> 0 .. MaxNodes]
    /\ \A w \in Workers : pc[w] \in BeforeLastNode => node[w] < MaxNodes
    /\ agentsGone \subseteq Workers /\ notices \subseteq Runs
    /\ lost \subseteq Runs /\ early \subseteq Runs
    /\ redelivered \in 0 .. MaxRedeliveries /\ crashed \in 0 .. MaxCrashes

Unpublished(r) == api[r] \in {"none", "created", "logged", "unpublished"}
AwayFromQueue(r) == api[r] = "published" /\ queued[r] = 0
InFlight(r) == queued[r] > 0 \/ PickedUp(r) \/ \E w \in Workers : reserved[w] = r

\* An enqueued run that is still pending or running is held by the queue or by a
\* worker, unless a worker died with it or gave up: no path through enqueue_run or
\* execute_run drops a run silently.
ActiveRunIsInFlight ==
    \A r \in Runs : Active(r) => Unpublished(r) \/ InFlight(r) \/ r \in lost

\* A run whose stop was recorded while it was pending and no worker had picked it
\* up is never started (test_cancel_run_before_worker_starts, for every order).
EarlyStopNeverStarts ==
    \A r \in early : ~row[r].started_at /\ row[r].status # "running"

\* cancelled is the user's doing: an exception or another outcome is never
\* reported as a stop nobody asked for.
CancelledOnlyIfAsked ==
    \A r \in Runs : row[r].status = "cancelled" =>
        "stop" \in logs[r] \/ stopper[r] = "requested"

\* Whenever a worker executes a run, the entry that carries the run's Telegram
\* chat is there: the announcements of the run look it up in the logs.
ChatIsKnown ==
    \A w \in Workers : pc[w] # "idle" /\ Exists(task[w]) => "queued" \in logs[task[w]]

\* A run's task is in one place: with its request, in the queue, prefetched by one
\* worker or executed by one worker (if the broker delivers once).  The code takes
\* no lock, so everything below that speaks of one executor rests on this.
DeliveredOnce ==
    /\ \A r \in Runs : queued[r] \in {0, 1} /\ (Unpublished(r) => queued[r] = 0)
    /\ \A w \in Workers : reserved[w] # NoRun => AwayFromQueue(reserved[w])
    /\ \A w \in Workers : task[w] # NoRun => AwayFromQueue(task[w])
    /\ \A v, w \in Workers :
         /\ reserved[v] # NoRun => reserved[v] # task[w]
         /\ v # w /\ reserved[v] # NoRun => reserved[v] # reserved[w]
         /\ v # w /\ task[v] # NoRun => task[v] # task[w]

\* What the executor of a run last read of its row, or wrote to it, is still so
\* whenever it acts, short of a delete: the stale `run` object of execute_run never
\* overwrites another outcome, and a run being cancelled was asked to stop.
OwnsRow(w) ==
    LET status == row[task[w]].status IN
    /\ pc[w] \in {"begun", "cleared"} => status \in {seen[w], "deleted"}
    /\ pc[w] \in {"graph", "node", "finishing", "failing"} =>
          status \in {"running", "deleted"}
    /\ pc[w] = "cancelling" => /\ status \in {"pending", "running", "deleted"}
                               /\ row[task[w]].cancel_requested
    /\ pc[w] \in Settled => status \in {pc[w], "deleted"}
    /\ pc[w] = "notifying" => status \in {"failed", "deleted"}

ExecutorOwnsRow ==
    /\ \A r \in Runs : api[r] = "none" => row[r].status = "absent"
    /\ \A w \in Workers : OwnsRow(w)

\* After the stop is recorded, at most the node in progress of each execution
\* still writes output.
StopIsPrompt == \A r \in Runs : late[r] <= 1 + redelivered

\* The logs tell one outcome, the one the row shows.
OutcomeLogAgrees ==
    \A r \in Runs : \A outcome \in logs[r] \cap Settled : row[r].status = outcome

\* A chat that was told its run failed can rely on it.
FailureNoticeIsTrue ==
    \A r \in notices : row[r].status \in {"failed", "deleted"}

\* completed, failed and cancelled are final, whatever stops, deletes and crashes
\* race with the worker; only a delete removes the row.
SettledIsFinal ==
    [][\A r \in Runs : row[r].status \in Settled =>
            row'[r].status \in {row[r].status, "deleted"}]_vars

\* deployment/README.md: "failed runs stay `failed`".
FailedRunsStayFailed ==
    [][\A r \in Runs : row[r].status = "failed" =>
            row'[r].status \in {"failed", "deleted"}]_vars

\* The runs implement the contract.
Contract == INSTANCE RunContract WITH
    status    <- [r \in Runs |-> row[r].status],
    stopAsked <- [r \in Runs |-> row[r].cancel_requested]

\* Every step of the system is a step of the contract, or none of its business.
ImplementsContract == Contract!Init /\ [][Contract!Next]_Contract!vars

\* An enqueued run settles or is deleted, unless its worker died or gave up.
PublishedRunsSettle ==
    \A r \in Runs : api[r] = "published" ~> (~Active(r) \/ r \in lost)

\* ARCHITECTURE.md: the worker "marks `completed` or `failed`".
StartedRunsSettle ==
    \A r \in Runs : row[r].status = "running" ~> row[r].status # "running"
=============================================================================
