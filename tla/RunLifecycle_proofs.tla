------------------------ MODULE RunLifecycle_proofs ------------------------
(***************************************************************************)
(* What RunLifecycle guarantees for any number of runs and workers and any *)
(* bounds.                                                                 *)
(*                                                                         *)
(* Under every fault it models, redelivery included, the inductive         *)
(* invariant is RunInv: types; Records, what the row, the logs and the     *)
(* requests of a run say of one another; Settlers, where an active run is  *)
(* held; Prevented, how far a run stopped early can get; Copies, how many  *)
(* times a task is about; and Late, how many nodes may still write after a *)
(* stop.                                                                   *)
(*                                                                         *)
(* When the broker delivers every task once (MaxRedeliveries = 0) it is    *)
(* Inv: one executor per run, which owns the run's row, so that a settled  *)
(* run stays settled and the runs implement RunContract.  DeliveredOnce    *)
(* says where a run's task is; that two workers never hold one run makes   *)
(* ExecutorOwnsRow inductive; ExecutorOwnsRow says what each label knows   *)
(* of the row, and every write of execute_run is then a move RunContract   *)
(* allows.                                                                 *)
(***************************************************************************)
EXTENDS RunLifecycle, FiniteSetTheorems, TLAPS

-----------------------------------------------------------------------------
(* Type correctness *)

\* The writes of RunRepository keep a row a row.
LEMMA MarksKeepRow ==
    ASSUME NEW rec \in Row
    PROVE  /\ MarkedRunning(rec) \in Row
           /\ MarkedCompleted(rec) \in Row
           /\ MarkedFailed(rec) \in Row
           /\ MarkedCancelled(rec) \in Row
           /\ StopRequested(rec) \in Row
  BY DEF Row, Statuses, RunActiveStatuses, Settled, MarkedRunning, MarkedCompleted,
         MarkedFailed, MarkedCancelled, StopRequested

\* Done frees the worker whatever it was doing.
LEMMA DoneKeepsTypes ==
    ASSUME TypeOK, NEW w \in Workers, Done(w)
    PROVE  /\ pc' \in [Workers -> Labels]
           /\ task' \in [Workers -> Runs \cup {NoRun}]
           /\ seen' \in [Workers -> {"none", "pending", "running"}]
           /\ node' \in [Workers -> 0 .. MaxNodes]
           /\ agentsGone' \subseteq Workers
           /\ \A v \in Workers : pc'[v] = "idle" <=> task'[v] = NoRun
           /\ \A v \in Workers : pc'[v] \in BeforeLastNode => node'[v] < MaxNodes
  BY RunLifecycleAssumption DEF TypeOK, Done, Labels

\* A move between two busy labels keeps the pairing of pc and task; if it does not
\* go back before the last node it keeps the bound on the nodes as well.
LEMMA GoToKeepsTypes ==
    ASSUME TypeOK, NEW w \in Workers, NEW label \in Labels \ {"idle"},
           GoTo(w, label), pc[w] # "idle", UNCHANGED task
    PROVE  /\ pc' \in [Workers -> Labels]
           /\ \A v \in Workers : pc'[v] = "idle" <=> task'[v] = NoRun
           /\ /\ label \in BeforeLastNode => pc[w] \in BeforeLastNode
              /\ UNCHANGED node
              => \A v \in Workers : pc'[v] \in BeforeLastNode => node'[v] < MaxNodes
  BY DEF TypeOK, GoTo

\* A busy worker has a run.
LEMMA BusyHasRun ==
    ASSUME TypeOK, NEW w \in Workers, pc[w] # "idle"
    PROVE  task[w] \in Runs
  BY DEF TypeOK

LEMMA GiveUpKeepsTypes ==
    ASSUME TypeOK, NEW w \in Workers, pc[w] # "idle", GiveUp(w)
    PROVE  /\ Done(w)
           /\ lost' \subseteq Runs
  BY BusyHasRun DEF TypeOK, GiveUp

\* One API step of a run.
LEMMA ApiStepKeepsTypes ==
    ASSUME TypeOK, NEW r \in Runs, ApiStep(r)
    PROVE  TypeOK'
  <1> USE DEF vars, apiVars, brokerVars, workerVars, held, AddLog
  <1>1. ASSUME NEW by \in {"manual", "telegram", "conversation"}, CreateRun(r, by)
        PROVE  TypeOK'
    <2>1. row' \in [Runs -> Row]
      <3>1. PICK new : new = [row[r] EXCEPT !.status = "pending"]
        OBVIOUS
      <3>2. row[r] \in Row /\ "pending" \in Statuses
        BY DEF TypeOK, Statuses, RunActiveStatuses
      <3>3. new \in Row
        BY <3>1, <3>2 DEF Row
      <3>4. row' = [row EXCEPT ![r] = new]
        BY <1>1, <3>1 DEF CreateRun
      <3>. QED BY <3>3, <3>4 DEF TypeOK
    <2>2. /\ trigger' \in [Runs -> {"none", "manual", "telegram", "conversation"}]
          /\ api' \in [Runs -> {"none", "created", "logged", "published", "unpublished"}]
      BY <1>1 DEF TypeOK, CreateRun
    <2>. QED BY <1>1, <2>1, <2>2 DEF TypeOK, CreateRun
  <1>2. CASE LogQueued(r)
    BY <1>2 DEF TypeOK, LogQueued
  <1>3. CASE Publish(r)
    BY <1>3 DEF TypeOK, Publish
  <1>4. CASE PublishFails(r)
    BY <1>4 DEF TypeOK, PublishFails
  <1>5. CASE StopCheck(r)
    BY <1>5 DEF TypeOK, StopCheck
  <1>6. CASE StopCommit(r)
    BY <1>6, MarksKeepRow DEF TypeOK, StopCommit
  <1>7. CASE StopLog(r)
    BY <1>7 DEF TypeOK, StopLog
  <1>8. CASE DeleteWorkflow(r)
    <2>1. row' \in [Runs -> Row]
      <3>1. PICK new : new = [row[r] EXCEPT !.status = "deleted"]
        OBVIOUS
      <3>2. row[r] \in Row /\ "deleted" \in Statuses
        BY DEF TypeOK, Statuses, RunActiveStatuses
      <3>3. new \in Row
        BY <3>1, <3>2 DEF Row
      <3>4. row' = [row EXCEPT ![r] = new]
        BY <1>8, <3>1 DEF DeleteWorkflow
      <3>. QED BY <3>3, <3>4 DEF TypeOK
    <2>2. logs' \in [Runs -> SUBSET ({"queued", "stop"} \cup Settled)]
      BY <1>8 DEF TypeOK, DeleteWorkflow
    <2>. QED BY <1>8, <2>1, <2>2 DEF TypeOK, DeleteWorkflow
  <1>9. CASE DeleteAgent(r)
    BY <1>9 DEF TypeOK, DeleteAgent
  <1>. QED
    BY <1>1, <1>2, <1>3, <1>4, <1>5, <1>6, <1>7, <1>8, <1>9 DEF ApiStep

LEMMA BrokerStepKeepsTypes ==
    ASSUME TypeOK, NEW w \in Workers, BrokerStep(w)
    PROVE  TypeOK'
  <1> USE RunLifecycleAssumption DEF vars, apiVars, brokerVars, workerVars, held
  <1>1. ASSUME NEW r \in Runs, Reserve(w, r)
        PROVE  TypeOK'
    BY <1>1 DEF TypeOK, Reserve
  <1>2. CASE Redeliver(w)
    BY <1>2 DEF TypeOK, Redeliver
  <1>3. CASE Crash(w)
    <2>1. Done(w)
      BY <1>3 DEF Crash
    <2>2. lost' \subseteq Runs
      BY <1>3, BusyHasRun DEF TypeOK, Crash
    <2>3. /\ queued' \in [Runs -> Nat]
          /\ reserved' \in [Workers -> Runs \cup {NoRun}]
          /\ crashed' \in 0 .. MaxCrashes
      BY <1>3 DEF TypeOK, Crash
    <2>. QED
      BY <1>3, <2>1, <2>2, <2>3, DoneKeepsTypes DEF TypeOK, Crash
  <1>. QED
    BY <1>1, <1>2, <1>3 DEF BrokerStep

LEMMA ExecuteRunKeepsTypes ==
    ASSUME TypeOK, NEW w \in Workers, ExecuteRun(w)
    PROVE  TypeOK'
  <1> USE RunLifecycleAssumption DEF vars, apiVars, brokerVars, workerVars, held
  <1>0. pc[w] # "idle" => task[w] \in Runs
    BY BusyHasRun
  <1>1. CASE Begin(w)
    <2>1. reserved[w] \in Runs
      BY <1>1 DEF TypeOK, Begin
    <2>2. CASE MayExecute(reserved[w])
      <3>1. row[reserved[w]].status \in {"pending", "running"}
        BY <2>2 DEF MayExecute, Active, RunActiveStatuses
      <3>2. seen' \in [Workers -> {"none", "pending", "running"}]
        BY <1>1, <2>2, <3>1 DEF TypeOK, Begin
      <3>3. pc' \in [Workers -> Labels] /\ task' \in [Workers -> Runs \cup {NoRun}]
        BY <1>1, <2>1, <2>2 DEF TypeOK, Begin, GoTo, Labels
      <3>4. \A v \in Workers : pc'[v] = "idle" <=> task'[v] = NoRun
        BY <1>1, <2>1, <2>2 DEF TypeOK, Begin, GoTo
      <3>5. \A v \in Workers : pc'[v] \in BeforeLastNode => node'[v] < MaxNodes
        BY <1>1, <2>2 DEF TypeOK, Begin, GoTo, BeforeLastNode
      <3>. QED
        BY <1>1, <2>2, <3>2, <3>3, <3>4, <3>5 DEF TypeOK, Begin
    <2>3. CASE ~MayExecute(reserved[w])
      BY <1>1, <2>3 DEF TypeOK, Begin
    <2>. QED BY <2>2, <2>3
  <1>2. CASE CheckStop(w)
    <2>1. StartLabel(task[w]) \in Labels \ {"idle"}
      BY DEF StartLabel, Labels
    <2>. QED
      BY <1>2, <2>1, GoToKeepsTypes DEF TypeOK, CheckStop, BeforeLastNode
  <1>3. CASE StartRun(w)
    <2>1. CASE Exists(task[w])
      <3>1. row' \in [Runs -> Row]
        BY <1>0, <1>3, <2>1, MarksKeepRow DEF TypeOK, StartRun
      <3>2. GoTo(w, "graph") /\ pc[w] # "idle" /\ UNCHANGED <<held, lost>>
        BY <1>3, <2>1 DEF StartRun
      <3>3. /\ pc' \in [Workers -> Labels]
            /\ \A v \in Workers : pc'[v] = "idle" <=> task'[v] = NoRun
            /\ \A v \in Workers : pc'[v] \in BeforeLastNode => node'[v] < MaxNodes
        BY <1>3, <3>2, GoToKeepsTypes DEF Labels, StartRun, BeforeLastNode
      <3>. QED
        BY <1>3, <3>1, <3>2, <3>3 DEF TypeOK, StartRun
    <2>2. CASE ~Exists(task[w])
      BY <1>3, <2>2, GiveUpKeepsTypes, DoneKeepsTypes DEF TypeOK, StartRun
    <2>. QED BY <2>1, <2>2
  <1>4. CASE GraphFails(w)
    BY <1>4, GoToKeepsTypes DEF TypeOK, GraphFails, ExceptionLabel, Labels, BeforeLastNode
  <1>5. CASE EnterNode(w)
    <2>1. NodeLabel(task[w]) \in Labels \ {"idle"}
      BY DEF NodeLabel, Labels
    <2>2. CASE Exists(task[w])
      BY <1>5, <2>1, <2>2, GoToKeepsTypes DEF TypeOK, EnterNode, BeforeLastNode
    <2>3. CASE ~Exists(task[w])
      BY <1>5, <2>3, GiveUpKeepsTypes, DoneKeepsTypes DEF TypeOK, EnterNode
    <2>. QED BY <2>2, <2>3
  <1>6. CASE NodeWrites(w)
    <2>1. pc' \in [Workers -> Labels] /\ \A v \in Workers : pc'[v] = "idle" <=> task'[v] = NoRun
      BY <1>6, GoToKeepsTypes DEF NodeWrites, Labels
    <2>2. late' \in [Runs -> Nat]
      BY <1>0, <1>6 DEF TypeOK, NodeWrites
    <2>3. /\ node' \in [Workers -> 0 .. MaxNodes]
          /\ \A v \in Workers : pc'[v] \in BeforeLastNode => node'[v] < MaxNodes
      <3>1. node[w] \in 0 .. MaxNodes - 1
        BY <1>6 DEF TypeOK, NodeWrites, BeforeLastNode
      <3>2. node' = [node EXCEPT ![w] = node[w] + 1]
        BY <1>6 DEF NodeWrites
      <3>3. \/ node[w] + 1 < MaxNodes
            \/ pc' = [pc EXCEPT ![w] = "finishing"]
        BY <1>6 DEF NodeWrites, MoreNodes, GoTo
      <3>4. \A v \in Workers \ {w} : pc'[v] = pc[v]
        BY <1>6 DEF TypeOK, NodeWrites, GoTo
      <3>5. node' \in [Workers -> 0 .. MaxNodes]
        BY <3>1, <3>2 DEF TypeOK
      <3>6. ASSUME NEW v \in Workers, pc'[v] \in BeforeLastNode
            PROVE  node'[v] < MaxNodes
        BY <3>1, <3>2, <3>3, <3>4, <3>6 DEF TypeOK, BeforeLastNode
      <3>. QED
        BY <3>5, <3>6
    <2>. QED
      BY <1>6, <2>1, <2>2, <2>3 DEF TypeOK, NodeWrites
  <1>7. CASE NodeRaises(w)
    BY <1>7, GoToKeepsTypes DEF TypeOK, NodeRaises, ExceptionLabel, Labels, BeforeLastNode
  <1>8. CASE NodeFlushFails(w)
    BY <1>8, GiveUpKeepsTypes, DoneKeepsTypes DEF TypeOK, NodeFlushFails
  <1>9. CASE MarkCompleted(w) \/ MarkFailed(w) \/ MarkCancelled(w)
    <2>1. CASE Exists(task[w])
      <3>1. row' \in [Runs -> Row]
        BY <1>0, <1>9, <2>1, MarksKeepRow
        DEF TypeOK, MarkCompleted, MarkFailed, MarkCancelled, Mark
      <3>. QED
        BY <1>9, <2>1, <3>1, GoToKeepsTypes
        DEF TypeOK, MarkCompleted, MarkFailed, MarkCancelled, Mark, Labels, Settled,
            BeforeLastNode
    <2>2. CASE ~Exists(task[w])
      BY <1>9, <2>2, GiveUpKeepsTypes, DoneKeepsTypes
      DEF TypeOK, MarkCompleted, MarkFailed, MarkCancelled, Mark
    <2>. QED BY <2>1, <2>2
  <1>10. CASE LogOutcome(w)
    BY <1>0, <1>10, DoneKeepsTypes, GoToKeepsTypes
    DEF TypeOK, LogOutcome, AddLog, Settled, Labels, BeforeLastNode
  <1>11. CASE NotifyRunFailed(w)
    BY <1>0, <1>11, DoneKeepsTypes DEF TypeOK, NotifyRunFailed
  <1>. QED
    BY <1>1, <1>2, <1>3, <1>4, <1>5, <1>6, <1>7, <1>8, <1>9, <1>10, <1>11 DEF ExecuteRun

LEMMA InitIsTyped == Init => TypeOK
  BY RunLifecycleAssumption DEF Init, TypeOK, NoRow, Row, Statuses, Labels

LEMMA StepKeepsTypes == TypeOK /\ [Next]_vars => TypeOK'
  <1> SUFFICES ASSUME TypeOK, [Next]_vars PROVE TypeOK'
    OBVIOUS
  <1>1. CASE UNCHANGED vars
    BY <1>1 DEF vars, apiVars, brokerVars, workerVars, held, TypeOK
  <1>. QED
    BY <1>1, ApiStepKeepsTypes, BrokerStepKeepsTypes, ExecuteRunKeepsTypes DEF Next

\* Type correctness of the whole system: rows keep the columns and statuses of
\* workflow_runs, a worker is busy exactly when it has a run, and no execution
\* goes past its last node.
THEOREM TypeCorrect == Spec => []TypeOK
  BY InitIsTyped, StepKeepsTypes, PTL DEF Spec

-----------------------------------------------------------------------------
(* What a run's records say of one another *)

\* A run whose request has not begun has no row ...
CreatedOnce(r) == api[r] = "none" => row[r] = NoRow

\* ... and one whose task is anywhere was published.
TaskIsPublished(r) ==
    queued[r] > 0 \/ (\E w \in Workers : r \in {reserved[w], task[w]})
      => api[r] = "published"

\* The "Run queued" entry comes before the task and goes with the row only.
ChatIsLogged(r) ==
    Exists(r) /\ api[r] \in {"logged", "published"} => "queued" \in logs[r]

\* A recorded stop is in the log, or its request is about to log it.
StopIsLogged(r) ==
    Exists(r) /\ row[r].cancel_requested => "stop" \in logs[r] \/ stopper[r] = "requested"

\* A pending row has not been started.
PendingIsFresh(r) == row[r].status = "pending" => ~row[r].started_at

\* Only a run that was asked to stop is cancelled, or is about to be.
CancelIsAsked(r) == row[r].status = "cancelled" => row[r].cancel_requested
CancellerIsAsked(w) == pc[w] = "cancelling" => row[task[w]].cancel_requested

\* What the requests, rows and logs of the runs agree on in every state.
Records ==
    /\ \A r \in Runs : /\ CreatedOnce(r) /\ TaskIsPublished(r) /\ ChatIsLogged(r)
                       /\ StopIsLogged(r) /\ PendingIsFresh(r) /\ CancelIsAsked(r)
    /\ \A w \in Workers : CancellerIsAsked(w)

\* What each write of RunRepository does to the columns.
LEMMA MarksWrite ==
    ASSUME NEW rec \in Row
    PROVE  /\ /\ MarkedRunning(rec).status = "running"
              /\ MarkedRunning(rec).cancel_requested = rec.cancel_requested
           /\ /\ MarkedCompleted(rec).status = "completed"
              /\ MarkedCompleted(rec).cancel_requested = rec.cancel_requested
              /\ MarkedCompleted(rec).started_at = rec.started_at
           /\ /\ MarkedFailed(rec).status = "failed"
              /\ MarkedFailed(rec).cancel_requested = rec.cancel_requested
              /\ MarkedFailed(rec).started_at = rec.started_at
           /\ /\ MarkedCancelled(rec).status = "cancelled"
              /\ MarkedCancelled(rec).cancel_requested
              /\ MarkedCancelled(rec).started_at = rec.started_at
           /\ /\ StopRequested(rec).status = rec.status
              /\ StopRequested(rec).cancel_requested
              /\ StopRequested(rec).started_at = rec.started_at
  BY DEF Row, MarkedRunning, MarkedCompleted, MarkedFailed, MarkedCancelled, StopRequested

\* The steps of a request keep the records in agreement ...
LEMMA ApiStepKeepsRecords ==
    ASSUME TypeOK, Records, NEW r \in Runs, ApiStep(r)
    PROVE  Records'
  <1> USE DEF apiVars, brokerVars, workerVars, held, AddLog, Records, CreatedOnce,
              TaskIsPublished, ChatIsLogged, StopIsLogged, PendingIsFresh, CancelIsAsked,
              CancellerIsAsked, Exists, TypeOK
  <1>1. ASSUME NEW by \in {"manual", "telegram", "conversation"}, CreateRun(r, by)
        PROVE  Records'
    BY <1>1, RunLifecycleAssumption DEF CreateRun, NoRow, Row
  <1>2. CASE LogQueued(r)
    BY <1>2 DEF LogQueued
  <1>3. CASE Publish(r)
    BY <1>3 DEF Publish, ReadyToPublish
  <1>4. CASE PublishFails(r)
    BY <1>4 DEF PublishFails
  <1>5. CASE StopCheck(r)
    BY <1>5 DEF StopCheck
  <1>6. CASE StopCommit(r)
    <2>1. CASE Exists(r)
      <3>1. row[r] # NoRow /\ row[r] \in Row
        BY <2>1 DEF NoRow
      <3>2. PICK rec : rec = StopRequested(row[r])
        OBVIOUS
      <3>3. /\ rec.status = row[r].status /\ rec.cancel_requested
            /\ rec.started_at = row[r].started_at
        BY <3>1, <3>2, MarksWrite
      <3>4. /\ row' = [row EXCEPT ![r] = rec]
            /\ stopper' = [stopper EXCEPT ![r] = "requested"]
        BY <1>6, <2>1, <3>2 DEF StopCommit
      <3>. QED BY <1>6, <3>1, <3>3, <3>4 DEF StopCommit
    <2>2. CASE ~Exists(r)
      BY <1>6, <2>2 DEF StopCommit
    <2>. QED BY <2>1, <2>2
  <1>7. CASE StopLog(r)
    BY <1>7 DEF StopLog
  <1>8. CASE DeleteWorkflow(r)
    <2>1. row[r] # NoRow /\ row[r] \in Row
      BY <1>8 DEF DeleteWorkflow, NoRow
    <2>2. PICK rec : rec = [row[r] EXCEPT !.status = "deleted"]
      OBVIOUS
    <2>3. rec.status = "deleted" /\ rec.cancel_requested = row[r].cancel_requested
      BY <2>1, <2>2 DEF Row
    <2>4. row' = [row EXCEPT ![r] = rec]
      BY <1>8, <2>2 DEF DeleteWorkflow
    <2>. QED BY <1>8, <2>1, <2>3, <2>4 DEF DeleteWorkflow
  <1>9. CASE DeleteAgent(r)
    BY <1>9 DEF DeleteAgent
  <1>. QED
    BY <1>1, <1>2, <1>3, <1>4, <1>5, <1>6, <1>7, <1>8, <1>9 DEF ApiStep

\* ... so do those of the broker ...
LEMMA BrokerStepKeepsRecords ==
    ASSUME TypeOK, Records, NEW w \in Workers, BrokerStep(w)
    PROVE  Records'
  <1> USE RunLifecycleAssumption
      DEF apiVars, brokerVars, workerVars, held, AddLog, Records, CreatedOnce,
              TaskIsPublished, ChatIsLogged, StopIsLogged, PendingIsFresh, CancelIsAsked,
              CancellerIsAsked, Exists, TypeOK
  <1>1. ASSUME NEW r \in Runs, Reserve(w, r)
        PROVE  Records'
    BY <1>1 DEF Reserve
  <1>2. CASE Redeliver(w)
    BY <1>2 DEF Redeliver
  <1>3. CASE Crash(w)
    BY <1>3 DEF Crash, Done
  <1>. QED
    BY <1>1, <1>2, <1>3 DEF BrokerStep

\* ... and those of execute_run.
LEMMA ExecuteRunKeepsRecords ==
    ASSUME TypeOK, Records, NEW w \in Workers, ExecuteRun(w)
    PROVE  Records'
  <1> USE RunLifecycleAssumption, BusyHasRun
      DEF apiVars, brokerVars, workerVars, held, AddLog, Records, CreatedOnce,
              TaskIsPublished, ChatIsLogged, StopIsLogged, PendingIsFresh, CancelIsAsked,
              CancellerIsAsked, Exists, TypeOK, GoTo, Done, GiveUp
  <1>0. ASSUME pc[w] # "idle", Exists(task[w]), NEW rec, row' = [row EXCEPT ![task[w]] = rec],
               rec.status # "pending", rec.status = "cancelled" => rec.cancel_requested,
               row[task[w]].cancel_requested => rec.cancel_requested,
               rec.cancel_requested => row[task[w]].cancel_requested,
               NEW label, label \notin {"idle", "cancelling"}, pc' = [pc EXCEPT ![w] = label],
               UNCHANGED <<logs, api, stopper, queued, reserved, task>>
        PROVE  Records'
    <2>1. task[w] \in Runs /\ row[task[w]] # NoRow
      BY <1>0 DEF NoRow
    <2>2. api[task[w]] = "published" /\ "queued" \in logs[task[w]]
      BY <1>0, <2>1
    <2>3. \A r \in Runs : CreatedOnce(r)' /\ TaskIsPublished(r)' /\ ChatIsLogged(r)'
      BY <1>0, <2>1, <2>2
    <2>4. \A r \in Runs : StopIsLogged(r)' /\ PendingIsFresh(r)' /\ CancelIsAsked(r)'
      BY <1>0, <2>1
    <2>5. ASSUME NEW v \in Workers PROVE CancellerIsAsked(v)'
      BY <1>0, <2>1, <2>5
    <2>. QED BY <2>3, <2>4, <2>5
  <1>1. CASE Begin(w)
    BY <1>1 DEF Begin, MayExecute, Active
  <1>2. CASE CheckStop(w)
    BY <1>2 DEF CheckStop, StartLabel
  <1>3. CASE StartRun(w)
    <2>1. CASE Exists(task[w]) /\ seen[w] = "pending"
      <3>1. row[task[w]] \in Row
        BY <1>3 DEF StartRun
      <3>2. PICK rec : rec = MarkedRunning(row[task[w]])
        OBVIOUS
      <3>3. rec.status = "running" /\ rec.cancel_requested = row[task[w]].cancel_requested
        BY <3>1, <3>2, MarksWrite
      <3>4. /\ row' = [row EXCEPT ![task[w]] = rec]
            /\ pc' = [pc EXCEPT ![w] = "graph"] /\ pc[w] # "idle"
            /\ UNCHANGED <<logs, api, stopper, queued, reserved, task>>
        BY <1>3, <2>1, <3>2 DEF StartRun
      <3>. QED BY <1>0, <2>1, <3>3, <3>4
    <2>2. CASE ~Exists(task[w]) \/ seen[w] # "pending"
      BY <1>3, <2>2 DEF StartRun
    <2>. QED BY <2>1, <2>2
  <1>4. CASE GraphFails(w) \/ NodeRaises(w)
    BY <1>4 DEF GraphFails, NodeRaises, ExceptionLabel
  <1>5. CASE EnterNode(w)
    BY <1>5 DEF EnterNode, NodeLabel
  <1>6. CASE NodeWrites(w)
    BY <1>6 DEF NodeWrites
  <1>7. CASE NodeFlushFails(w)
    BY <1>7 DEF NodeFlushFails
  <1>8. CASE MarkCompleted(w) \/ MarkFailed(w) \/ MarkCancelled(w)
    <2>1. CASE Exists(task[w])
      <3>1. row[task[w]] \in Row
        BY <1>8 DEF MarkCompleted, MarkFailed, MarkCancelled, Mark
      <3>2. pc[w] = "cancelling" => row[task[w]].cancel_requested
        OBVIOUS
      <3>3. CASE MarkCompleted(w) \/ MarkFailed(w)
        <4>1. PICK rec : \/ MarkCompleted(w) /\ rec = MarkedCompleted(row[task[w]])
                         \/ MarkFailed(w) /\ rec = MarkedFailed(row[task[w]])
          BY <3>3
        <4>2. /\ rec.status \in {"completed", "failed"}
              /\ rec.cancel_requested = row[task[w]].cancel_requested
          BY <3>1, <4>1, MarksWrite
        <4>3. /\ row' = [row EXCEPT ![task[w]] = rec] /\ pc[w] # "idle"
              /\ \/ pc' = [pc EXCEPT ![w] = "completed"]
                 \/ pc' = [pc EXCEPT ![w] = "failed"]
              /\ UNCHANGED <<logs, api, stopper, queued, reserved, task>>
          BY <2>1, <4>1 DEF MarkCompleted, MarkFailed, Mark
        <4>. QED BY <1>0, <2>1, <4>2, <4>3
      <3>4. CASE MarkCancelled(w)
        <4>1. PICK rec : rec = MarkedCancelled(row[task[w]])
          OBVIOUS
        <4>2. rec.status = "cancelled" /\ rec.cancel_requested
          BY <3>1, <4>1, MarksWrite
        <4>3. /\ row' = [row EXCEPT ![task[w]] = rec] /\ pc[w] = "cancelling"
              /\ pc' = [pc EXCEPT ![w] = "cancelled"]
              /\ UNCHANGED <<logs, api, stopper, queued, reserved, task>>
          BY <2>1, <3>4, <4>1 DEF MarkCancelled, Mark
        <4>. QED BY <1>0, <2>1, <3>2, <4>2, <4>3
      <3>. QED BY <1>8, <3>3, <3>4
    <2>2. CASE ~Exists(task[w])
      BY <1>8, <2>2 DEF MarkCompleted, MarkFailed, MarkCancelled, Mark
    <2>. QED BY <2>1, <2>2
  <1>9. CASE LogOutcome(w)
    BY <1>9 DEF LogOutcome, Settled
  <1>10. CASE NotifyRunFailed(w)
    BY <1>10 DEF NotifyRunFailed
  <1>. QED
    BY <1>1, <1>2, <1>3, <1>4, <1>5, <1>6, <1>7, <1>8, <1>9, <1>10
    DEF ExecuteRun

-----------------------------------------------------------------------------
(* Who will settle a run *)

\* The labels of execute_run before its mark is committed.
BeforeMark == {"begun", "cleared", "graph", "node", "finishing", "failing", "cancelling"}

\* InFlight as an invariant needs it: an executor that has marked the run does not
\* count, for it lets go of the run without another write.
Queued(r)  == queued[r] > 0
Reserved(r) == \E w \in Workers : reserved[w] = r
Executing(r) == \E w \in Workers : task[w] = r /\ pc[w] \in BeforeMark
HasSettler(r) ==
  Active(r) => \/ Unpublished(r) \/ r \in lost
               \/ Queued(r) \/ Reserved(r) \/ Executing(r)

Settlers == \A r \in Runs : HasSettler(r)

\* A request hands the run over to the queue.
LEMMA ApiStepKeepsSettlers ==
    ASSUME TypeOK, Settlers, NEW r \in Runs, ApiStep(r)
    PROVE  Settlers'
  <1> USE DEF apiVars, brokerVars, workerVars, held, AddLog, Settlers, HasSettler, Active,
              RunActiveStatuses, Unpublished, Queued, Reserved, Executing, TypeOK
  <1>1. ASSUME NEW by \in {"manual", "telegram", "conversation"}, CreateRun(r, by)
        PROVE  Settlers'
    BY <1>1 DEF CreateRun
  <1>2. CASE LogQueued(r) \/ PublishFails(r)
    BY <1>2 DEF LogQueued, PublishFails
  <1>3. CASE Publish(r)
    BY <1>3 DEF Publish, ReadyToPublish
  <1>4. CASE StopCheck(r) \/ StopLog(r) \/ DeleteAgent(r)
    BY <1>4 DEF StopCheck, StopLog, DeleteAgent
  <1>5. CASE StopCommit(r)
    <2>1. StopRequested(row[r]).status = row[r].status
      BY MarksWrite
    <2>2. \A s \in Runs : row'[s].status = row[s].status
      BY <1>5, <2>1 DEF StopCommit
    <2>. QED BY <1>5, <2>2 DEF StopCommit
  <1>6. CASE DeleteWorkflow(r)
    <2>1. row'[r].status = "deleted" /\ \A s \in Runs \ {r} : row'[s] = row[s]
      BY <1>6 DEF DeleteWorkflow, Row
    <2>. QED BY <1>6, <2>1 DEF DeleteWorkflow
  <1>. QED
    BY <1>1, <1>2, <1>3, <1>4, <1>5, <1>6 DEF ApiStep

\* A task moves between the queue and the workers, and is lost only with its executor.
LEMMA BrokerStepKeepsSettlers ==
    ASSUME TypeOK, Settlers, NEW w \in Workers, BrokerStep(w)
    PROVE  Settlers'
  <1> USE RunLifecycleAssumption
      DEF apiVars, brokerVars, workerVars, held, Settlers, HasSettler, Active,
          Unpublished, Queued, Reserved, Executing, TypeOK
  <1>1. ASSUME NEW r \in Runs, Reserve(w, r)
        PROVE  Settlers'
    BY <1>1 DEF Reserve
  <1>2. CASE Redeliver(w)
    BY <1>2 DEF Redeliver
  <1>3. CASE Crash(w)
    BY <1>3, BusyHasRun DEF Crash, Done, BeforeMark
  <1>. QED
    BY <1>1, <1>2, <1>3 DEF BrokerStep

\* An executor keeps its run until the run has settled, is gone, or is given up.
LEMMA ExecuteRunKeepsSettlers ==
    ASSUME TypeOK, Settlers, NEW w \in Workers, ExecuteRun(w)
    PROVE  Settlers'
  <1> USE RunLifecycleAssumption
      DEF apiVars, brokerVars, workerVars, held, Settlers, HasSettler, Unpublished,
          Queued, Reserved, Executing, BeforeMark, TypeOK, GoTo
  <1>0. pc[w] # "idle" => task[w] \in Runs /\ row[task[w]] \in Row
    BY BusyHasRun
  <1>1. CASE Begin(w)
    BY <1>1 DEF Begin, MayExecute, Active
  <1>2. ASSUME pc[w] \in BeforeMark, NEW label \in BeforeMark, GoTo(w, label),
               UNCHANGED <<api, queued, reserved, task, lost>>,
               \A r \in Runs : Active(r)' => Active(r) \/ r = task[w]
        PROVE  Settlers'
    BY <1>0, <1>2
  <1>3. ASSUME GiveUp(w), UNCHANGED <<row, api, queued, reserved>>, pc[w] # "idle"
        PROVE  Settlers'
    <2>1. \A r \in Runs : Active(r) => Exists(r)
      BY DEF Active, RunActiveStatuses, Exists
    <2>. QED BY <1>0, <1>3, <2>1 DEF GiveUp, Done, Active
  <1>4. CASE CheckStop(w)
    BY <1>2, <1>4 DEF CheckStop, StartLabel, Active
  <1>5. CASE StartRun(w)
    <2>1. \A r \in Runs : Active(r)' => Active(r) \/ r = task[w]
      BY <1>5 DEF StartRun, Active
    <2>. QED BY <1>2, <1>3, <1>5, <2>1 DEF StartRun
  <1>6. CASE GraphFails(w) \/ NodeRaises(w)
    BY <1>2, <1>6 DEF GraphFails, NodeRaises, ExceptionLabel, Active
  <1>7. CASE EnterNode(w)
    BY <1>2, <1>3, <1>7 DEF EnterNode, NodeLabel, Active
  <1>8. CASE NodeWrites(w)
    BY <1>2, <1>8 DEF NodeWrites, Active
  <1>9. CASE NodeFlushFails(w)
    BY <1>3, <1>9 DEF NodeFlushFails
  <1>10. CASE MarkCompleted(w) \/ MarkFailed(w) \/ MarkCancelled(w)
    <2>1. CASE Exists(task[w])
      <3>1. ~Active(task[w])'
        BY <1>0, <1>10, <2>1, MarksWrite
        DEF MarkCompleted, MarkFailed, MarkCancelled, Mark, Active, RunActiveStatuses
      <3>2. \A r \in Runs \ {task[w]} : row'[r] = row[r]
        BY <1>10, <2>1 DEF MarkCompleted, MarkFailed, MarkCancelled, Mark
      <3>. QED
        BY <1>10, <2>1, <3>1, <3>2
        DEF MarkCompleted, MarkFailed, MarkCancelled, Mark, Active
    <2>2. CASE ~Exists(task[w])
      BY <1>3, <1>10, <2>2 DEF MarkCompleted, MarkFailed, MarkCancelled, Mark
    <2>. QED BY <2>1, <2>2
  <1>11. CASE LogOutcome(w) \/ NotifyRunFailed(w)
    <2>1. /\ pc[w] \notin BeforeMark
          /\ \A v \in Workers \ {w} : pc'[v] = pc[v] /\ task'[v] = task[v]
          /\ UNCHANGED <<row, api, queued, reserved, lost>>
      BY <1>11 DEF LogOutcome, NotifyRunFailed, Done, Settled
    <2>. QED BY <1>11, <2>1 DEF Active
  <1>. QED
    BY <1>1, <1>4, <1>5, <1>6, <1>7, <1>8, <1>9, <1>10, <1>11 DEF ExecuteRun

-----------------------------------------------------------------------------
(* A stop before the start *)

\* A run stopped before any pick-up is carried no further than its cancellation; only
\* when its row is gone does an executor pass the check, and then it gives up.
StoppedEarly(r) ==
  r \in early =>
    /\ api[r] # "none" /\ row[r].cancel_requested
    /\ ~row[r].started_at /\ row[r].status # "running"
    /\ \A w \in Workers : task[w] = r =>
          /\ pc[w] \in {"begun", "cleared", "cancelling", "cancelled"}
          /\ pc[w] = "cleared" => ~Exists(r)

Prevented == \A r \in Runs : StoppedEarly(r)

\* A stop counts as early only while nobody executes the run.
LEMMA ApiStepKeepsPrevented ==
    ASSUME TypeOK, Records, Prevented, NEW r \in Runs, ApiStep(r)
    PROVE  Prevented'
  <1> USE DEF apiVars, brokerVars, workerVars, held, AddLog, Prevented, StoppedEarly,
              TypeOK, Exists
  <1>1. ASSUME NEW by \in {"manual", "telegram", "conversation"}, CreateRun(r, by)
        PROVE  Prevented'
    BY <1>1 DEF CreateRun
  <1>2. CASE LogQueued(r) \/ Publish(r) \/ PublishFails(r)
    BY <1>2 DEF LogQueued, Publish, PublishFails
  <1>3. CASE StopCheck(r) \/ StopLog(r) \/ DeleteAgent(r)
    BY <1>3 DEF StopCheck, StopLog, DeleteAgent
  <1>4. CASE StopCommit(r) /\ Exists(r)
    <2>1. PICK rec : rec = StopRequested(row[r])
      OBVIOUS
    <2>2. /\ rec.status = row[r].status /\ rec.cancel_requested
          /\ rec.started_at = row[r].started_at
      BY <2>1, MarksWrite
    <2>3. row' = [row EXCEPT ![r] = rec] /\ UNCHANGED <<api, task, pc>>
      BY <1>4, <2>1 DEF StopCommit
    <2>4. ASSUME NEW s \in Runs, s \in early', s \notin early PROVE StoppedEarly(s)'
      <3>1. s = r /\ row[r].status = "pending" /\ ~PickedUp(r)
        BY <1>4, <2>4 DEF StopCommit
      <3>2. ~row[r].started_at /\ api[r] # "none"
        BY <3>1 DEF Records, PendingIsFresh, CreatedOnce, NoRow
      <3>3. \A w \in Workers : task[w] # r
        BY <3>1, RunLifecycleAssumption DEF PickedUp, Busy
      <3>. QED BY <2>2, <2>3, <3>1, <3>2, <3>3
    <2>5. ASSUME NEW s \in Runs, s \in early PROVE StoppedEarly(s)'
      BY <2>2, <2>3, <2>5
    <2>. QED BY <2>4, <2>5
  <1>5. CASE StopCommit(r) /\ ~Exists(r)
    BY <1>5 DEF StopCommit
  <1>6. CASE DeleteWorkflow(r)
    <2>1. PICK rec : rec = [row[r] EXCEPT !.status = "deleted"]
      OBVIOUS
    <2>2. /\ rec.status = "deleted" /\ rec.cancel_requested = row[r].cancel_requested
          /\ rec.started_at = row[r].started_at
      BY <2>1 DEF Row
    <2>3. row' = [row EXCEPT ![r] = rec] /\ UNCHANGED <<api, task, pc, early>>
      BY <1>6, <2>1 DEF DeleteWorkflow
    <2>. QED BY <2>2, <2>3
  <1>. QED
    BY <1>1, <1>2, <1>3, <1>4, <1>5, <1>6 DEF ApiStep

\* The broker starts nothing.
LEMMA BrokerStepKeepsPrevented ==
    ASSUME TypeOK, Prevented, NEW w \in Workers, BrokerStep(w)
    PROVE  Prevented'
  BY RunLifecycleAssumption
  DEF apiVars, brokerVars, workerVars, held, Prevented, StoppedEarly, TypeOK, Exists,
      BrokerStep, Reserve, Redeliver, Crash, Done

\* Every executor of the run meets the stop in CheckStop.
LEMMA ExecuteRunKeepsPrevented ==
    ASSUME TypeOK, Records, Prevented, NEW w \in Workers, ExecuteRun(w)
    PROVE  Prevented'
  <1> USE RunLifecycleAssumption
      DEF apiVars, brokerVars, workerVars, held, Prevented, StoppedEarly, TypeOK, Exists,
          GoTo
  <1>0. pc[w] # "idle" => task[w] \in Runs /\ row[task[w]] \in Row
    BY BusyHasRun
  <1>1. CASE Begin(w)
    BY <1>1 DEF Begin
  <1>2. ASSUME Done(w), UNCHANGED <<row, api, early>>
        PROVE  Prevented'
    BY <1>2 DEF Done
  <1>3. ASSUME pc[w] # "idle", NEW label, GoTo(w, label), UNCHANGED <<row, api, early, task>>,
               task[w] \in early =>
                  label = "cancelling" \/ (label = "cleared" /\ ~Exists(task[w]))
        PROVE  Prevented'
    BY <1>0, <1>3
  <1>4. CASE CheckStop(w)
    BY <1>0, <1>3, <1>4 DEF CheckStop, StartLabel
  <1>5. CASE StartRun(w)
    <2>1. CASE Exists(task[w])
      <3>1. task[w] \notin early
        BY <1>0, <1>5, <2>1 DEF StartRun
      <3>. QED BY <1>0, <1>5, <2>1, <3>1 DEF StartRun
    <2>2. CASE ~Exists(task[w])
      BY <1>2, <1>5, <2>2 DEF StartRun, GiveUp
    <2>. QED BY <2>1, <2>2
  <1>6. CASE GraphFails(w) \/ NodeRaises(w)
    BY <1>0, <1>3, <1>6 DEF GraphFails, NodeRaises, ExceptionLabel
  <1>7. CASE EnterNode(w)
    BY <1>0, <1>2, <1>3, <1>7 DEF EnterNode, GiveUp
  <1>8. CASE NodeWrites(w)
    BY <1>0, <1>8 DEF NodeWrites
  <1>9. CASE NodeFlushFails(w)
    BY <1>2, <1>9 DEF NodeFlushFails, GiveUp
  <1>10. CASE MarkCompleted(w) \/ MarkFailed(w) \/ MarkCancelled(w)
    <2>1. CASE Exists(task[w]) /\ task[w] \notin early
      BY <1>0, <1>10, <2>1 DEF MarkCompleted, MarkFailed, MarkCancelled, Mark
    <2>2. CASE Exists(task[w]) /\ task[w] \in early
      <3>1. PICK rec : rec = MarkedCancelled(row[task[w]])
        OBVIOUS
      <3>2. rec.status = "cancelled" /\ rec.cancel_requested /\ ~rec.started_at
        BY <1>0, <1>10, <2>2, <3>1, MarksWrite DEF MarkCompleted, MarkFailed, MarkCancelled, Mark
      <3>3. /\ row' = [row EXCEPT ![task[w]] = rec]
            /\ pc' = [pc EXCEPT ![w] = "cancelled"]
            /\ UNCHANGED <<api, task, early>>
        BY <1>0, <1>10, <2>2, <3>1 DEF MarkCompleted, MarkFailed, MarkCancelled, Mark
      <3>. QED BY <1>0, <1>10, <2>2, <3>2, <3>3
    <2>3. CASE ~Exists(task[w])
      BY <1>2, <1>10, <2>3 DEF MarkCompleted, MarkFailed, MarkCancelled, Mark, GiveUp
    <2>. QED BY <2>1, <2>2, <2>3
  <1>11. CASE LogOutcome(w) \/ NotifyRunFailed(w)
    <2>1. CASE Done(w)
      BY <1>2, <1>11, <2>1 DEF LogOutcome, NotifyRunFailed
    <2>2. CASE GoTo(w, "notifying") /\ UNCHANGED held /\ pc[w] = "failed"
      <3>1. task[w] \notin early /\ UNCHANGED <<row, api, early, task>>
        BY <1>0, <1>11, <2>2 DEF LogOutcome, NotifyRunFailed
      <3>. QED BY <1>3, <2>2, <3>1
    <2>. QED BY <1>11, <2>1, <2>2 DEF LogOutcome, NotifyRunFailed, Announces
  <1>. QED
    BY <1>1, <1>4, <1>5, <1>6, <1>7, <1>8, <1>9, <1>10, <1>11 DEF ExecuteRun

-----------------------------------------------------------------------------
(* How many executors a run has, and what they write after its stop *)

\* How many workers f places at x.
Count(f, x) == Cardinality({w \in Workers : f[w] = x})

\* Where a worker may be: at a run, or at none.
Places == [Workers -> Runs \cup {NoRun}]

\* There are finitely many workers to count.
LEMMA CountTyped ==
    ASSUME NEW f \in Places, NEW x
    PROVE  Count(f, x) \in Nat
  <1>1. IsFiniteSet({w \in Workers : f[w] = x})
    BY FS_Subset, RunLifecycleAssumption
  <1>. QED BY <1>1, FS_CardinalityType DEF Count

\* What becomes of the number of workers at x when worker w of f is placed at y in g.
CountMoves(f, g, w, y, x) ==
    /\ f[w] = x /\ y = x => Count(g, x) = Count(f, x)
    /\ f[w] = x /\ y # x => Count(g, x) = Count(f, x) - 1
    /\ f[w] # x /\ y = x => Count(g, x) = Count(f, x) + 1
    /\ f[w] # x /\ y # x => Count(g, x) = Count(f, x)

\* Moving one worker from one place to another.
LEMMA CountWrite ==
    ASSUME NEW f \in Places, NEW w \in Workers, NEW y \in Runs \cup {NoRun},
           NEW g, g = [f EXCEPT ![w] = y], NEW x \in Runs
    PROVE  CountMoves(f, g, w, y, x)
  <1> USE DEF CountMoves
  <1> DEFINE S == {u \in Workers : f[u] = x}
             T == {u \in Workers : g[u] = x}
             rest == {u \in Workers \ {w} : f[u] = x}
  <1>1. IsFiniteSet(rest)
    BY FS_Subset, RunLifecycleAssumption
  <1>2. /\ Cardinality(rest) \in Nat
        /\ w \notin rest /\ Cardinality(rest \cup {w}) = Cardinality(rest) + 1
    BY <1>1, FS_CardinalityType, FS_AddElement
  <1>3. f[w] = x => S = rest \cup {w}
    BY DEF Places
  <1>4. f[w] # x => S = rest
    BY DEF Places
  <1>5. y = x => T = rest \cup {w}
    BY DEF Places
  <1>6. y # x => T = rest
    BY DEF Places
  <1>7. Count(f, x) = Cardinality(S) /\ Count(g, x) = Cardinality(T)
    BY DEF Count
  <1> HIDE DEF S, T, rest
  <1>8. CASE x = y /\ f[w] = x
    BY <1>3, <1>5, <1>7, <1>8
  <1>9. CASE f[w] = x /\ y # x
    <2>1. S = rest \cup {w} /\ T = rest
      BY <1>3, <1>6, <1>9
    <2>2. Cardinality(S) = Cardinality(rest) + 1 /\ Cardinality(T) = Cardinality(rest)
      BY <1>2, <2>1
    <2>3. Count(g, x) = Count(f, x) - 1
      BY <1>2, <1>7, <2>2
    <2>. QED BY <1>9, <2>3
  <1>10. CASE x = y /\ f[w] # x
    <2>1. T = rest \cup {w}
      BY <1>5, <1>10
    <2>2. Cardinality(T) = Cardinality(rest) + 1
      BY <1>2, <2>1
    <2>. QED BY <1>4, <1>7, <1>10, <2>2
  <1>11. CASE f[w] # x /\ y # x
    BY <1>4, <1>6, <1>7, <1>11
  <1>. QED BY <1>8, <1>9, <1>10, <1>11

\* The run whose node each worker is in.
InNode == [w \in Workers |-> IF pc[w] = "node" THEN task[w] ELSE NoRun]

\* A published task is about once, and once more per redelivery.
CopiesBounded(r) ==
    queued[r] + Count(reserved, r) + Count(task, r)
      <= redelivered + (IF api[r] = "published" THEN 1 ELSE 0)

Copies == \A r \in Runs : CopiesBounded(r)

\* Once the stop is recorded, a node that writes late was in progress by then; before,
\* none is late.
LateBounded(r) ==
    IF row[r].cancel_requested THEN late[r] + Count(InNode, r) <= 1 + redelivered
                               ELSE late[r] = 0

Late == \A r \in Runs : LateBounded(r)

\* Who is in a node of a run executes the run.
LEMMA InNodeIsExecuting ==
    ASSUME TypeOK, NEW r \in Runs
    PROVE  Count(InNode, r) <= Count(task, r)
  <1>1. {w \in Workers : InNode[w] = r} \subseteq {w \in Workers : task[w] = r}
    BY RunLifecycleAssumption DEF InNode
  <1>2. IsFiniteSet({w \in Workers : task[w] = r})
    BY FS_Subset, RunLifecycleAssumption
  <1>. QED BY <1>1, <1>2, FS_Subset DEF Count

\* The three ways workers are counted are well typed.
LEMMA PlacesTyped ==
    ASSUME TypeOK
    PROVE  /\ reserved \in Places /\ task \in Places /\ InNode \in Places
           /\ \A x : /\ Count(reserved, x) \in Nat
                    /\ Count(task, x) \in Nat
                    /\ Count(InNode, x) \in Nat
  <1>1. reserved \in Places /\ task \in Places /\ InNode \in Places
    BY DEF TypeOK, Places, InNode
  <1>. QED BY <1>1, CountTyped

\* Redelivery and nothing else adds a copy of a task.
LEMMA StepKeepsCopies ==
    ASSUME TypeOK, Records, Copies, [Next]_vars
    PROVE  Copies'
  <1> USE DEF apiVars, brokerVars, workerVars, held, CopiesBounded
  <1> SUFFICES ASSUME NEW s \in Runs PROVE CopiesBounded(s)'
    BY DEF Copies
  <1>1. /\ Count(reserved, s) \in Nat /\ Count(task, s) \in Nat
        /\ reserved \in Places /\ task \in Places
    BY PlacesTyped
  <1>2. /\ queued \in [Runs -> Nat] /\ redelivered \in Nat
        /\ NoRun \in Runs \cup {NoRun} /\ NoRun # s
        /\ \A w \in Workers : reserved[w] \in Runs \cup {NoRun}
    BY RunLifecycleAssumption DEF TypeOK
  <1>3. \A w \in Workers : task[w] = s \/ reserved[w] = s => api[s] = "published"
    BY DEF Records, TaskIsPublished
  <1>4. CopiesBounded(s)
    BY DEF Copies
  <1>5. ASSUME NEW r \in Runs, ApiStep(r) PROVE CopiesBounded(s)'
    <2>1. /\ UNCHANGED <<reserved, task, redelivered>>
          /\ \/ queued'[s] = queued[s] /\ (api[s] = "published" => api'[s] = "published")
             \/ queued'[s] = queued[s] + 1 /\ api[s] # "published" /\ api'[s] = "published"
      BY <1>5 DEF TypeOK, ApiStep, CreateRun, LogQueued, Publish, PublishFails,
                  ReadyToPublish, StopCheck, StopCommit, StopLog, DeleteWorkflow, DeleteAgent
    <2>. QED BY <1>1, <1>2, <1>4, <2>1
  <1>6. ASSUME NEW w \in Workers, NEW r \in Runs, Reserve(w, r) PROVE CopiesBounded(s)'
    <2>1. /\ reserved' = [reserved EXCEPT ![w] = r] /\ reserved[w] = NoRun
          /\ queued[r] > 0 /\ queued' = [queued EXCEPT ![r] = queued[r] - 1]
          /\ UNCHANGED <<api, task, redelivered>>
      BY <1>6 DEF Reserve
    <2>2. r \in Runs \cup {NoRun}
      OBVIOUS
    <2>3. CountMoves(reserved, reserved', w, r, s)
      BY <1>1, <2>1, <2>2, CountWrite, Zenon
    <2>. QED BY <1>1, <1>2, <1>4, <2>1, <2>3 DEF CountMoves
  <1>7. ASSUME NEW w \in Workers, Redeliver(w) PROVE CopiesBounded(s)'
    <2>1. /\ UNCHANGED <<reserved, task, api>> /\ redelivered' = redelivered + 1
          /\ queued'[s] \in {queued[s], queued[s] + 1}
      BY <1>7 DEF TypeOK, Redeliver
    <2>. QED BY <1>1, <1>2, <1>4, <2>1
  <1>8. ASSUME NEW w \in Workers, task' = [task EXCEPT ![w] = NoRun],
               UNCHANGED <<api, queued, reserved, redelivered>>
        PROVE  CopiesBounded(s)'
    <2>1. CountMoves(task, task', w, NoRun, s)
      BY <1>1, <1>2, <1>8, CountWrite, Zenon
    <2>. QED BY <1>1, <1>2, <1>4, <1>8, <2>1 DEF CountMoves
  <1>9. ASSUME NEW w \in Workers, Crash(w) PROVE CopiesBounded(s)'
    <2>1. /\ task' = [task EXCEPT ![w] = NoRun] /\ reserved' = [reserved EXCEPT ![w] = NoRun]
          /\ UNCHANGED <<api, redelivered>>
          /\ reserved[w] = s => queued'[s] = queued[s] + 1
          /\ reserved[w] # s => queued'[s] = queued[s]
      BY <1>2, <1>9 DEF Crash, Done
    <2>2. CountMoves(task, task', w, NoRun, s)
      BY <1>1, <1>2, <2>1, CountWrite, Zenon
    <2>3. CountMoves(reserved, reserved', w, NoRun, s)
      BY <1>1, <1>2, <2>1, CountWrite, Zenon
    <2>. QED BY <1>1, <1>2, <1>4, <2>1, <2>2, <2>3 DEF CountMoves
  <1>10. ASSUME NEW w \in Workers, Begin(w) PROVE CopiesBounded(s)'
    <2>1. /\ reserved' = [reserved EXCEPT ![w] = NoRun]
          /\ UNCHANGED <<api, queued, redelivered>>
          /\ task' = task \/ (task' = [task EXCEPT ![w] = reserved[w]] /\ task[w] = NoRun)
      BY <1>10 DEF TypeOK, Begin
    <2>2. CountMoves(reserved, reserved', w, NoRun, s)
      BY <1>1, <1>2, <2>1, CountWrite, Zenon
    <2>3. CASE task' = task
      BY <1>1, <1>2, <1>4, <2>1, <2>2, <2>3 DEF CountMoves
    <2>4. CASE task' = [task EXCEPT ![w] = reserved[w]] /\ task[w] = NoRun
      <3>1. PICK y \in Runs \cup {NoRun} : y = reserved[w]
        BY <1>2
      <3>2. task' = [task EXCEPT ![w] = y]
        BY <2>4, <3>1
      <3>3. CountMoves(task, task', w, y, s)
        BY <1>1, <3>2, CountWrite, Zenon
      <3>. QED BY <1>1, <1>2, <1>4, <2>1, <2>2, <2>4, <3>1, <3>3 DEF CountMoves
    <2>. QED BY <2>1, <2>3, <2>4
  <1>11. ASSUME NEW w \in Workers, ExecuteRun(w), ~Begin(w) PROVE CopiesBounded(s)'
    <2>1. \/ UNCHANGED <<api, queued, reserved, redelivered, task>>
          \/ UNCHANGED <<api, queued, reserved, redelivered>> /\ task' = [task EXCEPT ![w] = NoRun]
      BY <1>11
      DEF ExecuteRun, CheckStop, StartRun, GraphFails, EnterNode, NodeWrites, NodeRaises,
          NodeFlushFails, MarkCompleted, MarkFailed, MarkCancelled, Mark, LogOutcome,
          NotifyRunFailed, Done, GiveUp
    <2>. QED BY <1>4, <1>8, <2>1
  <1>. QED
    BY <1>4, <1>5, <1>6, <1>7, <1>9, <1>10, <1>11 DEF Next, BrokerStep, vars

\* What a step does to one worker leaves the other workers' nodes alone.
LEMMA InNodeMoves ==
    ASSUME TypeOK, NEW w \in Workers, NEW s \in Runs,
           pc' \in [Workers -> Labels], task' \in [Workers -> Runs \cup {NoRun}],
           \A v \in Workers \ {w} : pc'[v] = pc[v] /\ task'[v] = task[v]
    PROVE  CountMoves(InNode, InNode', w, InNode'[w], s)
  <1>1. InNode \in Places
    BY PlacesTyped
  <1>2. PICK y \in Runs \cup {NoRun} : y = InNode'[w]
    BY DEF InNode
  <1>3. InNode' = [InNode EXCEPT ![w] = y]
    BY <1>2 DEF InNode
  <1>4. CountMoves(InNode, InNode', w, y, s)
    BY <1>1, <1>3, CountWrite, Zenon
  <1>. QED BY <1>2, <1>4

\* A step in which worker w enters no node and nobody else moves.
LEMMA NoNodeEntered ==
    ASSUME TypeOK, TypeOK', NEW w \in Workers, NEW s \in Runs,
           \A v \in Workers \ {w} : pc'[v] = pc[v] /\ task'[v] = task[v],
           pc'[w] # "node" \/ (pc'[w] = pc[w] /\ task'[w] = task[w])
    PROVE  /\ Count(InNode, s)' <= Count(InNode, s)
           /\ InNode[w] = s /\ pc'[w] # "node" => Count(InNode, s)' = Count(InNode, s) - 1
  <1>1. CountMoves(InNode, InNode', w, InNode'[w], s)
    BY InNodeMoves DEF TypeOK
  <1>2. InNode'[w] = InNode[w] \/ (InNode'[w] = NoRun /\ NoRun # s)
    BY RunLifecycleAssumption DEF InNode
  <1>3. Count(InNode, s) \in Nat
    BY PlacesTyped
  <1>4. pc'[w] # "node" => InNode'[w] # s
    BY RunLifecycleAssumption DEF InNode
  <1>. QED BY <1>1, <1>2, <1>3, <1>4 DEF CountMoves

\* Where a worker is after a move, and that the others have stayed.
LEMMA WorkerMoves ==
    ASSUME TypeOK, NEW w \in Workers
    PROVE  /\ Done(w) => /\ pc'[w] = "idle"
                         /\ \A v \in Workers \ {w} : pc'[v] = pc[v] /\ task'[v] = task[v]
           /\ \A label : GoTo(w, label) => /\ pc'[w] = label
                                           /\ \A v \in Workers \ {w} : pc'[v] = pc[v]
  <1>1. pc \in [Workers -> Labels] /\ task \in [Workers -> Runs \cup {NoRun}]
    BY DEF TypeOK
  <1>. QED BY <1>1 DEF Done, GoTo

\* Nothing but NodeWrites adds to late, nothing but StopCommit and MarkCancelled asks.
LEMMA StepKeepsLate ==
    ASSUME TypeOK, TypeOK', Records, Copies, Late, [Next]_vars
    PROVE  Late'
  <1> USE DEF apiVars, brokerVars, workerVars, held
  <1> SUFFICES ASSUME NEW s \in Runs PROVE LateBounded(s)'
    BY DEF Late
  <1>1. /\ Count(InNode, s) \in Nat /\ Count(InNode, s)' \in Nat
        /\ late[s] \in Nat /\ redelivered \in Nat /\ redelivered' \in Nat
        /\ row[s] \in Row /\ row'[s] \in Row
    <2>1. InNode' \in Places
      BY DEF TypeOK, Places, InNode
    <2>. QED BY <2>1, PlacesTyped, CountTyped DEF TypeOK
  <1>2. LateBounded(s)
    BY DEF Late
  <1>3. Count(InNode, s) <= 1 + redelivered
    <2>1. /\ Count(reserved, s) \in Nat /\ Count(task, s) \in Nat /\ queued[s] \in Nat
      BY PlacesTyped DEF TypeOK
    <2>2. queued[s] + Count(reserved, s) + Count(task, s) <= redelivered + 1
      BY <1>1, <2>1 DEF Copies, CopiesBounded
    <2>. QED BY <1>1, <2>1, <2>2, InNodeIsExecuting
  <1>4. ASSUME late'[s] = late[s], redelivered' >= redelivered,
               row[s].cancel_requested => Count(InNode, s)' <= Count(InNode, s),
               row[s].cancel_requested => row'[s].cancel_requested,
               \/ row'[s].cancel_requested => row[s].cancel_requested
               \/ Count(InNode, s)' = Count(InNode, s)
        PROVE  LateBounded(s)'
    BY <1>1, <1>2, <1>3, <1>4 DEF LateBounded
  <1>5. ASSUME NEW r \in Runs, ApiStep(r) PROVE LateBounded(s)'
    <2>1. UNCHANGED <<pc, task, late, redelivered>>
      BY <1>5 DEF ApiStep, CreateRun, LogQueued, Publish, PublishFails, StopCheck, StopCommit,
                  StopLog, DeleteWorkflow, DeleteAgent
    <2>2. Count(InNode, s)' = Count(InNode, s)
      BY <2>1 DEF InNode, Count
    <2>3. row[s].cancel_requested => row'[s].cancel_requested
      <3>1. CASE row' = row
        BY <3>1
      <3>2. ASSUME NEW by \in {"manual", "telegram", "conversation"}, CreateRun(r, by)
            PROVE  row'[s].cancel_requested = row[s].cancel_requested
        BY <1>1, <3>2 DEF CreateRun, TypeOK, Row
      <3>3. CASE DeleteWorkflow(r)
        BY <1>1, <3>3 DEF DeleteWorkflow, TypeOK, Row
      <3>4. CASE StopCommit(r)
        BY <1>1, <3>4, MarksWrite DEF StopCommit, TypeOK
      <3>. QED
        BY <1>5, <3>1, <3>2, <3>3, <3>4
        DEF ApiStep, LogQueued, Publish, PublishFails, StopCheck, StopLog, DeleteAgent
    <2>. QED BY <1>1, <1>4, <2>1, <2>2, <2>3
  <1>6. ASSUME NEW w \in Workers, BrokerStep(w) PROVE LateBounded(s)'
    <2>1. UNCHANGED <<row, late>> /\ redelivered' >= redelivered
      BY <1>1, <1>6 DEF BrokerStep, Reserve, Redeliver, Crash
    <2>2. /\ \A v \in Workers \ {w} : pc'[v] = pc[v] /\ task'[v] = task[v]
          /\ pc'[w] # "node" \/ (pc'[w] = pc[w] /\ task'[w] = task[w])
      <3>1. UNCHANGED <<pc, task>> \/ Done(w)
        BY <1>6 DEF BrokerStep, Reserve, Redeliver, Crash
      <3>. QED BY <3>1, WorkerMoves
    <2>3. Count(InNode, s)' <= Count(InNode, s)
      BY <2>2, NoNodeEntered
    <2>. QED BY <1>1, <1>4, <2>1, <2>3
  <1>7. ASSUME NEW w \in Workers, ExecuteRun(w) PROVE LateBounded(s)'
    <2>1. /\ redelivered' = redelivered
          /\ \A v \in Workers \ {w} : pc'[v] = pc[v] /\ task'[v] = task[v]
      BY <1>7
      DEF TypeOK, ExecuteRun, Begin, CheckStop, StartRun, GraphFails, EnterNode, NodeWrites,
          NodeRaises, NodeFlushFails, MarkCompleted, MarkFailed, MarkCancelled, Mark,
          LogOutcome, NotifyRunFailed, Done, GiveUp, GoTo
    <2>2. row'[s].cancel_requested = row[s].cancel_requested
      <3>1. CASE UNCHANGED row
        BY <3>1
      <3>2. ASSUME NEW rec, row' = [row EXCEPT ![task[w]] = rec],
                   rec.cancel_requested = row[task[w]].cancel_requested
            PROVE  <2>2
        BY <3>2 DEF TypeOK
      <3>3. pc[w] # "idle" => task[w] \in Runs /\ row[task[w]] \in Row
        BY BusyHasRun DEF TypeOK
      <3>4. CASE StartRun(w)
        BY <3>1, <3>2, <3>3, <3>4, MarksWrite DEF StartRun
      <3>5. CASE MarkCompleted(w)
        BY <3>1, <3>2, <3>3, <3>5, MarksWrite DEF MarkCompleted, Mark
      <3>6. CASE MarkFailed(w)
        BY <3>1, <3>2, <3>3, <3>6, MarksWrite DEF MarkFailed, Mark
      <3>7. CASE MarkCancelled(w)
        <4>1. row[task[w]].cancel_requested = TRUE
          BY <3>3, <3>7 DEF MarkCancelled, Mark, Records, CancellerIsAsked, Row
        <4>2. MarkedCancelled(row[task[w]]).cancel_requested = TRUE
          BY <3>3, <3>7 DEF MarkCancelled, Mark, MarkedCancelled, Row
        <4>. QED BY <3>1, <3>2, <3>7, <4>1, <4>2 DEF MarkCancelled, Mark
      <3>. QED
        BY <1>7, <3>1, <3>4, <3>5, <3>6, <3>7
        DEF ExecuteRun, Begin, CheckStop, GraphFails, EnterNode, NodeWrites, NodeRaises,
            NodeFlushFails, LogOutcome, NotifyRunFailed
    <2>3. CASE NodeWrites(w)
      <3>1. /\ task[w] \in Runs /\ pc[w] = "node" /\ pc'[w] # "node"
            /\ late'[s] = IF s = task[w] /\ row[s].cancel_requested THEN late[s] + 1 ELSE late[s]
        BY <2>3, BusyHasRun DEF NodeWrites, GoTo, TypeOK
      <3>2. /\ Count(InNode, s)' <= Count(InNode, s)
            /\ s = task[w] => Count(InNode, s)' = Count(InNode, s) - 1
        <4>1. s = task[w] => InNode[w] = s
          BY <3>1 DEF InNode
        <4>2. pc'[w] # "node"
          BY <3>1
        <4>3. /\ Count(InNode, s)' <= Count(InNode, s)
              /\ InNode[w] = s /\ pc'[w] # "node" => Count(InNode, s)' = Count(InNode, s) - 1
          BY <2>1, <4>2, NoNodeEntered
        <4>. QED BY <4>1, <4>2, <4>3
      <3>. QED BY <1>1, <1>2, <2>1, <2>2, <3>1, <3>2 DEF LateBounded
    <2>4. CASE EnterNode(w) /\ pc'[w] = "node"
      <3>1. task[w] \in Runs /\ ~row[task[w]].cancel_requested /\ late' = late
        BY <2>4, BusyHasRun DEF EnterNode, NodeLabel, GoTo, GiveUp, Done, TypeOK
      <3>2. CASE s = task[w]
        BY <1>1, <1>2, <2>2, <3>1, <3>2 DEF LateBounded
      <3>3. CASE s # task[w]
        <4>1. CountMoves(InNode, InNode', w, InNode'[w], s)
          BY <2>1, InNodeMoves DEF TypeOK
        <4>2. InNode[w] # s /\ InNode'[w] # s
          BY <2>4, <3>3, RunLifecycleAssumption DEF InNode, EnterNode, GiveUp, Done, TypeOK
        <4>3. Count(InNode, s)' = Count(InNode, s)
          BY <4>1, <4>2 DEF CountMoves
        <4>. QED BY <1>1, <1>4, <2>1, <2>2, <3>1, <4>3
      <3>. QED BY <3>2, <3>3
    <2>5. CASE ~NodeWrites(w) /\ ~(EnterNode(w) /\ pc'[w] = "node")
      <3>1. late' = late /\ (pc'[w] # "node" \/ (pc'[w] = pc[w] /\ task'[w] = task[w]))
        <4>1. CASE Begin(w)
          BY <4>1, WorkerMoves DEF Begin
        <4>2. CASE CheckStop(w)
          BY <4>2, WorkerMoves DEF CheckStop, StartLabel
        <4>3. CASE StartRun(w) \/ EnterNode(w) \/ NodeFlushFails(w)
          BY <2>5, <4>3, WorkerMoves DEF StartRun, EnterNode, NodeFlushFails, GiveUp
        <4>4. CASE GraphFails(w) \/ NodeRaises(w)
          BY <4>4, WorkerMoves DEF GraphFails, NodeRaises, ExceptionLabel
        <4>5. CASE MarkCompleted(w) \/ MarkFailed(w) \/ MarkCancelled(w)
          BY <4>5, WorkerMoves DEF MarkCompleted, MarkFailed, MarkCancelled, Mark, GiveUp
        <4>6. CASE LogOutcome(w) \/ NotifyRunFailed(w)
          BY <4>6, WorkerMoves DEF LogOutcome, NotifyRunFailed
        <4>. QED BY <1>7, <2>5, <4>1, <4>2, <4>3, <4>4, <4>5, <4>6 DEF ExecuteRun
      <3>2. Count(InNode, s)' <= Count(InNode, s)
        BY <2>1, <3>1, NoNodeEntered
      <3>. QED BY <1>1, <1>4, <2>1, <2>2, <3>1, <3>2
    <2>. QED BY <2>3, <2>4, <2>5
  <1>8. CASE UNCHANGED vars
    <2>1. Count(InNode, s)' = Count(InNode, s) /\ UNCHANGED <<late, redelivered, row>>
      BY <1>8 DEF InNode, Count, vars
    <2>. QED BY <1>1, <1>4, <2>1
  <1>. QED
    BY <1>5, <1>6, <1>7, <1>8 DEF Next

-----------------------------------------------------------------------------
(* The invariant and what follows from it *)

RunInv == TypeOK /\ Records /\ Settlers /\ Prevented /\ Copies /\ Late

\* At the start there is no run, and nobody does anything.
LEMMA InitIsInvariant == Init => RunInv
  <1> SUFFICES ASSUME Init PROVE RunInv
    OBVIOUS
  <1>1. TypeOK
    BY InitIsTyped
  <1>2. Records
    BY RunLifecycleAssumption
    DEF Init, NoRow, Records, CreatedOnce, TaskIsPublished, ChatIsLogged, StopIsLogged,
        PendingIsFresh, CancelIsAsked, CancellerIsAsked, Exists
  <1>3. Settlers /\ Prevented
    BY DEF Init, NoRow, Settlers, HasSettler, Active, RunActiveStatuses, Prevented,
           StoppedEarly
  <1>4. Copies
    <2>1. ASSUME NEW r \in Runs PROVE CopiesBounded(r)
      <3>1. \A w \in Workers : reserved[w] # r /\ task[w] # r
        BY RunLifecycleAssumption DEF Init
      <3>2. {w \in Workers : reserved[w] = r} = {} /\ {w \in Workers : task[w] = r} = {}
        BY <3>1
      <3>3. Count(reserved, r) = 0 /\ Count(task, r) = 0
        BY <3>2, FS_EmptySet DEF Count
      <3>. QED BY <3>3 DEF Init, CopiesBounded
    <2>. QED BY <2>1 DEF Copies
  <1>5. Late
    BY DEF Init, NoRow, Late, LateBounded
  <1>. QED BY <1>1, <1>2, <1>3, <1>4, <1>5 DEF RunInv

LEMMA StepKeepsInvariant == RunInv /\ [Next]_vars => RunInv'
  <1> SUFFICES ASSUME RunInv, [Next]_vars PROVE RunInv'
    OBVIOUS
  <1> USE DEF RunInv
  <1>1. TypeOK'
    BY StepKeepsTypes
  <1>2. Copies' /\ Late'
    BY <1>1, StepKeepsCopies, StepKeepsLate
  <1>3. ASSUME NEW r \in Runs, ApiStep(r) PROVE Records' /\ Settlers' /\ Prevented'
    BY <1>3, ApiStepKeepsRecords, ApiStepKeepsSettlers, ApiStepKeepsPrevented
  <1>4. ASSUME NEW w \in Workers, BrokerStep(w) PROVE Records' /\ Settlers' /\ Prevented'
    BY <1>4, BrokerStepKeepsRecords, BrokerStepKeepsSettlers, BrokerStepKeepsPrevented
  <1>5. ASSUME NEW w \in Workers, ExecuteRun(w) PROVE Records' /\ Settlers' /\ Prevented'
    BY <1>5, ExecuteRunKeepsRecords, ExecuteRunKeepsSettlers, ExecuteRunKeepsPrevented
  <1>6. CASE UNCHANGED vars
    <2> USE <1>6 DEF vars, apiVars, brokerVars, workerVars, held
    <2>1. Records'
      BY DEF Records, CreatedOnce, TaskIsPublished, ChatIsLogged, StopIsLogged,
             PendingIsFresh, CancelIsAsked, CancellerIsAsked, Exists
    <2>2. Settlers'
      BY DEF Settlers, HasSettler, Active, Unpublished, Queued, Reserved, Executing
    <2>3. Prevented'
      BY DEF Prevented, StoppedEarly, Exists
    <2>. QED BY <1>1, <1>2, <2>1, <2>2, <2>3
  <1>. QED
    BY <1>1, <1>2, <1>3, <1>4, <1>5, <1>6 DEF Next

\* RunInv holds in every reachable state, whatever crashes, redeliveries, stops and
\* deletes happen.
THEOREM RunInvariant == Spec => []RunInv
  BY InitIsInvariant, StepKeepsInvariant, PTL DEF Spec

\* ActiveRunIsInFlight: nothing enqueued is ever dropped silently, even when the broker
\* delivers twice and workers crash.
THEOREM ActiveRunsAreInFlight == Spec => []ActiveRunIsInFlight
  <1>1. RunInv => ActiveRunIsInFlight
    BY DEF RunInv, Settlers, HasSettler, Queued, Reserved, Executing, BeforeMark,
           ActiveRunIsInFlight, InFlight, PickedUp, Busy
  <1>. QED BY <1>1, RunInvariant, PTL

\* EarlyStopNeverStarts: a run stopped before anybody picked it up never starts, in any
\* copy of its task.
THEOREM EarlyStopsPreventTheStart == Spec => []EarlyStopNeverStarts
  <1>1. RunInv => EarlyStopNeverStarts
    BY DEF RunInv, TypeOK, Prevented, StoppedEarly, EarlyStopNeverStarts
  <1>. QED BY <1>1, RunInvariant, PTL

\* CancelledOnlyIfAsked: a run that shows cancelled has the user's stop in its log, or its
\* request is about to log it.
THEOREM CancelledRunsWereAsked == Spec => []CancelledOnlyIfAsked
  <1>1. RunInv => CancelledOnlyIfAsked
    BY DEF RunInv, Records, CancelIsAsked, StopIsLogged, Exists, CancelledOnlyIfAsked
  <1>. QED BY <1>1, RunInvariant, PTL

\* ChatIsKnown: whoever executes a run finds the entry with its Telegram chat.
THEOREM ExecutorsKnowTheChat == Spec => []ChatIsKnown
  <1>1. RunInv => ChatIsKnown
    BY BusyHasRun DEF RunInv, Records, TaskIsPublished, ChatIsLogged, ChatIsKnown
  <1>. QED BY <1>1, RunInvariant, PTL

\* StopIsPrompt: after a stop at most one node per copy of the task still writes.
THEOREM StopsArePrompt == Spec => []StopIsPrompt
  <1>1. RunInv => StopIsPrompt
    <2> SUFFICES ASSUME RunInv, NEW r \in Runs PROVE late[r] <= 1 + redelivered
      BY DEF StopIsPrompt
    <2>1. late[r] \in Nat /\ redelivered \in Nat /\ Count(InNode, r) \in Nat
      BY PlacesTyped DEF RunInv, TypeOK
    <2>. QED BY <2>1 DEF RunInv, Late, LateBounded
  <1>. QED BY <1>1, RunInvariant, PTL

-----------------------------------------------------------------------------
(* Single delivery *)

Inv == TypeOK /\ DeliveredOnce /\ ExecutorOwnsRow

-----------------------------------------------------------------------------
(* One place per task *)

\* A step that moves no task keeps each task in its one place.
LEMMA NoTaskMoves ==
    ASSUME DeliveredOnce, UNCHANGED <<api, queued, reserved, task>>
    PROVE  DeliveredOnce'
  BY DEF DeliveredOnce, AwayFromQueue, Unpublished

\* A worker that ends its task leaves the other tasks where they are.
LEMMA DoneKeepsDelivery ==
    ASSUME TypeOK, DeliveredOnce, NEW w \in Workers, Done(w),
           UNCHANGED <<api, queued, reserved>>
    PROVE  DeliveredOnce'
  <1>1. task' = [task EXCEPT ![w] = NoRun]
    BY DEF Done
  <1>. QED
    BY <1>1 DEF TypeOK, DeliveredOnce, AwayFromQueue, Unpublished

LEMMA ApiStepDeliversOnce ==
    ASSUME TypeOK, DeliveredOnce, NEW r \in Runs, ApiStep(r)
    PROVE  DeliveredOnce'
  <1> USE DEF apiVars, brokerVars, workerVars, held
  <1>1. ASSUME NEW by \in {"manual", "telegram", "conversation"}, CreateRun(r, by)
        PROVE  DeliveredOnce'
    BY <1>1 DEF TypeOK, DeliveredOnce, AwayFromQueue, Unpublished, CreateRun
  <1>2. CASE LogQueued(r)
    BY <1>2 DEF TypeOK, DeliveredOnce, AwayFromQueue, Unpublished, LogQueued
  <1>3. CASE Publish(r)
    BY <1>3 DEF TypeOK, DeliveredOnce, AwayFromQueue, Unpublished, Publish,
                ReadyToPublish
  <1>4. CASE PublishFails(r)
    BY <1>4 DEF TypeOK, DeliveredOnce, AwayFromQueue, Unpublished, PublishFails
  <1>5. CASE StopCheck(r) \/ StopCommit(r) \/ StopLog(r)
    BY <1>5, NoTaskMoves DEF StopCheck, StopCommit, StopLog
  <1>6. CASE DeleteWorkflow(r) \/ DeleteAgent(r)
    BY <1>6, NoTaskMoves DEF DeleteWorkflow, DeleteAgent
  <1>. QED
    BY <1>1, <1>2, <1>3, <1>4, <1>5, <1>6 DEF ApiStep

LEMMA BrokerStepDeliversOnce ==
    ASSUME MaxRedeliveries = 0, TypeOK, DeliveredOnce,
           NEW w \in Workers, BrokerStep(w)
    PROVE  DeliveredOnce'
  <1> USE RunLifecycleAssumption DEF apiVars, brokerVars, workerVars, held
  <1>1. ASSUME NEW r \in Runs, Reserve(w, r)
        PROVE  DeliveredOnce'
    BY <1>1 DEF TypeOK, DeliveredOnce, AwayFromQueue, Unpublished, Reserve
  <1>2. ~Redeliver(w)
    BY DEF TypeOK, Redeliver
  <1>3. CASE Crash(w)
    <2>1. CASE reserved[w] = NoRun
      <3>1. UNCHANGED <<api, queued, reserved>> /\ Done(w)
        BY <1>3, <2>1 DEF TypeOK, Crash
      <3>. QED BY <3>1, DoneKeepsDelivery
    <2>2. CASE reserved[w] # NoRun
      <3>1. /\ queued' = [queued EXCEPT ![reserved[w]] = @ + 1]
            /\ reserved' = [reserved EXCEPT ![w] = NoRun]
            /\ task' = [task EXCEPT ![w] = NoRun]
            /\ api' = api
        BY <1>3, <2>2 DEF Crash, Done
      <3>2. reserved[w] \in Runs
        BY <2>2 DEF TypeOK
      <3>. QED
        BY <2>2, <3>1, <3>2 DEF TypeOK, DeliveredOnce, AwayFromQueue, Unpublished
    <2>. QED BY <2>1, <2>2
  <1>. QED
    BY <1>1, <1>2, <1>3 DEF BrokerStep

LEMMA ExecuteRunDeliversOnce ==
    ASSUME TypeOK, DeliveredOnce, NEW w \in Workers, ExecuteRun(w)
    PROVE  DeliveredOnce'
  <1> USE DEF apiVars, brokerVars, workerVars, held
  <1>1. CASE Begin(w)
    <2>1. CASE MayExecute(reserved[w])
      <3>1. /\ reserved' = [reserved EXCEPT ![w] = NoRun]
            /\ task' = [task EXCEPT ![w] = reserved[w]]
            /\ UNCHANGED <<api, queued>>
            /\ reserved[w] \in Runs
            /\ task[w] = NoRun
        BY <1>1, <2>1 DEF TypeOK, Begin
      <3>. QED
        BY <3>1, RunLifecycleAssumption
        DEF TypeOK, DeliveredOnce, AwayFromQueue, Unpublished
    <2>2. CASE ~MayExecute(reserved[w])
      BY <1>1, <2>2, RunLifecycleAssumption
      DEF TypeOK, DeliveredOnce, AwayFromQueue, Unpublished, Begin
    <2>. QED BY <2>1, <2>2
  <1>2. CASE CheckStop(w) \/ GraphFails(w) \/ NodeWrites(w) \/ NodeRaises(w)
    BY <1>2, NoTaskMoves DEF CheckStop, GraphFails, NodeWrites, NodeRaises
  <1>3. CASE StartRun(w) \/ EnterNode(w) \/ NodeFlushFails(w)
    BY <1>3, NoTaskMoves, DoneKeepsDelivery
    DEF StartRun, EnterNode, NodeFlushFails, GiveUp
  <1>4. CASE MarkCompleted(w) \/ MarkFailed(w) \/ MarkCancelled(w)
    BY <1>4, NoTaskMoves, DoneKeepsDelivery
    DEF MarkCompleted, MarkFailed, MarkCancelled, Mark, GiveUp
  <1>5. CASE LogOutcome(w) \/ NotifyRunFailed(w)
    BY <1>5, NoTaskMoves, DoneKeepsDelivery DEF LogOutcome, NotifyRunFailed
  <1>. QED
    BY <1>1, <1>2, <1>3, <1>4, <1>5 DEF ExecuteRun

-----------------------------------------------------------------------------
(* The executor's view of the row *)

\* An idle worker claims nothing.
LEMMA IdleOwnsNothing ==
    ASSUME NEW v \in Workers, pc'[v] = "idle"
    PROVE  OwnsRow(v)'
  BY DEF OwnsRow, Settled

\* A claim survives a step that leaves the worker alone and at most deletes the row
\* or records a stop in it.
LEMMA ClaimSurvives ==
    ASSUME NEW v \in Workers, OwnsRow(v),
           pc'[v] = pc[v], task'[v] = task[v], seen'[v] = seen[v],
           row'[task[v]].status \in {row[task[v]].status, "deleted"},
           row[task[v]].cancel_requested => row'[task[v]].cancel_requested
    PROVE  OwnsRow(v)'
  BY DEF OwnsRow

\* A step of one worker that writes at most the row of its own run leaves the claims
\* of the others as they are: they execute other runs.
LEMMA OthersKeepClaims ==
    ASSUME TypeOK, DeliveredOnce, ExecutorOwnsRow, NEW w \in Workers,
           pc[w] # "idle",
           \A v \in Workers \ {w} :
               pc'[v] = pc[v] /\ task'[v] = task[v] /\ seen'[v] = seen[v],
           \A r \in Runs \ {task[w]} : row'[r] = row[r]
    PROVE  \A v \in Workers \ {w} : OwnsRow(v)'
  <1> SUFFICES ASSUME NEW v \in Workers \ {w} PROVE OwnsRow(v)'
    OBVIOUS
  <1>1. CASE pc[v] = "idle"
    BY <1>1, IdleOwnsNothing
  <1>2. CASE pc[v] # "idle"
    <2>1. task[v] \in Runs /\ task[v] # NoRun /\ task[v] # task[w]
      BY <1>2, BusyHasRun, RunLifecycleAssumption DEF DeliveredOnce
    <2>2. row'[task[v]] = row[task[v]]
      BY <2>1
    <2>. QED
      BY <2>2, ClaimSurvives DEF ExecutorOwnsRow
  <1>. QED BY <1>1, <1>2

\* A run being executed has been created: its row is not the initial one.
LEMMA ExecutedIsCreated ==
    ASSUME TypeOK, DeliveredOnce, NEW w \in Workers, pc[w] # "idle"
    PROVE  api[task[w]] = "published"
  BY BusyHasRun, RunLifecycleAssumption DEF DeliveredOnce, AwayFromQueue

LEMMA ApiStepKeepsClaims ==
    ASSUME TypeOK, DeliveredOnce, ExecutorOwnsRow, NEW r \in Runs, ApiStep(r)
    PROVE  ExecutorOwnsRow'
  <1> USE DEF apiVars, brokerVars, workerVars, held
  <1>1. UNCHANGED <<pc, task, seen>>
    BY DEF ApiStep, CreateRun, LogQueued, Publish, PublishFails, StopCheck,
           StopCommit, StopLog, DeleteWorkflow, DeleteAgent
  <1>2. /\ \A s \in Runs : api'[s] = "none" => api[s] = "none" /\ row'[s] = row[s]
        /\ \A s \in Runs : api[s] = "published" =>
              /\ row'[s].status \in {row[s].status, "deleted"}
              /\ row[s].cancel_requested => row'[s].cancel_requested
    <2>1. ASSUME NEW by \in {"manual", "telegram", "conversation"}, CreateRun(r, by)
          PROVE  <1>2
      BY <2>1 DEF TypeOK, CreateRun
    <2>2. CASE LogQueued(r) \/ Publish(r) \/ PublishFails(r)
      BY <2>2 DEF TypeOK, LogQueued, Publish, PublishFails, ReadyToPublish
    <2>3. CASE StopCheck(r) \/ StopLog(r) \/ DeleteAgent(r)
      BY <2>3 DEF StopCheck, StopLog, DeleteAgent
    <2>4. CASE StopCommit(r)
      <3>1. CASE Exists(r)
        <4>1. api[r] # "none"
          BY <3>1 DEF Exists, ExecutorOwnsRow
        <4>2. api' = api /\ row' = [row EXCEPT ![r] = StopRequested(row[r])]
          BY <2>4, <3>1 DEF StopCommit, Exists
        <4>3. /\ StopRequested(row[r]).status = row[r].status
              /\ StopRequested(row[r]).cancel_requested = TRUE
          BY DEF StopRequested, TypeOK, Row
        <4>. QED BY <4>1, <4>2, <4>3 DEF TypeOK
      <3>2. CASE ~Exists(r)
        BY <2>4, <3>2 DEF StopCommit
      <3>. QED BY <3>1, <3>2
    <2>5. CASE DeleteWorkflow(r)
      <3>1. api[r] # "none" /\ api' = api
        BY <2>5 DEF DeleteWorkflow, Exists, ExecutorOwnsRow
      <3>2. row' = [row EXCEPT ![r].status = "deleted"]
        BY <2>5 DEF DeleteWorkflow
      <3>. QED BY <3>1, <3>2 DEF TypeOK, Row
    <2>. QED BY <2>1, <2>2, <2>3, <2>4, <2>5 DEF ApiStep
  <1>3. ASSUME NEW v \in Workers PROVE OwnsRow(v)'
    <2>1. CASE pc[v] = "idle"
      BY <1>1, <2>1, IdleOwnsNothing
    <2>2. CASE pc[v] # "idle"
      BY <1>1, <1>2, <2>2, BusyHasRun, ExecutedIsCreated, ClaimSurvives
      DEF ExecutorOwnsRow
    <2>. QED BY <2>1, <2>2
  <1>. QED
    BY <1>2, <1>3 DEF ExecutorOwnsRow

LEMMA BrokerStepKeepsClaims ==
    ASSUME TypeOK, ExecutorOwnsRow, NEW w \in Workers, BrokerStep(w)
    PROVE  ExecutorOwnsRow'
  <1> USE DEF apiVars, brokerVars, workerVars, held
  <1>1. UNCHANGED <<row, api>>
    BY DEF BrokerStep, Reserve, Redeliver, Crash
  <1>2. ASSUME NEW v \in Workers PROVE OwnsRow(v)'
    <2>1. \/ UNCHANGED <<pc, task, seen>>
          \/ Done(w)
      BY DEF BrokerStep, Reserve, Redeliver, Crash
    <2>2. CASE UNCHANGED <<pc, task, seen>>
      BY <1>1, <2>2, ClaimSurvives DEF ExecutorOwnsRow
    <2>3. CASE Done(w) /\ v = w
      BY <2>3, IdleOwnsNothing DEF TypeOK, Done
    <2>4. CASE Done(w) /\ v # w
      <3>1. pc'[v] = pc[v] /\ task'[v] = task[v] /\ seen'[v] = seen[v]
        BY <2>4 DEF TypeOK, Done
      <3>. QED
        BY <1>1, <3>1, ClaimSurvives DEF ExecutorOwnsRow
    <2>. QED BY <2>1, <2>2, <2>3, <2>4
  <1>. QED
    BY <1>1, <1>2 DEF ExecutorOwnsRow

\* Every step of execute_run keeps the worker's own claim and the others'.
LEMMA ExecuteRunKeepsClaims ==
    ASSUME TypeOK, DeliveredOnce, ExecutorOwnsRow, NEW w \in Workers, ExecuteRun(w)
    PROVE  ExecutorOwnsRow'
  <1> USE DEF apiVars, brokerVars, workerVars, held
  <1>0. pc[w] # "idle" => task[w] \in Runs /\ api[task[w]] = "published"
    BY BusyHasRun, ExecutedIsCreated
  <1>1. /\ api' = api
        /\ \A r \in Runs : api[r] = "none" => row'[r] = row[r]
    <2>1. api' = api
      BY DEF ExecuteRun, Begin, CheckStop, StartRun, GraphFails, EnterNode, NodeWrites,
             NodeRaises, NodeFlushFails, MarkCompleted, MarkFailed, MarkCancelled, Mark,
             LogOutcome, NotifyRunFailed
    <2>2. \/ row' = row
          \/ pc[w] # "idle" /\ \E rec : row' = [row EXCEPT ![task[w]] = rec]
      BY DEF ExecuteRun, Begin, CheckStop, StartRun, GraphFails, EnterNode, NodeWrites,
             NodeRaises, NodeFlushFails, MarkCompleted, MarkFailed, MarkCancelled, Mark,
             LogOutcome, NotifyRunFailed, Settled
    <2>. QED BY <1>0, <2>1, <2>2 DEF TypeOK
  <1>2. ASSUME pc[w] # "idle",
               \A v \in Workers \ {w} :
                   pc'[v] = pc[v] /\ task'[v] = task[v] /\ seen'[v] = seen[v],
               \A r \in Runs \ {task[w]} : row'[r] = row[r],
               OwnsRow(w)'
        PROVE  ExecutorOwnsRow'
    <2>1. \A v \in Workers \ {w} : OwnsRow(v)'
      BY <1>2, OthersKeepClaims
    <2>. QED
      BY <1>1, <1>2, <2>1 DEF ExecutorOwnsRow
  <1>3. ASSUME Done(w), row' = row, pc[w] # "idle"
        PROVE  ExecutorOwnsRow'
    <2>1. \A v \in Workers \ {w} :
              pc'[v] = pc[v] /\ task'[v] = task[v] /\ seen'[v] = seen[v]
      BY <1>3 DEF TypeOK, Done
    <2>2. OwnsRow(w)'
      BY <1>3, IdleOwnsNothing DEF TypeOK, Done
    <2>. QED
      BY <1>2, <1>3, <2>1, <2>2
  <1>4. ASSUME NEW label, GoTo(w, label), UNCHANGED <<task, seen>>, pc[w] # "idle",
               \A r \in Runs \ {task[w]} : row'[r] = row[r],
               pc'[w] = label => OwnsRow(w)'
        PROVE  ExecutorOwnsRow'
    BY <1>2, <1>4 DEF TypeOK, GoTo
  <1>5. CASE Begin(w)
    <2>1. CASE MayExecute(reserved[w])
      <3>1. /\ pc' = [pc EXCEPT ![w] = "begun"]
            /\ task' = [task EXCEPT ![w] = reserved[w]]
            /\ seen' = [seen EXCEPT ![w] = row[reserved[w]].status]
            /\ row' = row
        BY <1>5, <2>1 DEF Begin, GoTo
      <3>2. \A v \in Workers \ {w} : OwnsRow(v)'
        BY <3>1, ClaimSurvives DEF TypeOK, ExecutorOwnsRow
      <3>3. OwnsRow(w)'
        BY <3>1 DEF TypeOK, OwnsRow, Settled
      <3>. QED
        BY <1>1, <3>1, <3>2, <3>3 DEF ExecutorOwnsRow
    <2>2. CASE ~MayExecute(reserved[w])
      BY <1>1, <1>5, <2>2, ClaimSurvives DEF Begin, ExecutorOwnsRow
    <2>. QED BY <2>1, <2>2
  <1>6. CASE CheckStop(w)
    <2>1. StartLabel(task[w]) = "cleared" \/ /\ StartLabel(task[w]) = "cancelling"
                                             /\ row[task[w]].cancel_requested
      BY DEF StartLabel
    <2>2. row[task[w]].status \in {seen[w], "deleted"}
      BY <1>6 DEF CheckStop, ExecutorOwnsRow, OwnsRow
    <2>3. seen[w] \in {"none", "pending", "running"}
      BY DEF TypeOK
    <2>4. seen[w] # "none" \/ row[task[w]].status # seen[w]
      BY <1>0, <1>6 DEF TypeOK, CheckStop, Row, Statuses, RunActiveStatuses, Settled
    <2>. QED
      BY <1>4, <1>6, <2>1, <2>2, <2>3, <2>4 DEF CheckStop, OwnsRow, Settled
  <1>7. CASE StartRun(w)
    <2>1. CASE Exists(task[w])
      <3>1. row[task[w]].status = seen[w] /\ seen[w] \in {"pending", "running"}
        BY <1>0, <1>7, <2>1
        DEF TypeOK, StartRun, Exists, ExecutorOwnsRow, OwnsRow, Row, Statuses,
            RunActiveStatuses, Settled
      <3>2. MarkedRunning(row[task[w]]).status = "running"
        BY <1>0, <1>7 DEF MarkedRunning, TypeOK, Row, StartRun
      <3>3. row'[task[w]].status = "running"
        BY <1>0, <1>7, <2>1, <3>1, <3>2 DEF TypeOK, StartRun
      <3>. QED
        BY <1>0, <1>4, <1>7, <2>1, <3>3 DEF TypeOK, StartRun, OwnsRow, Settled
    <2>2. CASE ~Exists(task[w])
      BY <1>3, <1>7, <2>2 DEF StartRun, GiveUp
    <2>. QED BY <2>1, <2>2
  <1>8. CASE GraphFails(w) \/ NodeRaises(w)
    BY <1>4, <1>8 DEF GraphFails, NodeRaises, ExceptionLabel, ExecutorOwnsRow, OwnsRow,
                      Settled
  <1>9. CASE EnterNode(w)
    <2>1. NodeLabel(task[w]) = "node" \/ /\ NodeLabel(task[w]) = "cancelling"
                                         /\ row[task[w]].cancel_requested
      BY DEF NodeLabel
    <2>2. CASE Exists(task[w])
      BY <1>4, <1>9, <2>1, <2>2 DEF EnterNode, ExecutorOwnsRow, OwnsRow, Settled
    <2>3. CASE ~Exists(task[w])
      BY <1>3, <1>9, <2>3 DEF EnterNode, GiveUp
    <2>. QED BY <2>2, <2>3
  <1>10. CASE NodeWrites(w)
    BY <1>4, <1>10 DEF NodeWrites, ExecutorOwnsRow, OwnsRow, Settled
  <1>11. CASE NodeFlushFails(w)
    BY <1>3, <1>11 DEF NodeFlushFails, GiveUp
  <1>12. CASE MarkCompleted(w) \/ MarkFailed(w) \/ MarkCancelled(w)
    <2>1. CASE Exists(task[w])
      <3>1. /\ task[w] \in Runs /\ row[task[w]] \in Row
            /\ MarkedCompleted(row[task[w]]).status = "completed"
            /\ MarkedFailed(row[task[w]]).status = "failed"
            /\ MarkedCancelled(row[task[w]]).status = "cancelled"
        BY <1>0, <1>12 DEF TypeOK, Row, MarkedCompleted, MarkedFailed, MarkedCancelled,
                          MarkCompleted, MarkFailed, MarkCancelled, Mark
      <3>. QED
        BY <1>4, <1>12, <2>1, <3>1
        DEF TypeOK, MarkCompleted, MarkFailed, MarkCancelled, Mark, OwnsRow, Settled
    <2>2. CASE ~Exists(task[w])
      BY <1>3, <1>12, <2>2 DEF MarkCompleted, MarkFailed, MarkCancelled, Mark, GiveUp
    <2>. QED BY <2>1, <2>2
  <1>13. CASE LogOutcome(w)
    <2>1. CASE GoTo(w, "notifying") /\ UNCHANGED held /\ pc[w] = "failed"
      BY <1>4, <1>13, <2>1 DEF LogOutcome, ExecutorOwnsRow, OwnsRow, Settled
    <2>2. CASE Done(w)
      BY <1>3, <1>13, <2>2 DEF LogOutcome, Settled
    <2>. QED
      BY <1>13, <2>1, <2>2 DEF LogOutcome, Announces
  <1>14. CASE NotifyRunFailed(w)
    BY <1>3, <1>14 DEF NotifyRunFailed
  <1>. QED
    BY <1>5, <1>6, <1>7, <1>8, <1>9, <1>10, <1>11, <1>12, <1>13, <1>14 DEF ExecuteRun

-----------------------------------------------------------------------------
(* The invariant, and the contract it gives *)

\* With single delivery, in every reachable state: types, one place per task, and
\* each executor owns its run's row.
THEOREM DeliveryInvariant ==
    ASSUME MaxRedeliveries = 0
    PROVE  Spec => []Inv
  <1>1. Init => Inv
    <2>1. Init => TypeOK
      BY InitIsTyped
    <2>2. Init => DeliveredOnce
      BY DEF Init, DeliveredOnce, AwayFromQueue
    <2>3. Init => ExecutorOwnsRow
      BY DEF Init, ExecutorOwnsRow, OwnsRow, NoRow, Settled
    <2>. QED
      BY <2>1, <2>2, <2>3 DEF Inv
  <1>2. Inv /\ [Next]_vars => Inv'
    <2> SUFFICES ASSUME Inv, [Next]_vars PROVE Inv'
      OBVIOUS
    <2>1. TypeOK'
      BY StepKeepsTypes DEF Inv
    <2>2. CASE UNCHANGED vars
      <3>1. DeliveredOnce'
        BY <2>2, NoTaskMoves DEF Inv, vars, apiVars, brokerVars, workerVars, held
      <3>2. ExecutorOwnsRow'
        BY <2>2 DEF Inv, vars, apiVars, brokerVars, workerVars, held,
                    ExecutorOwnsRow, OwnsRow
      <3>. QED BY <2>1, <3>1, <3>2 DEF Inv
    <2>3. ASSUME NEW r \in Runs, ApiStep(r) PROVE Inv'
      BY <2>1, <2>3, ApiStepDeliversOnce, ApiStepKeepsClaims DEF Inv
    <2>4. ASSUME NEW w \in Workers, BrokerStep(w) PROVE Inv'
      BY <2>1, <2>4, BrokerStepDeliversOnce, BrokerStepKeepsClaims DEF Inv
    <2>5. ASSUME NEW w \in Workers, ExecuteRun(w) PROVE Inv'
      BY <2>1, <2>5, ExecuteRunDeliversOnce, ExecuteRunKeepsClaims DEF Inv
    <2>. QED
      BY <2>2, <2>3, <2>4, <2>5 DEF Next
  <1>. QED
    BY <1>1, <1>2, PTL DEF Spec

\* DeliveredOnce, for every number of runs, workers and crashes.
THEOREM TasksAreDeliveredOnce ==
    ASSUME MaxRedeliveries = 0
    PROVE  Spec => []DeliveredOnce
  BY DeliveryInvariant, PTL DEF Inv

\* ExecutorOwnsRow: no stale write of execute_run overwrites another outcome.
THEOREM ExecutorsOwnTheirRows ==
    ASSUME MaxRedeliveries = 0
    PROVE  Spec => []ExecutorOwnsRow
  BY DeliveryInvariant, PTL DEF Inv

\* How a write of one row looks in the contract.
LEMMA RowWriteMaps ==
    ASSUME row \in [Runs -> Row], NEW r \in Runs, NEW rec \in Row,
           row' = [row EXCEPT ![r] = rec]
    PROVE  /\ [s \in Runs |-> row'[s].status]
                = [[s \in Runs |-> row[s].status] EXCEPT ![r] = rec.status]
           /\ [s \in Runs |-> row'[s].cancel_requested]
                = [[s \in Runs |-> row[s].cancel_requested]
                     EXCEPT ![r] = rec.cancel_requested]
  OBVIOUS

\* A write that keeps cancel_requested leaves the contract's stopAsked alone.
LEMMA StopAskedKept ==
    ASSUME row \in [Runs -> Row], NEW r \in Runs, NEW rec \in Row,
           row' = [row EXCEPT ![r] = rec],
           rec.cancel_requested = row[r].cancel_requested
    PROVE  [s \in Runs |-> row'[s].cancel_requested]
             = [s \in Runs |-> row[s].cancel_requested]
  OBVIOUS

LEMMA ApiStepImplements ==
    ASSUME Inv, NEW r \in Runs, ApiStep(r)
    PROVE  Contract!Next \/ UNCHANGED Contract!vars
  <1> USE DEF Inv, apiVars, brokerVars, workerVars, held
  <1>0. row \in [Runs -> Row] /\ row[r] \in Row
    BY DEF TypeOK
  <1>1. ASSUME NEW by \in {"manual", "telegram", "conversation"}, CreateRun(r, by)
        PROVE  Contract!Next
    <2> DEFINE rec == [row[r] EXCEPT !.status = "pending"]
    <2>1. /\ rec \in Row /\ rec.status = "pending"
          /\ rec.cancel_requested = row[r].cancel_requested
          /\ row' = [row EXCEPT ![r] = rec]
          /\ row[r].status = "absent"
      BY <1>0, <1>1 DEF CreateRun, Row, Statuses, RunActiveStatuses, ExecutorOwnsRow
    <2>2. Contract!Create(r)
      BY <1>0, <2>1, RowWriteMaps, StopAskedKept DEF Contract!Create, Contract!Move
    <2>. QED BY <2>2 DEF Contract!Next
  <1>2. CASE UNCHANGED row
    BY <1>2 DEF Contract!vars
  <1>3. CASE StopCommit(r) /\ Exists(r)
    <2> DEFINE rec == StopRequested(row[r])
    <2>1. /\ rec \in Row /\ rec.status = row[r].status
          /\ rec.cancel_requested = TRUE
          /\ row' = [row EXCEPT ![r] = rec]
          /\ row[r].status \notin {"absent", "deleted"}
      BY <1>0, <1>3 DEF StopCommit, StopRequested, Row, Exists
    <2>2. Contract!AskStop(r)
      BY <1>0, <2>1, RowWriteMaps DEF Contract!AskStop
    <2>. QED BY <2>2 DEF Contract!Next
  <1>4. CASE DeleteWorkflow(r)
    <2> DEFINE rec == [row[r] EXCEPT !.status = "deleted"]
    <2>1. /\ rec \in Row /\ rec.status = "deleted"
          /\ rec.cancel_requested = row[r].cancel_requested
          /\ row' = [row EXCEPT ![r] = rec]
          /\ row[r].status \in Statuses \ {"absent", "deleted"}
      BY <1>0, <1>4 DEF DeleteWorkflow, Row, Statuses, Exists
    <2>2. Contract!Delete(r)
      BY <1>0, <2>1, RowWriteMaps, StopAskedKept
      DEF Contract!Delete, Contract!Move, Contract!Statuses, Contract!Settled,
          Statuses, RunActiveStatuses, Settled
    <2>. QED BY <2>2 DEF Contract!Next
  <1>. QED
    BY <1>1, <1>2, <1>3, <1>4
    DEF ApiStep, LogQueued, Publish, PublishFails, StopCheck, StopCommit, StopLog,
        DeleteAgent

LEMMA ExecuteRunImplements ==
    ASSUME Inv, NEW w \in Workers, ExecuteRun(w)
    PROVE  Contract!Next \/ UNCHANGED Contract!vars
  <1> USE DEF Inv, apiVars, brokerVars, workerVars, held
  <1> DEFINE r == task[w]
  <1>0. row \in [Runs -> Row] /\ (pc[w] # "idle" => r \in Runs /\ row[r] \in Row)
    BY BusyHasRun DEF TypeOK
  <1>1. CASE UNCHANGED row
    BY <1>1 DEF Contract!vars
  <1>2. CASE StartRun(w) /\ ~UNCHANGED row
    <2> DEFINE rec == MarkedRunning(row[r])
    <2>1. /\ r \in Runs /\ seen[w] = "pending" /\ Exists(r)
          /\ row' = [row EXCEPT ![r] = rec]
      BY <1>0, <1>2 DEF StartRun
    <2>2. /\ rec \in Row /\ rec.status = "running"
          /\ rec.cancel_requested = row[r].cancel_requested
      BY <1>0, <1>2, MarksKeepRow DEF StartRun, MarkedRunning, Row
    <2>3. row[r].status = "pending"
      BY <1>2, <2>1 DEF StartRun, ExecutorOwnsRow, OwnsRow, Exists
    <2>4. Contract!Start(r)
      BY <1>0, <2>1, <2>2, <2>3, RowWriteMaps, StopAskedKept
      DEF Contract!Start, Contract!Move
    <2>5. r \in Runs
      BY <2>1
    <2>. QED BY <2>4, <2>5 DEF Contract!Next, Contract!Start, Contract!Move
  <1>3. CASE (MarkCompleted(w) \/ MarkFailed(w)) /\ Exists(r)
    <2>1. PICK rec \in Row : /\ rec.status \in {"completed", "failed"}
                             /\ rec.cancel_requested = row[r].cancel_requested
                             /\ row' = [row EXCEPT ![r] = rec]
      <3>1. /\ MarkedCompleted(row[r]) \in Row
            /\ MarkedCompleted(row[r]).status = "completed"
            /\ MarkedCompleted(row[r]).cancel_requested = row[r].cancel_requested
            /\ MarkedFailed(row[r]) \in Row
            /\ MarkedFailed(row[r]).status = "failed"
            /\ MarkedFailed(row[r]).cancel_requested = row[r].cancel_requested
        BY <1>0, <1>3, MarksKeepRow
        DEF MarkCompleted, MarkFailed, Mark, MarkedCompleted, MarkedFailed, Row
      <3>. QED
        BY <1>3, <3>1 DEF MarkCompleted, MarkFailed, Mark
    <2>2. r \in Runs /\ row[r].status = "running"
      BY <1>0, <1>3
      DEF MarkCompleted, MarkFailed, Mark, ExecutorOwnsRow, OwnsRow, Exists
    <2>3. Contract!Settle(r)
      BY <1>0, <2>1, <2>2, RowWriteMaps, StopAskedKept
      DEF Contract!Settle, Contract!Move
    <2>. QED BY <2>2, <2>3 DEF Contract!Next
  <1>4. CASE MarkCancelled(w) /\ Exists(r)
    <2> DEFINE rec == MarkedCancelled(row[r])
    <2>1. /\ r \in Runs /\ row[r].status \in {"pending", "running"}
          /\ row[r].cancel_requested
      BY <1>0, <1>4 DEF MarkCancelled, Mark, ExecutorOwnsRow, OwnsRow, Exists
    <2>2. /\ rec \in Row /\ rec.status = "cancelled"
          /\ rec.cancel_requested = row[r].cancel_requested
          /\ row' = [row EXCEPT ![r] = rec]
      BY <1>0, <1>4, <2>1, MarksKeepRow DEF MarkCancelled, Mark, MarkedCancelled, Row
    <2>3. Contract!Cancel(r)
      BY <1>0, <2>1, <2>2, RowWriteMaps, StopAskedKept
      DEF Contract!Cancel, Contract!Move
    <2>4. r \in Runs
      BY <2>1
    <2>. QED BY <2>3, <2>4 DEF Contract!Next, Contract!Cancel, Contract!Move
  <1>5. UNCHANGED row \/ StartRun(w) \/ MarkCompleted(w) \/ MarkFailed(w) \/ MarkCancelled(w)
    BY DEF ExecuteRun, Begin, CheckStop, GraphFails, EnterNode, NodeWrites, NodeRaises,
           NodeFlushFails, LogOutcome, NotifyRunFailed
  <1>6. MarkCompleted(w) \/ MarkFailed(w) \/ MarkCancelled(w) => Exists(r) \/ UNCHANGED row
    BY DEF MarkCompleted, MarkFailed, MarkCancelled, Mark
  <1>. QED
    BY <1>1, <1>2, <1>3, <1>4, <1>5, <1>6

LEMMA StepImplements == Inv /\ [Next]_vars => [Contract!Next]_(Contract!vars)
  <1>1. ASSUME UNCHANGED row PROVE UNCHANGED Contract!vars
    BY <1>1 DEF Contract!vars
  <1>2. ASSUME NEW w \in Workers, BrokerStep(w) PROVE UNCHANGED row
    BY <1>2 DEF BrokerStep, Reserve, Redeliver, Crash
  <1>. QED
    BY <1>1, <1>2, ApiStepImplements, ExecuteRunImplements DEF Next, vars

\* ImplementsContract: through every race of stops, deletes, failures and crashes,
\* a reader of the run's row sees the one-way machine of RunContract.
THEOREM ImplementsRunContract ==
    ASSUME MaxRedeliveries = 0
    PROVE  Spec => ImplementsContract
  <1>1. Init => Contract!Init
    BY DEF Init, NoRow, Contract!Init
  <1>. QED
    BY <1>1, DeliveryInvariant, StepImplements, PTL DEF Spec, ImplementsContract

-----------------------------------------------------------------------------
(* Consequences of the contract *)

\* The contract never takes a run out of a settled status, except by a delete.
LEMMA ContractIsFinal ==
    ASSUME [Contract!Next]_(Contract!vars), NEW r \in Runs, row[r].status \in Settled
    PROVE  row'[r].status \in {row[r].status, "deleted"}
  <1> DEFINE S == [s \in Runs |-> row[s].status]
  <1>1. S[r] \in Settled /\ S'[r] = row'[r].status /\ S[r] = row[r].status
    OBVIOUS
  <1>2. CASE UNCHANGED S
    BY <1>1, <1>2
  <1>3. ASSUME NEW q \in Runs, NEW from, NEW to, Contract!Move(q, from, to),
               from \cap Settled = {} \/ to = "deleted"
        PROVE  S'[r] \in {S[r], "deleted"}
    <2>1. S' = [S EXCEPT ![q] = to] /\ S[q] \in from
      BY <1>3 DEF Contract!Move
    <2>. QED BY <1>1, <1>3, <2>1
  <1>4. CASE Contract!Next
    <2>1. PICK q \in Runs : \/ Contract!Create(q) \/ Contract!Start(q)
                            \/ Contract!Settle(q) \/ Contract!Cancel(q)
                            \/ Contract!Delete(q) \/ Contract!AskStop(q)
      BY <1>4 DEF Contract!Next
    <2>2. CASE Contract!AskStop(q)
      BY <1>2, <2>2 DEF Contract!AskStop
    <2>3. CASE Contract!Create(q) \/ Contract!Start(q) \/ Contract!Cancel(q)
      BY <1>1, <1>3, <2>3 DEF Contract!Create, Contract!Start, Contract!Cancel, Settled
    <2>4. CASE Contract!Settle(q)
      BY <1>1, <1>3, <2>4 DEF Contract!Settle, Settled
    <2>5. CASE Contract!Delete(q)
      BY <1>1, <1>3, <2>5 DEF Contract!Delete
    <2>. QED BY <1>1, <2>1, <2>2, <2>3, <2>4, <2>5
  <1>. QED
    BY <1>1, <1>2, <1>4 DEF Contract!vars

LEMMA StepIsFinal ==
    ASSUME Inv, [Next]_vars, NEW r \in Runs, row[r].status \in Settled
    PROVE  row'[r].status \in {row[r].status, "deleted"}
  BY StepImplements, ContractIsFinal

\* SettledIsFinal: whatever races with the worker, an outcome is never replaced.
THEOREM OutcomesAreFinal ==
    ASSUME MaxRedeliveries = 0
    PROVE  Spec => SettledIsFinal
  <1>1. Inv /\ [Next]_vars =>
          [\A r \in Runs : row[r].status \in Settled =>
               row'[r].status \in {row[r].status, "deleted"}]_vars
    BY StepIsFinal
  <1>. QED
    BY <1>1, DeliveryInvariant, PTL DEF Spec, SettledIsFinal

-----------------------------------------------------------------------------
(* What users are told *)

Reports == OutcomeLogAgrees /\ FailureNoticeIsTrue

\* A deleted row never comes back.
LEMMA DeletedStays ==
    ASSUME Inv, [Next]_vars, NEW r \in Runs, row[r].status = "deleted"
    PROVE  row'[r].status = "deleted"
  <1> DEFINE S == [s \in Runs |-> row[s].status]
  <1>1. S[r] = "deleted" /\ S'[r] = row'[r].status
    OBVIOUS
  <1>2. CASE UNCHANGED S
    BY <1>1, <1>2
  <1>3. ASSUME NEW q \in Runs, NEW from, NEW to, Contract!Move(q, from, to),
               "deleted" \notin from
        PROVE  S'[r] = "deleted"
    <2>1. S' = [S EXCEPT ![q] = to] /\ S[q] \in from
      BY <1>3 DEF Contract!Move
    <2>. QED BY <1>1, <1>3, <2>1
  <1>4. CASE Contract!Next
    <2>1. PICK q \in Runs : \/ Contract!Create(q) \/ Contract!Start(q)
                            \/ Contract!Settle(q) \/ Contract!Cancel(q)
                            \/ Contract!Delete(q) \/ Contract!AskStop(q)
      BY <1>4 DEF Contract!Next
    <2>2. CASE Contract!AskStop(q)
      BY <1>1, <1>2, <2>2 DEF Contract!AskStop
    <2>3. CASE Contract!Create(q) \/ Contract!Start(q) \/ Contract!Cancel(q)
      BY <1>1, <1>3, <2>3 DEF Contract!Create, Contract!Start, Contract!Cancel
    <2>4. CASE Contract!Settle(q)
      BY <1>1, <1>3, <2>4 DEF Contract!Settle
    <2>5. CASE Contract!Delete(q)
      BY <1>1, <1>3, <2>5 DEF Contract!Delete
    <2>. QED BY <1>1, <2>1, <2>2, <2>3, <2>4, <2>5
  <1>5. [Contract!Next]_(Contract!vars)
    BY StepImplements
  <1>. QED
    BY <1>1, <1>2, <1>4, <1>5 DEF Contract!vars

\* The status each mark writes.
LEMMA MarkStatuses ==
    ASSUME NEW rec \in Row
    PROVE  /\ MarkedRunning(rec).status = "running"
           /\ MarkedCompleted(rec).status = "completed"
           /\ MarkedFailed(rec).status = "failed"
           /\ MarkedCancelled(rec).status = "cancelled"
  BY DEF Row, MarkedRunning, MarkedCompleted, MarkedFailed, MarkedCancelled

\* A row disappears only with its logs.
LEMMA DeleteTakesLogs ==
    ASSUME Inv, [Next]_vars, NEW r \in Runs,
           row[r].status # "deleted", row'[r].status = "deleted"
    PROVE  logs'[r] = {}
  <1> USE DEF Inv, apiVars, brokerVars, workerVars, held
  <1>1. ASSUME NEW q \in Runs, ApiStep(q) PROVE logs'[r] = {}
    <2>1. CASE DeleteWorkflow(q)
      BY <2>1 DEF TypeOK, DeleteWorkflow, Row
    <2>2. ASSUME NEW by \in {"manual", "telegram", "conversation"}, CreateRun(q, by)
          PROVE  FALSE
      <3>1. row[q] \in Row /\ [row[q] EXCEPT !.status = "pending"].status = "pending"
        BY DEF TypeOK, Row
      <3>. QED BY <2>2, <3>1 DEF TypeOK, CreateRun
    <2>3. ~StopCommit(q)
      <3>1. StopRequested(row[q]).status = row[q].status
        BY DEF TypeOK, StopRequested, Row
      <3>. QED BY <3>1 DEF TypeOK, StopCommit
    <2>. QED
      BY <1>1, <2>1, <2>2, <2>3
      DEF ApiStep, LogQueued, Publish, PublishFails, StopCheck, StopLog, DeleteAgent
  <1>2. ASSUME NEW w \in Workers, ExecuteRun(w) PROVE FALSE
    <2>0. pc[w] # "idle" => task[w] \in Runs /\ row[task[w]] \in Row
      BY BusyHasRun DEF TypeOK
    <2>1. ~StartRun(w)
      BY <2>0, MarkStatuses DEF TypeOK, StartRun
    <2>2. ~MarkCompleted(w) /\ ~MarkFailed(w) /\ ~MarkCancelled(w)
      BY <2>0, MarkStatuses DEF TypeOK, MarkCompleted, MarkFailed, MarkCancelled, Mark
    <2>. QED
      BY <1>2, <2>1, <2>2
      DEF ExecuteRun, Begin, CheckStop, GraphFails, EnterNode, NodeWrites, NodeRaises,
          NodeFlushFails, LogOutcome, NotifyRunFailed
  <1>3. ASSUME NEW w \in Workers, BrokerStep(w) PROVE FALSE
    BY <1>3 DEF BrokerStep, Reserve, Redeliver, Crash
  <1>. QED
    BY <1>1, <1>2, <1>3 DEF Next, vars

\* An outcome is logged by the executor whose row shows it.
LEMMA NewOutcomeIsShown ==
    ASSUME Inv, [Next]_vars, NEW r \in Runs, NEW outcome \in Settled,
           outcome \in logs'[r], outcome \notin logs[r]
    PROVE  row'[r].status = outcome
  <1> USE DEF Inv, apiVars, brokerVars, workerVars, held
  <1>1. ASSUME NEW q \in Runs, ApiStep(q) PROVE FALSE
    BY <1>1 DEF TypeOK, ApiStep, CreateRun, LogQueued, Publish, PublishFails, StopCheck,
                StopCommit, StopLog, DeleteWorkflow, DeleteAgent, AddLog, Settled
  <1>2. ASSUME NEW w \in Workers, BrokerStep(w) PROVE FALSE
    BY <1>2 DEF BrokerStep, Reserve, Redeliver, Crash
  <1>3. ASSUME NEW w \in Workers, ExecuteRun(w) PROVE row'[r].status = outcome
    <2>1. LogOutcome(w)
      BY <1>3 DEF ExecuteRun, Begin, CheckStop, StartRun, GraphFails, EnterNode,
                  NodeWrites, NodeRaises, NodeFlushFails, MarkCompleted, MarkFailed,
                  MarkCancelled, Mark, NotifyRunFailed
    <2>2. task[w] = r /\ pc[w] = outcome /\ Exists(r) /\ row' = row
      BY <2>1 DEF TypeOK, LogOutcome, AddLog
    <2>. QED
      BY <2>2 DEF ExecutorOwnsRow, OwnsRow, Exists, Settled
  <1>. QED
    BY <1>1, <1>2, <1>3 DEF Next, vars

\* A new announcement comes from an executor that has marked the run failed.
LEMMA NewNoticeIsTrue ==
    ASSUME Inv, [Next]_vars, NEW r \in notices', r \notin notices
    PROVE  row'[r].status \in {"failed", "deleted"}
  <1> USE DEF Inv, apiVars, brokerVars, workerVars, held
  <1>1. ASSUME NEW q \in Runs, ApiStep(q) PROVE FALSE
    BY <1>1 DEF ApiStep, CreateRun, LogQueued, Publish, PublishFails, StopCheck,
                StopCommit, StopLog, DeleteWorkflow, DeleteAgent
  <1>2. ASSUME NEW w \in Workers, BrokerStep(w) PROVE FALSE
    BY <1>2 DEF BrokerStep, Reserve, Redeliver, Crash
  <1>3. ASSUME NEW w \in Workers, ExecuteRun(w)
        PROVE  row'[r].status \in {"failed", "deleted"}
    <2>1. NotifyRunFailed(w)
      BY <1>3 DEF ExecuteRun, Begin, CheckStop, StartRun, GraphFails, EnterNode,
                  NodeWrites, NodeRaises, NodeFlushFails, MarkCompleted, MarkFailed,
                  MarkCancelled, Mark, LogOutcome
    <2>2. task[w] = r /\ pc[w] = "notifying" /\ row' = row
      BY <2>1 DEF NotifyRunFailed
    <2>. QED
      BY <2>2 DEF ExecutorOwnsRow, OwnsRow
  <1>. QED
    BY <1>1, <1>2, <1>3 DEF Next, vars

LEMMA StepKeepsReports == Inv /\ Reports /\ [Next]_vars => Reports'
  <1> SUFFICES ASSUME Inv, Reports, [Next]_vars PROVE Reports'
    OBVIOUS
  <1>0. notices' \subseteq Runs
    BY StepKeepsTypes DEF Inv, TypeOK
  <1>1. ASSUME NEW r \in Runs, NEW outcome \in Settled, outcome \in logs'[r]
        PROVE  row'[r].status = outcome
    <2>1. CASE outcome \notin logs[r]
      BY <1>1, <2>1, NewOutcomeIsShown
    <2>2. CASE outcome \in logs[r]
      <3>1. row[r].status = outcome
        BY <2>2 DEF Reports, OutcomeLogAgrees
      <3>2. row'[r].status \in {outcome, "deleted"}
        BY <3>1, StepIsFinal
      <3>3. row'[r].status # "deleted"
        BY <1>1, <3>1, DeleteTakesLogs DEF Settled
      <3>. QED BY <3>2, <3>3
    <2>. QED BY <2>1, <2>2
  <1>2. ASSUME NEW r \in notices' PROVE row'[r].status \in {"failed", "deleted"}
    <2>1. CASE r \notin notices
      BY <2>1, NewNoticeIsTrue
    <2>2. CASE r \in notices /\ row[r].status = "failed"
      BY <1>0, <2>2, StepIsFinal DEF Settled
    <2>3. CASE r \in notices /\ row[r].status = "deleted"
      BY <1>0, <2>3, DeletedStays
    <2>. QED
      BY <2>1, <2>2, <2>3 DEF Reports, FailureNoticeIsTrue
  <1>. QED
    BY <1>1, <1>2 DEF Reports, OutcomeLogAgrees, FailureNoticeIsTrue

LEMMA ReportsHold ==
    ASSUME MaxRedeliveries = 0
    PROVE  Spec => []Reports
  <1>1. Init => Reports
    BY DEF Init, Reports, OutcomeLogAgrees, FailureNoticeIsTrue
  <1>. QED
    BY <1>1, StepKeepsReports, DeliveryInvariant, PTL DEF Spec

\* OutcomeLogAgrees: the outcome in a run's logs is the one its row shows.
THEOREM LogsAgree ==
    ASSUME MaxRedeliveries = 0
    PROVE  Spec => []OutcomeLogAgrees
  BY ReportsHold, PTL DEF Reports

\* FailureNoticeIsTrue: a chat told of a failure is told the truth for good.
THEOREM NoticesAreTrue ==
    ASSUME MaxRedeliveries = 0
    PROVE  Spec => []FailureNoticeIsTrue
  BY ReportsHold, PTL DEF Reports
=============================================================================
