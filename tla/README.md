# Orqestra: a TLA+ model of the agent workflow platform

This directory holds TLA+ modules for the backend in `src/backend/app`, the TLC
configurations that check them on small instances, and TLAPS proofs of what holds
for every instance. Line numbers refer to that source tree. `PROJECT.json` maps
every definition to the lines it models.

## The system

A FastAPI process serves the API and the pages, Celery workers execute workflow
runs taken from Redis, PostgreSQL holds the state they share, and a Telegram
poller (or webhook) feeds messages into the same queue.

| component | state | operations | hard behaviour | what makes it correct | module |
|---|---|---|---|---|---|
| run lifecycle: `run_service`, `run_repository`, `tasks`, `cancellation` | `workflow_runs`, `run_logs`; the broker's queue; the worker's stale `run` object | enqueue, stop, execute, mark, log, announce | every repository call commits; no lock; stop races completion; tasks acknowledged before they run; a failed flush poisons the session | one-way statuses, stops honoured, no run lost, logs and notices agree with the row | `RunLifecycle`, `RunContract` |
| graph runtime: `graph_builder`, `nodes`, `edges` | LangGraph state: outputs, loop counts, pending route | compile, run supersteps, route | hand-drawn graphs with loops and fan-out | loops bounded, routing follows the drawing | `GraphDrawing`, `GraphExec`, `SeededDrawings` |
| builder page: `workflow-graph.js`, `workflow-builder.js` | boxes and their ports | open, save | a drawing is converted twice | saving unchanged changes nothing | `GraphEditor` |
| Telegram polling: `telegram_polling`, webhook | leader lock (TTL), offset, seen marks | acquire, renew, poll, enqueue, release | several replicas, back-off longer than the TTL, shutdown that does not wait | one poller; each update enqueued once, and lost at most once per mishap | `TelegramPolling` |
| Telegram channel: `channel_service`, `agent_chat_service` | links and their config, conversation runs | link, chat, reset, launch, notify | read-modify-write of the whole config | one agent per chat, one conversation per link | `Conversation` |
| agents and workflows: `agent_service`, `workflow_service`, `startup` | agents; graph, version, links, names | seed, create, rename, save, copy, delete | check-then-write, version + 1, seeding that a crash interrupts | names distinct, links match the graph, every replica comes up | `Catalogue` |
| accounts: `auth_service`, `user_service`, `deps` | users, reset tokens, sessions | log in, reset, update, delete, seed | several commits per operation | a token works once; an account stays active | `Accounts` |
| development pipeline: `tool_runner`, `dev_tools`, `dev_project`, `tools` | project files and metadata, remote repository and droplet | ask for tools, write, publish, deploy, notify | remote calls that fail half-way, two executions of one run | announce only what is there | `DevPipeline` |
| dashboard, pages, migrations | none of their own | listings, pagination | sequential | | not modelled |

Calls go from the API to services to repositories; the API reaches the workers only
through Redis, and the workers answer only through rows. Telegram launches call
`enqueue_run`; a failed launch calls back into the channel service; deleting a
workflow or an agent reaches into runs that are executing and into chats.

## What is modelled

**`RunLifecycle`** is the core: one action per transaction of `enqueue_run`,
`cancel_run`, `delete_workflow`, `delete_agent` and `execute_run`, with the broker and
the worker processes as external actors.

| model | code |
|---|---|
| `row[r]` | the columns of `workflow_runs` that decide anything; `absent` and `deleted` stand for no row |
| `logs[r]` | the log entries that matter to others: *queued* (carries the chat id), *stop*, and one per outcome |
| `api[r]`, `stopper[r]` | how far the enqueuing and the stopping request have got |
| `queued[r]`, `reserved[w]` | copies of the task in Redis; the one task a worker prefetches (`worker_prefetch_multiplier=1`) |
| `pc[w]`, `task[w]`, `seen[w]` | where `execute_run` is, for which run, and the status its `run` object was loaded with |
| `node[w]` | nodes of the graph finished so far, at most `MaxNodes` |
| `agentsGone` | workers whose node in progress names an agent deleted meanwhile |
| `notices` | runs whose failure was sent to Telegram |
| `lost`, `early`, `late` | history variables, read by properties only |

`CreateRun`, `LogQueued`, `Publish`, `PublishFails` are `enqueue_run` cut at its
commits; `StopCheck`, `StopCommit`, `StopLog` are `cancel_run`; `Begin`, `CheckStop`,
`StartRun`, `EnterNode`, `NodeWrites`, `MarkCompleted`, `MarkFailed`, `MarkCancelled`,
`LogOutcome`, `NotifyRunFailed` follow `execute_run` line by line, and `GraphFails`,
`NodeRaises`, `NodeFlushFails` are its exceptions. `GiveUp` is the case in which the
handler's own `mark_failed` raises: a failed flush leaves a SQLAlchemy session in need
of a rollback, and nothing in the code rolls back. Small operators (`StartLabel`,
`NodeLabel`, `MayExecute`, ...) hold the decisions; a definition named `X_Something`
next to `X` is a faulty variant no specification uses, kept to show that the
properties notice.

**`RunContract`** says what a reader of a run may rely on: a one-way machine of
statuses in which a run is cancelled only after somebody asked. `RunLifecycle`
implements it (`Contract`, by `status` and `cancel_requested` of the row) as long as
the broker delivers each task once.

**`GraphDrawing`** reads a workflow drawing (`graph_json`) as `graph_builder.py` does:
operators for the entry node, the branches of a condition, the edges that are wired, the
drawings that are refused, and the breadth-first chain that decides whom a handoff
message is addressed to. A few more, at its end, read the drawing as its author would and
serve the properties. Two quirks of the code are kept: a condition with two unlabelled
branches sends both verdicts down the second, and an edge with a label counts only
when it leaves a condition.

**`GraphExec`** runs a drawing in supersteps, as LangGraph does: the nodes of a superstep
start and finish in any order on the state of its beginning, their updates are applied at
its end, and two updates of one key are an error, since `state.py` gives only
`messages` a reducer. LangGraph is external; what it runs is the code's.

| model | code |
|---|---|
| `graph` | the drawing of this run, one of `Graphs` |
| `phase`, `error` | how `app.invoke` ended: the state, an exception, `RunCancelledError`, the recursion limit |
| `plan`, `started`, `finished`, `steps` | LangGraph's superstep |
| `outputs` | `node_outputs`, a dict in insertion order; of a text only its verdict and its author |
| `last`, `loops` | `last_agent_node`, `loop_counts` |
| `lowTaken`, `ran`, `prev`, `sent` | history variables, read by properties only |

`StartNode` is `ensure_run_not_cancelled` at the head of every node, `FinishNode` and
`NodeRaises` the ways its work ends, `EndStep` with `ApplyOutput` and `ApplyLoops` the
returned updates and the routes. Agents answer anything: each output passes, fails or
cannot be parsed (then a flag passes and a confidence does not, as in `edges.py`).
`RunLifecycle` abstracts a whole execution to nodes that finish one after another, which
is what it is for every drawing without a fork; the forks are `GraphExec`'s.

**`SeededDrawings`** holds the five drawings that `workflow_service.py` seeds.
**`GraphEditor`** is the builder page as pure operators: `ToCanvas` opens a drawing as
`simpleToDrawflow` does, `FromCanvas` saves it as `drawflowToSimple` does. What the page can
draw runs alike after it is opened and saved (`EditorKeepsMeaning`) but for
`max_loops`, which the page forgets: the two rounds of the development pipeline
become the default three. It extends `GraphExec`, so that the drawings opened are those
of its runs.

**`TelegramPolling`** has time: one unit is 20 s, so the lock lives 2 units, a back-off takes
1 to 3 of them and nothing waits longer than its timer. A call to Redis may take any time.

| model | code |
|---|---|
| `lock` | the Redis key of the leader and its TTL |
| `main[i]`, `join[i]` | the process: lifespan hook, and how long a shutdown still joins the thread |
| `pc[i]`, `timer[i]` | where `_poll_loop` is, and how long its wait may last |
| `offset[i]`, `batch[i]`, `backoff[i]` | its locals |
| `connected` | replicas whose module-level Redis client exists, which decides what an error of a renewal means |
| `seen`, `queued` | marks, and tasks per update |
| `arrived`, `kept`, `webhook` | Telegram: what users sent, what it still keeps, whether it pushes |

GET and EXPIRE, GET and DELETE are separate steps (`CheckLock`/`RenewAndPoll`,
`Release`/`Unlock`), so the lock may lapse in between and the second touch another's;
`unlocked` remembers that this happened or that Redis failed, `unguarded` names the
updates whose mark failed or that the webhook received twice. `PollerHoldsLock` and
`EnqueuedOnce` are stated without those.

**`Conversation`** is `handle_telegram_update` beside the web requests that edit links. A
handler reads a link first and writes its whole configuration commits later. The code has no
defence against such a write on an outdated read: it can undo a new link, give a chat two
agents, split a conversation or bring a reset one back.

| model | code |
|---|---|
| `links` | `channel_links`: agent, chat, `is_active`, and the conversation run of the configuration |
| `agents`, `flows`, `runs` | the rows links and runs refer to; of a run its kind, its log and whether it is queued |
| `handler[w]`, `request[q]` | what `handle_telegram_update` and `channels_create` have read, and what they do next |
| `used[l]` | history: the runs that a link's messages went to since its last reset |
| `stale`, `overwrites` | history: who holds an outdated reading, and how often one of them wrote |

`overwrites` counts the mishaps, and the properties bound what each of them may cost. An agent
with a link cannot be deleted (`Deletable`): the relationship at `models/channel_link.py:34` has
a backref without `cascade` or `passive_deletes`, so the ORM first sets `agent_id` to NULL, the
column does not allow that, and the transaction fails with nothing changed; the `ON DELETE
CASCADE` of the database is never reached. `RunLifecycle` and `Catalogue` delete agents without a
link. Launches appear as the three commits of `enqueue_run` that `RunLifecycle` details.

**`Catalogue`** has the agents, the workflows and their links by name and version. A
replica (`replica[r]`) goes through the `Packs` that `startup.py` seeds, checks a guard per
pack and a name per row; a request (`request[q]`) checks and reads when it is asked, and
`Commit` writes; deletions (`DeleteAgent`, `DeleteFlow`) depend on nothing read before. A
pack stands for its agents by two of them, one that the guard looks at and one that it
does not. `overlapped` marks the first write on an outdated check, and also the
first write by which the API replaced columns that nothing checks (`AskColumns`).

**`Accounts`** has users, cookies, reset tokens and the seeded administrator. Each request
checks, then commits; a reset commits twice (`SetPassword`, `ClearToken`) and may die in
between. Emails keep the difference between what `create` and `update` store. Two histories say
what the code does not prevent: `orphaned`, that a request switched an account off for somebody
whose own account had been switched off or deleted since the check, and `torn[t]`, how often a
reset found token `t` while another one was half done with it, or died between its two commits.

**`DevPipeline`** is one run of the development pipeline: the rounds of the tool loop
(`Ask`, `Answer`), and the tools cut at every remote call and every file they save. Several executors
share the run's directory, because a redelivered task executes it again (see
`RunLifecycle`). A project is abstracted to what decides whether it can be served:
`main`, `pages`, `docker`.

| model | code |
|---|---|
| `project` | the run's directory |
| `published`, `deployed` | `.orqestra_publish.json`, `.orqestra_deploy.json` |
| `repos`, `droplets` | GitHub, DigitalOcean (external) |
| `exec[e]` | agent, round, and the call in progress |
| `sent` | the last notification |

The modules meet where the code does: `RunLifecycle` takes an execution as a row of nodes,
`GraphExec` details it, `DevPipeline` details one of its drawings with the redelivery that
`RunLifecycle` allows; `Conversation` starts runs in the order in which `RunLifecycle`
creates, logs and publishes them; the links of `Catalogue` are what `GraphDrawing`
calls `linked`.

The **`MC...`** modules give the constants values. The theorems about a module `M` are in
**`M_proofs`**.

## Runs

| run | instance | shows |
|---|---|---|
| `run_single` | 2 runs, 2 workers, 2 nodes, 1 crash, single delivery, symmetric; 914,414 states | every safety property, outcome finality and the refinement |
| `run_redelivery` | 1 run, 2 workers, 1 redelivery, 1 crash; 212,518 states | what survives a duplicate execution, and that enqueued runs settle under fairness |
| `run_agent_deleted` | no crash, no redelivery | counterexample: a run stays `running` for ever |
| `run_failed_stays` | 1 redelivery | counterexample: `failed` becomes another outcome |
| `graph_small` | 459 drawings of up to 8 nodes, limit 41; 635,000 states | every property of an execution, its end, and the builder page |
| `graph_channel_text` | the seeded workflows, limit 100 as in the code | counterexample: a notification carries the first output, not the last |
| `telegram_polling` | 2 replicas, 2 updates, 1 mishap, TTL 40 s, back-off 20 to 60 s; 3.4 million states | one poller, no update twice, none lost without a mishap |
| `telegram_poller_stops` | Redis answers at once, nothing fails | counterexample: the poller ends though nobody else holds the lock |
| `conversation` | 2 chats, 2 agents, 2 workers, 1 web request, 1 pipeline, 1 deletion, any workflows to begin with, up to 2 writes on an outdated read; 5.3 million states | links have agents; what each such write costs at the worst |
| `dev_pipeline` | 2 executors, 1 crash, 1 droplet, 1 round; 4.1 million states | what is announced, recorded and paid for |
| `catalogue` | 1 replica, 1 request beside deletions, 2 edits, 1 crash; 671,000 states | names, links, and that a start completes |
| `accounts` | 2 browsers, 2 requests, 3 users, 2 tokens, 3 asks, 1 crash; 534,000 states | an account stays active; each tear lets a link set one password more |

The properties by hazard. Runs: `EarlyStopNeverStarts`, `StopIsPrompt`,
`CancelledOnlyIfAsked` (stops); `ActiveRunIsInFlight`, `PublishedRunsSettle` (no run is
dropped); `ChatIsKnown` (order of enqueue); `DeliveredOnce`, `ExecutorOwnsRow`,
`SettledIsFinal`, `ImplementsContract` (one executor, stale writes);
`OutcomeLogAgrees`, `FailureNoticeIsTrue` (what users are told).

Executions: `LoopCountsAreTrue`, `LowBranchBounded` (loops), `LimitIsForPlainCycles`,
`RunEnds` (the recursion limit), `CompletedDroppedNothing` (edges), `JudgesItsPredecessor`
(conditions), `HandoffReachesNextAgent` (handoffs). The last two hold for drawings that do
not fork, and the last one if the branches are labelled; without these conditions the code
promises nothing.

Telegram: `EnqueuedOnce`, `EachMishapLosesOne`, `PollerHoldsLock`;
`EachOverwriteAddsOneAgent`, `EachOverwriteSplitsOnce`. Catalogue:
`NamesUnique`, `LinksFollowGraph`, `StartupCompletes`. Accounts: `SomeoneRemains`,
`EachTearSetsOneMore`. Development pipeline: `NoticeIsTrue`, `PublishedIsWhole`,
`DropletHasSource`.

*What they do not cover.* Where the code loses a race, a property either bounds what each race may
cost or stops at the first one. `EachMishapLosesOne`, `EachOverwriteAddsOneAgent`,
`EachOverwriteSplitsOnce` and `EachTearSetsOneMore` count, so the race itself is inside them.
`NamesUnique` and `LinksFollowGraph` (`overlapped`), `PollerHoldsLock` (`unlocked`),
`EnqueuedOnce` (`unguarded`), `PublishedIsWhole` (`raced`) and `SomeoneRemains` (`orphaned`)
stop: they say what the checks achieve without the race, not that it does no harm. Nor does
any property catch a node skipped by a label on an edge that leaves no condition, a paid
droplet that a failed execution forgets, or a repository that exists but is empty.

*Bounds.* Two runs, because runs meet only in workers and queue; two workers, because
a third executor adds no new pair; two nodes, so that a stop can fall before, between
and after nodes; one crash and one redelivery, which already give every kind of
duplicate. The proofs remove these bounds.

The small drawings are all subsets of 6 or 7 candidate edges over an agent, a
condition and a third node of each type, over a condition that comes first, and over two
conditions: self-feeding loops, forks, joins, chained and parallel conditions, missing
branches and refused drawings are among them. 41 supersteps let every loop of these and of
the seeded drawings use up its rounds, and stop the plain cycle. Whether a run that needs
exactly `Limit` supersteps succeeds depends on the version of LangGraph
(`langgraph>=0.2.60` is not pinned), so the model allows both.

Two replicas contend for a lock; a back-off of 3 units outlasts its TTL of 2, as 60 s outlast
45 s; with two updates a batch can be cut in its middle. Two chats and two agents are what a stolen link
needs, two workers and a request what a read-modify-write needs. Two executors are what a
redelivery makes; one droplet already leaks; with one round an agent uses one or several tools. In
`Catalogue` users touch an agent that a pack is guarded by, a template and a workflow, and an execution is cut (`CONSTRAINT`) at the first write whose consequences no property speaks
of; in `conversation` it is cut at the second write on an outdated read. One replica
starts at a time there; two that seed at once are a race the code loses (below).

*Fairness.* `WF` on taking a task and on each worker's `execute_run`: a live worker
process works. In `GraphExec`, `WF` on the work of the run as a whole: a node that has begun
ends, by an answer or by an error of the client. In `Catalogue`, `WF` on each replica's
start: it goes on while it lives, and one that failed or died is started again by
whoever operates it; `docker-compose.yml` has no restart policy, so that part is the
operator's. Users, deletes, crashes and redeliveries are never obliged to happen.

*Deadlock* is not checked: when nothing is left to do or the bounds are used up, the system
rests.

### Findings

1. `run_agent_deleted`: deleting an agent while its node waits for the model makes the
   node's insert violate the foreign key. The handler at `run_service.py:265` then uses
   the poisoned session, raises, and the run stays `running`.
   `docs/ARCHITECTURE.md:53` promises `completed` or `failed`.
2. `run_failed_stays`: `execute_run` looks for a settled status once, before a long
   execution, and takes no lock. A task that waits prefetched beyond the Redis
   visibility timeout is executed by two workers, and the slower one overwrites
   `failed`. `docs/deployment/README.md:102` says failed runs stay `failed`.
3. `graph_channel_text`: `nodes.py:178` sends the first value of `node_outputs`.
   `docs/E2E_DEMO.md:20` says the channel node sends the last agent's output: the launch
   pipeline sends the parsed brief in place of the announcement.
4. `telegram_poller_stops`: after three conflicts the poller sleeps longer than its lock
   lives; it then finds no lock, takes this for another leader and ends for good, and no
   replica ever tries again. The log line at `telegram_polling.py:121` says another
   replica holds the lock.

### Weak points met on the way

These were seen while modelling and no run is about them; the properties are stated around
them, and a history variable marks where most begin. Two of them contradict a text of the
program, which is quoted.

* A stale write of a link's configuration (see `Conversation`), of a workflow's links and version
  (two saves share a version and join their links), or on a stale name check (two rows of one name).
  Two replicas that seed at once duplicate rows in the same way.
* `workflow_service.py:68-89`: an update of `is_template` alone skips the name check, one of
  `graph_json` or `agent_links` alone leaves the two apart.
* Packs are guarded by their first row or by an empty table only: a start that dies in the
  middle of a pack leaves the rest missing for ever, and a user who deletes only the first agent
  of a pack makes the next start fail on the names of the others.
* `refresh_dev_pipeline_workflows` overwrites what users changed in the development agents,
  on every start.
* Two operators who disable each other at once lock everybody out (`orphaned`); a reset in
  progress clears a newer link.
* `update_user` stores an email in the case it was typed (`user_service.py:51-55`), and the sign-in
  and the reset look it up in lower case, though `templates/auth/forgot_password.html:37` says a link
  has been sent "if an account exists for that email". A sole operator whose email gets a capital letter can
  sign in no more, and no administrator is seeded, for the table is not empty. The model has
  both sides (`Emails`, `ByEmail`); `SomeoneRemains` speaks of active accounts only.
* The acknowledgement of `/build` promises the site's URL "here" (`channel_service.py:378`); the
  `send_notification` of the pipeline's last agent knows no run and sends to the newest active
  link, whichever chat that is (`tools.py:218-239`). Where results go is not modelled.
* An agent with a link cannot be deleted, and the error is not handled: the route answers 500.
* A taken repository name is reused and overwritten by force; a droplet whose wait
  fails is neither recorded nor deleted; a template copied half-way stays so; after a
  second publish and a failed deploy a notification may name the new repository and the old site,
  and may be headed as live when only the repository is there.
* The webhook enqueues an update again when Telegram sends it again.

## Proofs

All theorems are checked by TLAPS for arbitrary constants, from the assumption that each
module declares and TLC evaluates on every run. Those say that bounds are naturals, that
`NoRun` is not a run, that there are finitely many workers (copies of a task are counted) and
requests (in `Accounts`, where resets are counted), that
a worker process is not a web request (`Workers \intersect Requests = {}`, and likewise for
replicas in `Catalogue`), that drawings are sequences of nodes and edges (`IsDrawing`), and that
back-offs do not shrink. `PollersHoldTheLock` needs more and says so: a poll shorter than the
TTL of the lock, which is 45 s; Telegram answers a poll after 8 s, and its HTTP client gives up
after 18 s (`telegram_polling.py:19`, `:128`, `telegram.py:89`). The bounds of the
runs above are gone, and so is symmetry.

Every invariant below was checked by TLC on its run before it was proved.

*Runs under every fault*, redelivery included (`RunLifecycle_proofs`).

* `TypeCorrect`: besides types, a worker is busy exactly when it has a run, and no execution
  passes its last node.
* `RunInvariant`: `RunInv` adds to the types `Records` (what row, logs and requests of a run say
  of one another), `Settlers` (whoever holds an active run), `Prevented` (how far a run that was
  stopped early gets), `Copies` and `Late`. `ActiveRunIsInFlight` is not inductive: a
  worker that drops a settled run is harmless only because of what it knows of the row.
  `StopIsPrompt` needs the count of the nodes at work, `late[r] + Count(InNode, r)`, and that
  `Copies` bounds it: every copy of a task goes back to one publication or one redelivery.
  `ActiveRunsAreInFlight`, `EarlyStopsPreventTheStart`, `CancelledRunsWereAsked`,
  `ExecutorsKnowTheChat` and `StopsArePrompt` follow.

*Runs delivered once*, `MaxRedeliveries = 0` (the second half of `RunLifecycle_proofs`).

* `DeliveryInvariant`: `Inv == TypeOK /\ DeliveredOnce /\ ExecutorOwnsRow`. `SettledIsFinal` is
  not inductive: a worker about to write an outcome has to know that nobody else wrote one.
  `ExecutorOwnsRow` records what each label knows of the row, and it is preserved
  because `DeliveredOnce` makes the executor of a run unique: the steps of the others
  write other rows (`OthersKeepClaims`), and API steps only record stops or delete
  (`ClaimSurvives`).
* `ImplementsRunContract`: with `Inv` each write of `execute_run` is the move of
  `RunContract` of that name, every other step a stutter or a user's move.
  `OutcomesAreFinal` then follows from the contract alone, and `LogsAgree` and
  `NoticesAreTrue` from both.

*Executions of a drawing* (`GraphExec_proofs`).

* `LoopCountsStayTrue` and `LowBranchIsBounded` are inductive together with the type of
  `lowTaken`. The bound alone is not: `TakesLow` looks at
  `loops`, so it matters that `loops` counts what happened, and it does because two
  conditions never complete in one superstep (`OneJudge`).
* `ExecInvariant`: `Followed` says that what a node of `ran` points at has run or is planned, and
  `OneByOne` that a drawing without a fork has one node planned, reached by an edge from
  the last one. At the end nothing is planned, so `Followed` becomes
  `CompletedDroppedNothing`; `OneByOne` gives `JudgesItsPredecessor`. Both rest on what the
  helpers return for any drawing: branches are edges of the drawing (`BranchesAreDrawn`), and
  what a step plans is where they lead. Induction over the
  positions of a sequence is replaced by the least member of a set of naturals
  (`LeastExists`, from the library's well-foundedness theorems).
* `HandoffsReachTheNextAgent`, in two halves. The chain, read off the drawing: the walk of
  `_linear_agent_chain` visits every node it can reach (`WalkCovers`, and `WalkCounts`, by
  which `ChainSteps` empties the queue), and while nothing forks it has at most one node ahead, so
  that neighbours in the chain are agents with no other agent between them (`Linked`). The run:
  `HandoffInv` adds to `ExecInv` that a run stays where the entry leads (`Within`), and between
  two agents on the nodes after the first (`OnTheWay`, `Downstream`). A walk goes on beyond an
  end node, where no run goes: what it appends there only follows agents that never run
  or that no agent follows (`Beyond`).
* `LimitOnlyEndsPlainCycles`, forks included. Without a plain cycle every superstep leads to a node
  that has more nodes `Upstream` of it than the one before, unless a low branch was taken, and
  those are counted; `Paced` says so of each node planned: with `N` nodes, a run has
  made at most `Total(lowTaken) * N + Upstream` supersteps. That `Total`, a sum over
  the nodes, grows by one with each low branch needs `OneJudge` once more, and that it stays below the
  sum of all `max_loops` needs `LowBranchBounded`. The attempt showed that the bound fails for a negative
  `max_loops` (which allows no round, as 0 does); a drawing therefore carries a natural number.

*The builder page* (`GraphEditor_proofs`).

* `SavedDrawingsRunAlike`: for drawings of any size, with repeated edges too. A drawing is
  read by its labels: `Labelled(edges, id, when)` lists where the edges of a node with a label
  lead. `SavedDrawing` shows that opening and saving keeps these lists: a port of a box holds
  one of them (`PortsKeepTargets`), a box draws it again (`BoxesKeepEdges`), and
  putting the boxes in a row mixes nothing up (`FlattenKeeps`). Two drawings with the same nodes and the
  same lists (`SameLabels`) have the same entry, successors, branches (`BranchesByLabel`: the first,
  second and last edge of a kind are the first, second and last of its list) and the same walk,
  however many steps each is given (`WalksMeet`). That a drawing can be drawn is needed: an
  edge whose port does not exist is dropped.

*Telegram* (`TelegramPolling_proofs`, `Conversation_proofs`).

* `PollingInvariant`: `PollInv` has the shape of offsets and batches, `Once` (an update without a
  mark is new, and at most one replica is between its mark and its task), `InTurn` (no offset
  gets ahead of what had its turn) and `WasteIsPaid`. `EnqueuedOnce` is not inductive without
  `Once`, nor `EachMishapLosesOne` without `InTurn`: an update is lost when an offset passes it,
  and the accounting of `WasteIsPaid` charges each to one mishap.
* `PollersHoldTheLock`: `LockOutlastsPoll` compares the timer of a poll with the TTL that is left.
* `ChatInvariant`: `ChatInv` has the types with an existing agent per link (`TypesAreKept`), `Runs`
  (a run that somebody names was created; one that is queued has its log), `Fresh` (what a
  reading that nothing has outdated says of the links) and two counts: the agents of a chat
  (`AgentsCounted`) and the runs of a link beside the one it is configured with (`RunsCounted`). A
  write on a reading that still holds leaves both as they are, by `Fresh`; any other adds at most one
  to each, and to `overwrites`. `OverwritesAddAgents` and `OverwritesSplitConversations` follow.

*Catalogue and accounts* (`Catalogue_proofs`, `Accounts_proofs`).

* `CatalogueInvariant`: `Fresh` says of each check and each reading that nothing has outdated what it
  found, so that a write based on it keeps `Sound`, names and links; seeding, saving, copying and
  renaming use the same lemmas on writes of rows.
* `AccountsInvariant`: `Someone` has what a check of "may this operator go" still implies
  at its commit; `Issued` that a token is in at most one row, which was looked up by whoever
  resets with it; `EachPaid` that the passwords a token has set or is about to set, but one, are paid for
  by tears. `SomeAccountStaysActive` and `TearsSetOneMore` follow. The first does not say that the
  account can sign in.

*Development pipeline* (`DevPipeline_proofs`).

* `PipelineInvariant`: `Inv` says of every label what its execution may rely on (`Knows`:
  whoever pushes has a repository that exists, whoever records has one that was pushed and is
  public, whoever waits has a droplet that was ordered), that the recorded files
  are true (`Records`) and that remote resources have sources (`RemoteOK`). It survives the
  steps of other executions because remote resources only gain (`Gained`). `PipelineNoticesAreTrue`,
  `DropletsHaveSources` and `TypesAreKept` follow.
* `PublishesAreWhole`: `WholeInv` follows the tree of a publish from its preparation to its push,
  while no other execution touches it (`raced`).

Recursive definitions (`Walk`, `Labelled`, `Connections`, `Total`, `FlattenSeq`) are functions over
`0 .. n`; that such a function exists, and what its last value is, is shown each time by induction
over a set of naturals (`SetInduction`).

Every safety property of the passing runs is stated by a theorem. Only model-checked: the
liveness properties `PublishedRunsSettle`, `RunEnds` and `StartupCompletes`, out of the
prover's reach, as is whatever says `ENABLED`.

## Not modelled

* The chat that the result of a launched run is sent to; `RunLifecycle` has the chat id that the run's
  log keeps, and the failure notice.
* `run_service.start_run` and `start_demo_two_agent_run` (synchronous, one process); message
  contents, model answers, usage and costs; passwords and their hashes.
* Database outages other than constraint violations: an outage between `mark_completed` and
  its log entry would make the handler write `failed` over `completed`.
* `reset_telegram_connections` and `set_webhook`, which nothing calls; the expiry of
  seen marks after an hour (`telegram_polling.py:21`): an update that was handed over but not yet
  acknowledged when every poller stopped, and that is fetched again after more than that, is
  enqueued again.
* Two replicas that seed at once while users edit (too many states); replicas of
  `Catalogue` meet only through the check before a write, which a replica and a request already show.
* Columns that decide nothing: descriptions, prompts, models, tool lists (the tools of the
  development agents are in `DevPipeline`), run inputs.
* The dashboard, listings, pagination and pages read only; migrations run once, before the
  program; deployment files and assets hold no state.

## Plan

What was planned is modelled and every safety property of the passing runs is proved. What would
extend it next:

1. A run of a Telegram conversation that is created and never enqueued (`channel_service.py:429`)
   stays pending for good: a property about what the dashboard may promise of such runs.
2. A graph executed with the deliveries of `RunLifecycle` around it, forks included.
3. Seeding by two replicas while users edit, once a smaller abstraction of `Catalogue` is found.
