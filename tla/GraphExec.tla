----------------------------- MODULE GraphExec -----------------------------
(***************************************************************************)
(* One execution of a workflow drawing: build_and_run_graph compiles it    *)
(* (runtime/graph_builder.py) and LangGraph runs it in supersteps over the *)
(* state of runtime/state.py, calling the nodes of runtime/nodes.py.       *)
(*                                                                         *)
(* LangGraph is external: the nodes of a superstep run in parallel on the  *)
(* state of its beginning, their updates are applied together at its end,  *)
(* and two updates of one key are an error, as no key but messages has a   *)
(* reducer.                                                                *)
(***************************************************************************)
EXTENDS GraphDrawing

CONSTANTS Graphs,   \* the drawings considered
          Limit     \* recursion_limit: supersteps of one run (100 in the code)

ASSUME GraphExecAssumption ==
    /\ Limit \in Nat \ {0}
    /\ \A g \in Graphs : IsDrawing(g)

VARIABLES
    graph,       \* the drawing of this run
    phase,       \* "new", "running", or how the run ended
    stop,        \* the user asked to stop the run
    plan,        \* nodes of the current superstep
    started, finished,   \* those that have begun and ended
    error,       \* "none", or what the first node to fail raised
    steps,       \* supersteps done
    outputs,     \* state.node_outputs: a dict, in insertion order
    last,        \* state.last_agent_node
    loops,       \* state.loop_counts
    lowTaken,    \* history: low branches each condition has really taken
    ran,         \* history: nodes that ran
    prev,        \* history: the last agent node that ran
    sent         \* history: for each notification, its author and the last agent then

state   == <<outputs, last, loops>>
history == <<lowTaken, ran, prev, sent>>
vars == <<graph, phase, stop, plan, started, finished, error, steps, state, history>>

-----------------------------------------------------------------------------
(* Node outputs.  Of a text only its verdict is kept, which conditions parse *)
(* ("none": nothing to parse), and the agent whose words it repeats.         *)

Verdicts == {"pass", "fail", "none"}

\* dict(outputs) with one key set: a key that is there keeps its place.
PutOutput_Appended(outs, out) == Append(outs, out)
PutOutput(outs, out) ==
    LET at == {i \in DOMAIN outs : outs[i].node = out.node}
    IN IF at = {} THEN Append(outs, out)
       ELSE [outs EXCEPT ![CHOOSE i \in at : TRUE] = out]

VerdictOf(id) ==
    LET found == {i \in DOMAIN outputs : outputs[i].node = id}
    IN IF found = {} THEN "none" ELSE outputs[CHOOSE i \in found : TRUE].verdict

\* evaluate_condition_branch: an unreadable flag passes, an unreadable confidence
\* (0.5) does not.
Passes(c) ==
    LET verdict == VerdictOf(last)
    IN verdict = "pass" \/ (verdict = "none" /\ NodeOf(graph, c).field = "flag")

TakesLow_OneMore(c) == ~Passes(c) /\ loops[c] <= MaxLoops(graph, c)
TakesLow_Always(c)  == ~Passes(c)
TakesLow(c) == ~Passes(c) /\ loops[c] < MaxLoops(graph, c)

\* create_channel_node sends the first value of node_outputs, or the task input.
ChannelText(n) ==
    IF outputs = <<>> THEN [node |-> n, verdict |-> "none", by |-> NoNode]
                      ELSE [outputs[1] EXCEPT !.node = n]

\* last_agent_node becomes the node that wrote, channels included.
LastAfter_AgentsOnly(n) == IF TypeOf(graph, n) = "agent" THEN n ELSE last
LastAfter(n) == n

-----------------------------------------------------------------------------
(* Supersteps *)

\* An end node, reached only by a condition's branch, returns the whole state.
WritesOutputs(n) == TypeOf(graph, n) \in {"agent", "channel", "end"}
WritesLoops(n)   == TypeOf(graph, n) \in {"condition", "end"}

Conflict_LoopsMerged(nodes) ==
    \E m, n \in nodes : m # n /\ WritesOutputs(m) /\ WritesOutputs(n)
Conflict(nodes) ==
    \E m, n \in nodes : /\ m # n
                        /\ \/ WritesOutputs(m) /\ WritesOutputs(n)
                           \/ WritesLoops(m) /\ WritesLoops(n)

Targets(n) ==
    IF TypeOf(graph, n) # "condition" THEN Successors(graph, n)
    ELSE {IF TakesLow(n) THEN LowBranch(graph, n) ELSE OkBranch(graph, n)}

Init ==
    /\ graph \in Graphs
    /\ phase = "new" /\ stop = FALSE /\ error = "none"
    /\ plan = {} /\ started = {} /\ finished = {} /\ steps = 0
    /\ outputs = <<>> /\ last = NoNode
    /\ loops = [c \in Conditions(graph) |-> 0]
    /\ lowTaken = [c \in Conditions(graph) |-> 0]
    /\ ran = {} /\ prev = NoNode /\ sent = {}

Compile ==
    /\ phase = "new"
    /\ \/ /\ Compiles(graph)
          /\ phase' = "running" /\ plan' = {Entry(graph)}
       \/ /\ ~Compiles(graph)
          /\ phase' = "failed" /\ UNCHANGED plan
    /\ UNCHANGED <<graph, stop, started, finished, error, steps, state, history>>

RequestStop ==
    /\ ~stop /\ stop' = TRUE
    /\ UNCHANGED <<graph, phase, plan, started, finished, error, steps, state, history>>

Raise(what) == error' \in IF error = "none" THEN {what} ELSE {error, what}

\* Every node but an end node first looks for a stop (ensure_run_not_cancelled).
\* Nodes that have not begun when a sibling fails are cancelled.
StartNode(n) ==
    /\ phase = "running" /\ error = "none" /\ n \in plan \ started
    /\ \/ /\ stop => TypeOf(graph, n) = "end"
          /\ started' = started \cup {n}
          /\ UNCHANGED error
       \/ /\ stop /\ TypeOf(graph, n) # "end"
          /\ Raise("stop")
          /\ UNCHANGED started
    /\ UNCHANGED <<graph, phase, stop, plan, finished, steps, state, history>>

FinishNode(n) ==
    /\ phase = "running" /\ n \in started \ finished
    /\ finished' = finished \cup {n}
    /\ UNCHANGED <<graph, phase, stop, plan, started, error, steps, state, history>>

\* The model, the delivery of a notification or a database write fails.
NodeRaises(n) ==
    /\ phase = "running" /\ n \in started \ finished
    /\ TypeOf(graph, n) # "end"
    /\ finished' = finished \cup {n}
    /\ Raise("error")
    /\ UNCHANGED <<graph, phase, stop, plan, started, steps, state, history>>

\* The run ends with the exception once the nodes that had begun have ended.
Unwind ==
    /\ phase = "running" /\ error # "none" /\ started = finished
    /\ phase' = IF error = "stop" THEN "cancelled" ELSE "failed"
    /\ plan' = {} /\ started' = {} /\ finished' = {}
    /\ UNCHANGED <<graph, stop, error, steps, state, history>>

StepDone == phase = "running" /\ error = "none" /\ plan # {} /\ finished = plan

\* InvalidUpdateError: two updates of one key.
StepConflicts ==
    /\ StepDone /\ Conflict(plan)
    /\ phase' = "failed"
    /\ plan' = {} /\ started' = {} /\ finished' = {}
    /\ UNCHANGED <<graph, stop, error, steps, state, history>>

\* The update of node_outputs and last_agent_node, from the one node that made it.
ApplyOutput ==
    LET authors == {n \in plan : TypeOf(graph, n) \in {"agent", "channel"}}
    IN \/ /\ authors = {}
          /\ UNCHANGED <<outputs, last, prev, sent>>
       \/ \E n \in authors :
            /\ last' = LastAfter(n)
            /\ \/ /\ TypeOf(graph, n) = "agent"
                  /\ \E v \in Verdicts :
                        outputs' = PutOutput(outputs, [node |-> n, verdict |-> v, by |-> n])
                  /\ prev' = n
                  /\ UNCHANGED sent
               \/ /\ TypeOf(graph, n) = "channel"
                  /\ outputs' = PutOutput(outputs, ChannelText(n))
                  /\ sent' = sent \cup {[by |-> ChannelText(n).by, latest |-> prev]}
                  /\ UNCHANGED prev

\* The update of loop_counts: a condition returns a copy with its own count changed.
ApplyLoops ==
    LET judges == {n \in plan : TypeOf(graph, n) = "condition"}
    IN /\ \/ judges = {} /\ UNCHANGED loops
          \/ \E c \in judges :
                loops' = IF TakesLow(c) THEN [loops EXCEPT ![c] = @ + 1] ELSE loops
       /\ lowTaken' = [c \in DOMAIN lowTaken |->
                           IF c \in judges /\ TakesLow(c) THEN lowTaken[c] + 1
                                                          ELSE lowTaken[c]]

StepsAfter_Uncounted == steps
StepsAfter == steps + 1

\* Whether a run that needs exactly Limit supersteps ends well depends on the
\* version of LangGraph; one that needs more does not.
EndStep ==
    LET next == UNION {Targets(n) : n \in plan}
    IN /\ StepDone /\ ~Conflict(plan)
       /\ ApplyOutput /\ ApplyLoops
       /\ steps' = StepsAfter
       /\ ran' = ran \cup plan
       /\ started' = {} /\ finished' = {}
       /\ \/ next = {} /\ phase' = "completed" /\ plan' = {}
          \/ next # {} /\ StepsAfter < Limit /\ phase' = "running" /\ plan' = next
          \/ StepsAfter = Limit /\ phase' = "exhausted" /\ plan' = {}
       /\ UNCHANGED <<graph, stop, error>>

Work == \/ Compile \/ Unwind \/ StepConflicts \/ EndStep
        \/ \E n \in plan : StartNode(n) \/ FinishNode(n) \/ NodeRaises(n)

Next == Work \/ RequestStop

Spec     == Init /\ [][Next]_vars
FairSpec == Spec /\ WF_vars(Work)

-----------------------------------------------------------------------------
(* Properties *)

Ended == {"completed", "failed", "cancelled", "exhausted"}

\* Types; only nodes of the plan run, nothing runs outside a superstep, and no node
\* has two outputs.
TypeOK ==
    /\ phase \in {"new", "running"} \cup Ended
    /\ stop \in BOOLEAN /\ error \in {"none", "stop", "error"}
    /\ plan \subseteq Ids(graph) /\ started \subseteq plan /\ finished \subseteq started
    /\ phase # "running" => plan = {}
    /\ steps \in 0 .. Limit
    /\ \A i \in DOMAIN outputs :
          outputs[i].node \in Ids(graph) /\ outputs[i].verdict \in Verdicts
    /\ \A i, j \in DOMAIN outputs : outputs[i].node = outputs[j].node => i = j
    /\ last \in Ids(graph) \cup {NoNode} /\ prev \in Ids(graph) \cup {NoNode}
    /\ loops \in [Conditions(graph) -> Nat] /\ lowTaken \in [Conditions(graph) -> Nat]
    /\ ran \subseteq Ids(graph)

\* loop_counts never forgets a round, although each condition writes the whole
\* dictionary: conditions of one superstep cannot overwrite each other's count.
LoopCountsAreTrue == loops = lowTaken

\* No condition takes its low branch more often than max_loops of the drawing,
\* whatever the agents answer.
LowBranchBounded ==
    \A c \in Conditions(graph) : lowTaken[c] > 0 => lowTaken[c] <= MaxLoops(graph, c)

\* The recursion limit is a net for drawings with an unlabelled cycle only: loops
\* through conditions end by themselves, if the limit allows for all their rounds.
Total(g, f) ==
    LET upTo[k \in 0 .. Len(g.nodes)] ==
            IF k = 0 THEN 0
            ELSE LET id == g.nodes[k].id
                 IN upTo[k - 1] + (IF id \in DOMAIN f THEN f[id] ELSE 0)
    IN upTo[Len(g.nodes)]
Rounds == [c \in Conditions(graph) |-> MaxLoops(graph, c)]
EnoughSteps == Limit > (Total(graph, Rounds) + 1) * Cardinality(Ids(graph))

LimitIsForPlainCycles ==
    phase = "exhausted" /\ EnoughSteps => HasPlainCycle(graph)

\* A completed run followed the drawing: whatever a node that ran points at has run,
\* and one of the branches of every condition.
CompletedDroppedNothing ==
    phase = "completed" => \A n \in ran :
        LET drawn == {e.to : e \in {f \in ToSet(graph.edges) : f.from = n}}
            plain == {e.to : e \in {f \in ToSet(graph.edges) :
                                        f.from = n /\ f.when = "none"}}
        IN CASE TypeOf(graph, n) = "condition" -> drawn \cap ran # {}
             [] TypeOf(graph, n) \in {"agent", "channel"} ->
                    plain \ OfType(graph, "end") \subseteq ran
             [] OTHER -> TRUE

\* A condition judges the node that points at it (the code looks at last_agent_node
\* instead), unless the drawing forks, chains conditions or starts with this one.
JudgesItsPredecessor ==
    \A c \in started : TypeOf(graph, c) = "condition" /\ ran # {} /\ IsSequential(graph) =>
        LET before == {n \in Ids(graph) : \E e \in ToSet(graph.edges) :
                                              e.from = n /\ e.to = c}
        IN before \cap Conditions(graph) = {} /\ before # {} => last \in before

\* The handoff message of an agent is addressed to the agent that runs next, if to
\* anyone, when the drawing does not fork and labels all branches; on a straight line
\* there always is such a message.
HandoffReachesNextAgent ==
    \A a \in started : TypeOf(graph, a) = "agent" /\ prev # NoNode =>
        /\ IsSequential(graph) /\ AllLabelled(graph) => NextAgent(graph, prev) \in {a, NoNode}
        /\ IsLine(graph) => NextAgent(graph, prev) = a

\* A run ends, also when a node fails or the user stops it.
RunEnds == phase = "new" ~> phase \in Ended

\* E2E_DEMO.md: the channel "sends last agent output".
ChannelSendsLastOutput == \A m \in sent : m.by = m.latest
=============================================================================
