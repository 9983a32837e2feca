-------------------------- MODULE GraphExec_proofs --------------------------
(***************************************************************************)
(* Every drawing, under every limit: the rounds of its conditions are      *)
(* counted and bounded, a completed run followed the drawing, where it     *)
(* does not fork a condition judges the node before it and a handoff names *)
(* the agent that comes next, and the recursion limit ends only a drawing  *)
(* with a cycle that has no low branch.                                    *)
(***************************************************************************)
EXTENDS GraphExec, FiniteSetTheorems, WellFoundedInduction, TLAPS

(* Reading a drawing *)

\* A set of naturals has a least member: what induction over a drawing rests on.
LEMMA LeastExists ==
    ASSUME NEW S, S \subseteq Nat, S # {}
    PROVE  \E m \in S : \A k \in S : m <= k
<1>1. \A k, m \in Nat : k < m => <<k, m>> \in OpToRel(<, Nat)
  BY DEF OpToRel
<1>2. \E x \in S : \A y \in S : ~(<<y, x>> \in OpToRel(<, Nat))
  BY NatLessThanWellFounded, WFMin, Zenon
<1>3. PICK x \in S : \A y \in S : ~(<<y, x>> \in OpToRel(<, Nat))
  BY <1>2, Zenon
<1>4. \A y \in S : ~(y < x)
  BY <1>1, <1>3, Zenon
<1>5. \A y \in S : x <= y
  BY <1>4
<1> QED
  BY <1>5

LEMMA MinIsIn ==
    ASSUME NEW S, S \subseteq Nat, S # {}
    PROVE  Min(S) \in S
BY LeastExists DEF Min

LEMMA MaxIsIn ==
    ASSUME NEW n \in Nat, NEW S, S \subseteq 1 .. n, S # {}
    PROVE  Max(S) \in S
<1> DEFINE Room == {n - x : x \in S}
<1>1. Room \subseteq Nat /\ Room # {}
  <2>1. \A x \in S : n - x \in Nat
    OBVIOUS
  <2>2. PICK x : x \in S
    OBVIOUS
  <2> QED
    BY <2>1, <2>2
<1>2. PICK r \in Room : \A k \in Room : r <= k
  BY <1>1, LeastExists
<1>3. PICK x \in S : r = n - x
  BY <1>2
<1>4. \A y \in S : n - x <= n - y
  BY <1>2, <1>3
<1>5. \A y \in S : x >= y
  BY <1>4
<1> QED
  BY <1>5 DEF Max

LEMMA SeqsOfDrawing ==
    ASSUME NEW g, IsDrawing(g)
    PROVE  /\ Len(g.nodes) \in Nat /\ DOMAIN g.nodes = 1 .. Len(g.nodes)
           /\ g.nodes # <<>> => 1 \in DOMAIN g.nodes
           /\ Len(g.edges) \in Nat /\ DOMAIN g.edges = 1 .. Len(g.edges)
           /\ \A i \in DOMAIN g.nodes : g.nodes[i].type \in NodeTypes /\ g.nodes[i].id # NoNode
           /\ \A i \in DOMAIN g.edges : g.edges[i].max_loops \in Nat \cup {NotGiven} /\ g.edges[i].to # NoNode
<1>1. PICK N, E : /\ N = [id : STRING \ {NoNode}, type : NodeTypes, field : STRING]
                  /\ E = [from : STRING, to : STRING \ {NoNode}, when : Whens, max_loops : Nat \cup {NotGiven}]
  OBVIOUS
<1>2. g.nodes \in Seq(N) /\ g.edges \in Seq(E)
  BY <1>1, Zenon DEF IsDrawing
<1>3. /\ \A r \in N : r.type \in NodeTypes /\ r.id # NoNode
      /\ \A r \in E : r.max_loops \in Nat \cup {NotGiven} /\ r.to # NoNode
  BY <1>1
<1> HIDE <1>1
<1>4. /\ Len(g.nodes) \in Nat /\ DOMAIN g.nodes = 1 .. Len(g.nodes)
      /\ g.nodes # <<>> => 1 \in DOMAIN g.nodes
      /\ Len(g.edges) \in Nat /\ DOMAIN g.edges = 1 .. Len(g.edges)
      /\ \A i \in DOMAIN g.nodes : g.nodes[i] \in N
      /\ \A i \in DOMAIN g.edges : g.edges[i] \in E
  BY <1>2
<1> QED
  BY <1>3, <1>4

\* The branches a condition chooses from are drawn, and its rounds are a number.
LEMMA BranchesAreDrawn ==
    ASSUME NEW g, IsDrawing(g), NEW c
    PROVE  /\ OkBranch(g, c) = NoNode
              \/ \E i \in Branches(g, c) : OkBranch(g, c) = g.edges[i].to
           /\ LowBranch(g, c) = NoNode
              \/ \E i \in Branches(g, c) : LowBranch(g, c) = g.edges[i].to
           /\ MaxLoops(g, c) \in Nat
<1>1. PICK all : all = Branches(g, c)
  OBVIOUS
<1>2. /\ Len(g.edges) \in Nat /\ all \subseteq 1 .. Len(g.edges) /\ all \subseteq Nat
      /\ \A i \in all : g.edges[i].max_loops \in Nat \cup {NotGiven}
  BY <1>1, SeqsOfDrawing DEF Branches
<1>3. \A S : S \subseteq all /\ S # {} => Max(S) \in S /\ Min(S) \in S
  <2> TAKE S
  <2> HAVE S \subseteq all /\ S # {}
  <2>1. S \subseteq 1 .. Len(g.edges) /\ S \subseteq Nat
    BY <1>2
  <2>2. Max(S) \in S
    BY <1>2, <2>1, MaxIsIn
  <2>3. Min(S) \in S
    BY <2>1, MinIsIn
  <2> QED
    BY <2>2, <2>3
<1>4. OkBranch(g, c) = NoNode \/ \E i \in all : OkBranch(g, c) = g.edges[i].to
  <2>1. PICK oks : oks = {i \in all : g.edges[i].when # "low"}
    OBVIOUS
  <2>2. OkBranch(g, c) = IF oks # {} THEN g.edges[Max(oks)].to
                         ELSE IF all # {} THEN g.edges[Min(all)].to ELSE NoNode
    BY <1>1, <2>1, Zenon DEF OkBranch
  <2>3. oks \subseteq all
    BY <2>1
  <2> QED
    BY <1>3, <2>2, <2>3
<1>5. LowBranch(g, c) = NoNode \/ \E i \in all : LowBranch(g, c) = g.edges[i].to
  <2>1. PICK lows, rest : /\ lows = {i \in all : g.edges[i].when = "low"}
                          /\ rest = all \ {Min(all)}
    OBVIOUS
  <2>2. LowBranch(g, c) = IF lows # {} THEN g.edges[Max(lows)].to
                          ELSE IF all # {} /\ rest # {} THEN g.edges[Min(rest)].to ELSE NoNode
    BY <1>1, <2>1, Zenon DEF LowBranch
  <2>3. lows \subseteq all /\ rest \subseteq all
    BY <2>1
  <2> QED
    BY <1>3, <2>2, <2>3
<1>6. MaxLoops(g, c) \in Nat
  <2>1. PICK limits : limits = {i \in all : g.edges[i].when = "low"
                                             /\ g.edges[i].max_loops # NotGiven}
    OBVIOUS
  <2>2. MaxLoops(g, c) = IF limits # {} THEN g.edges[Max(limits)].max_loops ELSE DefaultLoops
    BY <1>1, <2>1, Zenon DEF MaxLoops
  <2>3. limits \subseteq all
    BY <2>1
  <2>4. limits # {} => g.edges[Max(limits)].max_loops \in Nat
    BY <1>2, <1>3, <2>1, <2>3
  <2> QED
    BY <2>2, <2>4 DEF DefaultLoops
<1> QED
  BY <1>1, <1>4, <1>5, <1>6

LEMMA TypesOfNodes ==
    ASSUME NEW g, IsDrawing(g)
    PROVE  /\ \A n \in Ids(g) : TypeOf(g, n) \in NodeTypes
           /\ NoNode \notin Ids(g)
           /\ g.nodes # <<>> => Entry(g) \in Ids(g)
<1>1. \A n \in Ids(g) : \E i \in DOMAIN g.nodes : g.nodes[i].id = n
  BY DEF Ids
<1>2. \A n \in Ids(g) : \E i \in DOMAIN g.nodes : NodeOf(g, n) = g.nodes[i]
  BY <1>1 DEF NodeOf
<1>3. \A n \in Ids(g) : TypeOf(g, n) \in NodeTypes
  BY <1>2, SeqsOfDrawing DEF TypeOf
<1>4. NoNode \notin Ids(g)
  BY <1>1, SeqsOfDrawing
<1>5. ASSUME g.nodes # <<>>
      PROVE  Entry(g) \in Ids(g)
  <2>1. PICK starts : starts = {i \in DOMAIN g.nodes : ~HasIncoming(g, g.nodes[i].id)}
    OBVIOUS
  <2>2. PICK first : first = IF starts # {} THEN Min(starts) ELSE 1
    OBVIOUS
  <2>3. starts \subseteq DOMAIN g.nodes /\ starts \subseteq Nat /\ 1 \in DOMAIN g.nodes
    BY <1>5, <2>1, SeqsOfDrawing
  <2>4. first \in DOMAIN g.nodes
    BY <2>2, <2>3, MinIsIn
  <2>5. Entry(g) = g.nodes[first].id
    BY <2>1, <2>2, Zenon DEF Entry
  <2> QED
    BY <2>4, <2>5 DEF Ids
<1> QED
  BY <1>3, <1>4, <1>5

-----------------------------------------------------------------------------
(* Loops through conditions *)

CountsOK   == lowTaken \in [Conditions(graph) -> Nat]
LoopInv == graph \in Graphs /\ CountsOK /\ LoopCountsAreTrue /\ LowBranchBounded

\* Two conditions that write loop_counts in one superstep are an error.
LEMMA OneJudge ==
    ASSUME ~Conflict(plan), NEW c \in plan, NEW d \in plan,
           TypeOf(graph, c) = "condition", TypeOf(graph, d) = "condition"
    PROVE  c = d
BY DEF Conflict, WritesLoops

\* Hence the one update of loop_counts counts exactly the low branch that is taken.
LEMMA UpdateIsTrue ==
    ASSUME LoopInv, ~Conflict(plan), ApplyLoops
    PROVE  loops' = lowTaken'
<1> DEFINE judges == {n \in plan : TypeOf(graph, n) = "condition"}
<1>1. loops = lowTaken /\ DOMAIN lowTaken = Conditions(graph)
  BY DEF LoopInv, CountsOK, LoopCountsAreTrue
<1>2. lowTaken \in [Conditions(graph) -> Nat]
  BY DEF LoopInv, CountsOK
<1>3. lowTaken' = [c \in DOMAIN lowTaken |->
                     IF c \in judges /\ TakesLow(c) THEN lowTaken[c] + 1 ELSE lowTaken[c]]
  BY DEF ApplyLoops
<1>4. CASE judges = {} /\ UNCHANGED loops
  <2>1. lowTaken' = [c \in Conditions(graph) |-> lowTaken[c]]
    BY <1>1, <1>3, <1>4
  <2> QED
    BY <2>1, <1>1, <1>2, <1>4
<1>5. ASSUME NEW c \in judges,
             loops' = IF TakesLow(c) THEN [loops EXCEPT ![c] = @ + 1] ELSE loops
      PROVE  loops' = lowTaken'
  <2>1. \A d \in judges : d = c
    BY OneJudge, <1>5
  <2>2. CASE TakesLow(c)
    <3>1. lowTaken' = [d \in Conditions(graph) |->
                         IF d = c THEN lowTaken[d] + 1 ELSE lowTaken[d]]
      BY <1>1, <1>3, <1>5, <2>1, <2>2
    <3>2. loops' = [d \in Conditions(graph) |->
                         IF d = c THEN lowTaken[d] + 1 ELSE lowTaken[d]]
      BY <1>1, <1>2, <1>5, <2>2
    <3> QED
      BY <3>1, <3>2
  <2>3. CASE ~TakesLow(c)
    <3>1. lowTaken' = [d \in Conditions(graph) |-> lowTaken[d]]
      BY <1>1, <1>3, <2>1, <2>3
    <3> QED
      BY <3>1, <1>1, <1>2, <1>5, <2>3
  <2> QED
    BY <2>2, <2>3
<1> QED
  BY <1>4, <1>5 DEF ApplyLoops

\* A low branch that is taken was still allowed.
LEMMA UpdateIsBounded ==
    ASSUME LoopInv, graph' = graph, ApplyLoops
    PROVE  CountsOK' /\ LowBranchBounded'
<1>1. /\ lowTaken \in [Conditions(graph) -> Nat]
      /\ loops = lowTaken
      /\ graph \in Graphs
      /\ \A c \in Conditions(graph) : lowTaken[c] > 0 => lowTaken[c] <= MaxLoops(graph, c)
  BY DEF LoopInv, CountsOK, LoopCountsAreTrue, LowBranchBounded
<1>2. \A c \in Conditions(graph) : MaxLoops(graph, c) \in Int
  BY <1>1, GraphExecAssumption, BranchesAreDrawn
<1>3. PICK raised \in SUBSET Conditions(graph) :
          /\ lowTaken' = [c \in Conditions(graph) |->
                             IF c \in raised THEN lowTaken[c] + 1 ELSE lowTaken[c]]
          /\ \A c \in raised : loops[c] < MaxLoops(graph, c)
  <2> DEFINE raised == {c \in Conditions(graph) :
                           c \in {n \in plan : TypeOf(graph, n) = "condition"} /\ TakesLow(c)}
  <2>1. lowTaken' = [c \in Conditions(graph) |->
                        IF c \in raised THEN lowTaken[c] + 1 ELSE lowTaken[c]]
    BY <1>1 DEF ApplyLoops
  <2>2. \A c \in raised : loops[c] < MaxLoops(graph, c)
    BY DEF TakesLow
  <2> HIDE DEF raised
  <2>3. raised \in SUBSET Conditions(graph)
    BY DEF raised
  <2> QED
    BY <2>1, <2>2, <2>3
<1>4. CountsOK'
  BY <1>1, <1>3 DEF CountsOK
<1>5. ASSUME NEW c \in Conditions(graph), lowTaken'[c] > 0
      PROVE  lowTaken'[c] <= MaxLoops(graph, c)
  BY <1>1, <1>2, <1>3, <1>5
<1> QED
  BY <1>4, <1>5 DEF LowBranchBounded

LEMMA LoopInvInit == Init => LoopInv
BY DEF Init, LoopInv, CountsOK, LoopCountsAreTrue, LowBranchBounded

LEMMA LoopInvNext == LoopInv /\ [Next]_vars => LoopInv'
<1> SUFFICES ASSUME LoopInv, [Next]_vars PROVE LoopInv'
  OBVIOUS
<1>1. CASE EndStep
  <2>1. graph' = graph /\ ~Conflict(plan) /\ ApplyLoops
    BY <1>1 DEF EndStep
  <2>2. graph' \in Graphs
    BY <2>1 DEF LoopInv
  <2>3. LoopCountsAreTrue'
    BY <2>1, UpdateIsTrue DEF LoopCountsAreTrue
  <2> QED
    BY <2>1, <2>2, <2>3, UpdateIsBounded DEF LoopInv
<1>2. CASE UNCHANGED <<graph, loops, lowTaken>>
  BY <1>2 DEF LoopInv, CountsOK, LoopCountsAreTrue, LowBranchBounded
<1>3. CASE Compile \/ RequestStop \/ Unwind \/ StepConflicts
  BY <1>2, <1>3 DEF Compile, RequestStop, Unwind, StepConflicts, state, history
<1>4. CASE \E n \in plan : StartNode(n) \/ FinishNode(n) \/ NodeRaises(n)
  BY <1>2, <1>4 DEF StartNode, FinishNode, NodeRaises, state, history
<1>5. CASE UNCHANGED vars
  BY <1>2, <1>5 DEF vars, state, history
<1> QED
  BY <1>1, <1>3, <1>4, <1>5 DEF Next, Work

\* loop_counts never forgets a round, in any drawing: no interleaving of the nodes of
\* a superstep lets one condition overwrite the count of another.
THEOREM LoopCountsStayTrue == Spec => []LoopCountsAreTrue
<1>1. LoopInv => LoopCountsAreTrue
  BY DEF LoopInv
<1> QED
  BY LoopInvInit, LoopInvNext, <1>1, PTL DEF Spec

\* No condition sends the run back more often than its max_loops, in any drawing and
\* whatever the agents answer.
THEOREM LowBranchIsBounded == Spec => []LowBranchBounded
<1>1. LoopInv => LowBranchBounded
  BY DEF LoopInv
<1> QED
  BY LoopInvInit, LoopInvNext, <1>1, PTL DEF Spec

-----------------------------------------------------------------------------
(* A run follows the drawing *)

\* What the run is doing: its plan and its state speak of nodes of the drawing, which
\* compiled, and the limit is not yet used up.
Shaped ==
    /\ graph \in Graphs
    /\ phase \notin {"new", "failed"} => Compiles(graph)
    /\ phase = "new" => steps = 0 /\ ran = {}
    /\ phase = "running" => steps < Limit
    /\ outputs \in Seq([node : Ids(graph), verdict : Verdicts, by : Ids(graph) \cup {NoNode}])

\* Whatever a node that ran points at has run or is next, and one branch of a condition.
Followed ==
    phase \in {"running", "completed"} => \A n \in ran :
        /\ TypeOf(graph, n) = "condition" =>
              \E e \in ToSet(graph.edges) : e.from = n /\ e.to \in ran \cup plan
        /\ TypeOf(graph, n) \in {"agent", "channel"} => Successors(graph, n) \subseteq ran \cup plan

\* A drawing that does not fork has one node at a time, the node before it pointed at it,
\* and unless that was a condition its name is in last_agent_node.
OneByOne ==
    phase = "running" /\ IsSequential(graph) =>
        /\ \A x, y \in plan : x = y
        /\ \A x \in plan : ran # {} => \E e \in ToSet(graph.edges) :
              /\ e.to = x /\ e.from \in Ids(graph)
              /\ e.from \notin Conditions(graph) => last = e.from

ExecInv == TypeOK /\ Shaped /\ Followed /\ OneByOne

LEMMA SuccessorsAreDrawn ==
    ASSUME NEW g, IsDrawing(g), NEW n, Compiles(g)
    PROVE  /\ Successors(g, n) \subseteq Ids(g)
           /\ \A x \in Successors(g, n) : \E e \in ToSet(g.edges) :
                 e.from = n /\ e.to = x /\ e.when = "none" /\ TypeOf(g, n) \notin {"condition", "end"}
           /\ IsSequential(g) => \A x, y \in Successors(g, n) : x = y
<1>1. \A x \in Successors(g, n) : \E e \in ToSet(g.edges) :
         /\ e.from = n /\ e.to = x /\ x \in Ids(g) /\ e.when = "none"
         /\ TypeOf(g, n) \notin {"condition", "end"}
  BY DEF Successors, Wired, Compiles
<1>2. ASSUME IsSequential(g), NEW x \in Successors(g, n), NEW y \in Successors(g, n)
      PROVE  x = y
  <2>1. <<n, x>> \in Arrows(g) /\ <<n, y>> \in Arrows(g)
    BY <1>1, Zenon DEF Arrows
  <2>2. n \notin Conditions(g)
    BY <1>1 DEF Conditions, OfType
  <2>3. <<n, x>> = <<n, y>>
    BY <1>2, <2>1, <2>2 DEF IsSequential
  <2> QED
    BY <2>3
<1> QED
  BY <1>1, <1>2

\* Where a node leads: nodes of the drawing it points at, one from a condition.
LEMMA TargetsAreDrawn ==
    ASSUME graph \in Graphs, Compiles(graph), NEW n \in Ids(graph)
    PROVE  /\ Targets(n) \subseteq Ids(graph)
           /\ \A x \in Targets(n) : \E e \in ToSet(graph.edges) : e.from = n /\ e.to = x
           /\ TypeOf(graph, n) = "condition" => Targets(n) # {}
           /\ TypeOf(graph, n) # "condition" => Targets(n) = Successors(graph, n)
           /\ TypeOf(graph, n) = "end" => Targets(n) = {}
           /\ IsSequential(graph) => \A x, y \in Targets(n) : x = y
<1>1. IsDrawing(graph)
  BY GraphExecAssumption
<1>2. CASE TypeOf(graph, n) # "condition"
  BY <1>1, <1>2, SuccessorsAreDrawn DEF Targets
<1>3. CASE TypeOf(graph, n) = "condition"
  <2>1. n \in Conditions(graph)
    BY <1>3 DEF Conditions, OfType
  <2>2. PICK b : /\ Targets(n) = {b}
                 /\ b = OkBranch(graph, n) \/ b = LowBranch(graph, n)
    BY <1>3 DEF Targets
  <2>3. b # NoNode /\ \A i \in Branches(graph, n) : graph.edges[i].to \in Ids(graph)
    BY <2>1, <2>2 DEF Compiles
  <2>4. PICK i \in Branches(graph, n) : b = graph.edges[i].to
    BY <1>1, <2>2, <2>3, BranchesAreDrawn
  <2>5. graph.edges[i] \in ToSet(graph.edges) /\ graph.edges[i].from = n
    BY <2>4 DEF Branches, ToSet
  <2> QED
    BY <1>3, <2>2, <2>3, <2>4, <2>5
<1> QED
  BY <1>2, <1>3

LEMMA ExecInvInit == Init => ExecInv
<1> SUFFICES ASSUME Init PROVE ExecInv
  OBVIOUS
<1>1. loops \in [Conditions(graph) -> Nat] /\ lowTaken \in [Conditions(graph) -> Nat]
  BY DEF Init
<1>2. 0 \in 0 .. Limit
  BY GraphExecAssumption
<1>3. outputs = <<>> /\ stop = FALSE
  BY DEF Init
<1>4. TypeOK
  <2>1. /\ phase \in {"new", "running"} \cup Ended /\ stop \in BOOLEAN
        /\ error \in {"none", "stop", "error"} /\ steps \in 0 .. Limit
        /\ last \in Ids(graph) \cup {NoNode} /\ prev \in Ids(graph) \cup {NoNode}
    BY <1>2, <1>3 DEF Init
  <2>2. /\ plan \subseteq Ids(graph) /\ started \subseteq plan /\ finished \subseteq started
        /\ (phase # "running" => plan = {}) /\ ran \subseteq Ids(graph)
    BY DEF Init
  <2>3. DOMAIN outputs = {}
    BY <1>3
  <2> QED
    BY <1>1, <2>1, <2>2, <2>3 DEF TypeOK
<1>5. Shaped
  BY <1>3 DEF Init, Shaped
<1>6. Followed /\ OneByOne
  BY DEF Init, Followed, OneByOne
<1> QED
  BY <1>4, <1>5, <1>6 DEF ExecInv

\* Everything but the end of a superstep leaves alone what the nodes have done.
LEMMA QuietSteps ==
    ASSUME ExecInv, Compile \/ Unwind \/ StepConflicts \/ RequestStop
                    \/ (\E n \in plan : StartNode(n) \/ FinishNode(n) \/ NodeRaises(n))
    PROVE  ExecInv'
<1>1. UNCHANGED <<graph, steps, outputs, last, loops, lowTaken, ran, prev>>
  BY DEF Compile, Unwind, StepConflicts, RequestStop, StartNode, FinishNode, NodeRaises, state, history
<1>2. IsDrawing(graph) /\ Limit \in Nat \ {0}
  BY GraphExecAssumption DEF ExecInv, Shaped
<1>3. TypeOK /\ Shaped /\ Followed /\ OneByOne
  BY DEF ExecInv
<1>4. CASE Compile
  <2>1. Compiles(graph) => Entry(graph) \in Ids(graph)
    BY <1>2, TypesOfNodes DEF Compiles
  <2>2. /\ phase = "new" /\ ran = {} /\ steps = 0
        /\ UNCHANGED <<stop, started, finished, error>>
        /\ \/ Compiles(graph) /\ phase' = "running" /\ plan' = {Entry(graph)}
           \/ phase' = "failed" /\ plan' = plan
    BY <1>3, <1>4 DEF Compile, Shaped
  <2>3. TypeOK'
    BY <1>1, <1>3, <2>1, <2>2 DEF TypeOK, Ended
  <2>4. Shaped'
    BY <1>1, <1>2, <1>3, <2>2 DEF Shaped
  <2>5. Followed' /\ OneByOne'
    BY <1>1, <2>2 DEF Followed, OneByOne
  <2> QED
    BY <2>3, <2>4, <2>5 DEF ExecInv
<1>5. CASE Unwind \/ StepConflicts
  <2>1. /\ phase = "running" /\ phase' \in {"cancelled", "failed"}
        /\ plan' = {} /\ started' = {} /\ finished' = {}
        /\ UNCHANGED <<stop, error>>
    BY <1>5 DEF Unwind, StepConflicts, StepDone
  <2>2. TypeOK'
    BY <1>1, <1>3, <2>1 DEF TypeOK, Ended
  <2>3. Shaped'
    BY <1>1, <1>3, <2>1 DEF Shaped
  <2>4. Followed' /\ OneByOne'
    BY <2>1 DEF Followed, OneByOne
  <2> QED
    BY <2>2, <2>3, <2>4 DEF ExecInv
<1>6. CASE RequestStop \/ (\E n \in plan : StartNode(n) \/ FinishNode(n) \/ NodeRaises(n))
  <2>1. UNCHANGED <<phase, plan>>
    BY <1>6 DEF RequestStop, StartNode, FinishNode, NodeRaises
  <2>2. stop' \in BOOLEAN
    BY <1>3, <1>6 DEF TypeOK, RequestStop, StartNode, FinishNode, NodeRaises
  <2>3. error' \in {"none", "stop", "error"}
    BY <1>3, <1>6 DEF TypeOK, RequestStop, StartNode, FinishNode, NodeRaises, Raise
  <2>4. started' \subseteq plan /\ finished' \subseteq started' /\ (phase # "running" => plan = {})
    BY <1>3, <1>6 DEF TypeOK, RequestStop, StartNode, FinishNode, NodeRaises
  <2>5. TypeOK'
    BY <1>1, <1>3, <2>1, <2>2, <2>3, <2>4 DEF TypeOK
  <2>6. Shaped'
    BY <1>1, <1>3, <2>1 DEF Shaped
  <2>7. Followed' /\ OneByOne'
    BY <1>1, <1>3, <2>1 DEF Followed, OneByOne
  <2> QED
    BY <2>5, <2>6, <2>7 DEF ExecInv
<1> QED
  BY <1>4, <1>5, <1>6

\* A dictionary that is set at one key has one value for each key still.
LEMMA PutKeeps ==
    ASSUME NEW R, NEW outs \in Seq(R), NEW out \in R,
           \A i, j \in DOMAIN outs : outs[i].node = outs[j].node => i = j
    PROVE  /\ PutOutput(outs, out) \in Seq(R)
           /\ \A i, j \in DOMAIN PutOutput(outs, out) :
                 PutOutput(outs, out)[i].node = PutOutput(outs, out)[j].node => i = j
<1>1. PICK at : at = {i \in DOMAIN outs : outs[i].node = out.node}
  OBVIOUS
<1>2. PICK k : k = CHOOSE i \in at : TRUE
  OBVIOUS
<1>3. PICK new : new = PutOutput(outs, out)
  OBVIOUS
<1>4. new = IF at = {} THEN Append(outs, out) ELSE [outs EXCEPT ![k] = out]
  BY <1>1, <1>2, <1>3, Zenon DEF PutOutput
<1>5. CASE at = {}
  <2>1. new = Append(outs, out) /\ Len(outs) \in Nat /\ DOMAIN outs = 1 .. Len(outs)
    BY <1>4, <1>5
  <2>2. new \in Seq(R) /\ DOMAIN new = 1 .. Len(outs) + 1
    BY <2>1
  <2>3. /\ \A i \in DOMAIN outs : new[i] = outs[i] /\ outs[i].node # out.node
        /\ new[Len(outs) + 1] = out
    BY <1>1, <1>5, <2>1
  <2>4. ASSUME NEW i \in DOMAIN new, NEW j \in DOMAIN new, new[i].node = new[j].node
        PROVE  i = j
    BY <2>1, <2>2, <2>3, <2>4
  <2> QED
    BY <1>3, <2>2, <2>4
<1>6. CASE at # {}
  <2>1. k \in at
    BY <1>2, <1>6
  <2>2. k \in DOMAIN outs /\ outs[k].node = out.node
    BY <1>1, <2>1
  <2>3. new = [outs EXCEPT ![k] = out]
    BY <1>4, <1>6
  <2>4. new \in Seq(R) /\ DOMAIN new = DOMAIN outs
    BY <2>2, <2>3
  <2>5. \A i \in DOMAIN outs : new[i].node = outs[i].node
    BY <2>2, <2>3
  <2> QED
    BY <1>3, <2>4, <2>5
<1> QED
  BY <1>5, <1>6

LEMMA OutputsKeepTypes ==
    ASSUME ExecInv, graph' = graph, ApplyOutput
    PROVE  /\ outputs' \in Seq([node : Ids(graph), verdict : Verdicts, by : Ids(graph) \cup {NoNode}])
           /\ \A i, j \in DOMAIN outputs' : outputs'[i].node = outputs'[j].node => i = j
           /\ last' \in Ids(graph) \cup {NoNode} /\ prev' \in Ids(graph) \cup {NoNode}
<1>1. PICK R : R = [node : Ids(graph), verdict : Verdicts, by : Ids(graph) \cup {NoNode}]
  OBVIOUS
<1>2. /\ outputs \in Seq(R)
      /\ \A i, j \in DOMAIN outputs : outputs[i].node = outputs[j].node => i = j
      /\ last \in Ids(graph) \cup {NoNode} /\ prev \in Ids(graph) \cup {NoNode}
      /\ plan \subseteq Ids(graph)
  BY <1>1 DEF ExecInv, TypeOK, Shaped
<1>3. ASSUME NEW n \in plan, NEW v \in Verdicts
      PROVE  [node |-> n, verdict |-> v, by |-> n] \in R
  BY <1>1, <1>2, <1>3
<1>4. ASSUME NEW n \in plan
      PROVE  ChannelText(n) \in R
  <2>1. CASE outputs = <<>>
    BY <1>1, <1>2, <2>1 DEF ChannelText, Verdicts
  <2>2. CASE outputs # <<>>
    <3>1. outputs[1] \in R
      BY <1>2, <2>2
    <3>2. [outputs[1] EXCEPT !.node = n] \in R
      BY <1>1, <1>2, <3>1
    <3> QED
      BY <2>2, <3>2 DEF ChannelText
  <2> QED
    BY <2>1, <2>2
<1>5. \/ UNCHANGED <<outputs, last, prev>>
      \/ \E n \in plan, out \in R :
           /\ outputs' = PutOutput(outputs, out) /\ last' = n /\ prev' \in {n, prev}
  BY <1>3, <1>4 DEF ApplyOutput, LastAfter
<1>6. CASE UNCHANGED <<outputs, last, prev>>
  BY <1>1, <1>2, <1>6
<1>7. ASSUME NEW n \in plan, NEW out \in R,
             outputs' = PutOutput(outputs, out), last' = n, prev' \in {n, prev}
      PROVE  /\ outputs' \in Seq(R)
             /\ \A i, j \in DOMAIN outputs' : outputs'[i].node = outputs'[j].node => i = j
             /\ last' \in Ids(graph) \cup {NoNode} /\ prev' \in Ids(graph) \cup {NoNode}
  BY <1>2, <1>7, PutKeeps
<1> QED
  BY <1>1, <1>5, <1>6, <1>7

LEMMA LoopsKeepTypes ==
    ASSUME ExecInv, ApplyLoops
    PROVE  loops' \in [Conditions(graph) -> Nat] /\ lowTaken' \in [Conditions(graph) -> Nat]
<1>1. loops \in [Conditions(graph) -> Nat] /\ lowTaken \in [Conditions(graph) -> Nat]
  BY DEF ExecInv, TypeOK
<1>2. loops' = loops \/ \E c : loops' = [loops EXCEPT ![c] = @ + 1]
  BY DEF ApplyLoops
<1>3. \E S : lowTaken' = [c \in Conditions(graph) |->
                             IF c \in S THEN lowTaken[c] + 1 ELSE lowTaken[c]]
  <2>1. PICK S : S = {c \in Conditions(graph) :
                         c \in {n \in plan : TypeOf(graph, n) = "condition"} /\ TakesLow(c)}
    OBVIOUS
  <2>2. lowTaken' = [c \in Conditions(graph) |->
                        IF c \in S THEN lowTaken[c] + 1 ELSE lowTaken[c]]
    BY <1>1, <2>1 DEF ApplyLoops
  <2> QED
    BY <2>2
<1> QED
  BY <1>1, <1>2, <1>3

\* The end of a superstep.
LEMMA EndStepKeeps ==
    ASSUME ExecInv, EndStep
    PROVE  ExecInv'
<1>1. TypeOK /\ Shaped /\ Followed /\ OneByOne
  BY DEF ExecInv
<1>2. PICK next : next = UNION {Targets(n) : n \in plan}
  OBVIOUS
<1>3. /\ phase = "running" /\ plan # {} /\ ApplyOutput /\ ApplyLoops
      /\ UNCHANGED <<graph, stop, error>>
      /\ steps' = steps + 1 /\ ran' = ran \cup plan /\ started' = {} /\ finished' = {}
      /\ \/ next = {} /\ phase' = "completed" /\ plan' = {}
         \/ next # {} /\ steps + 1 < Limit /\ phase' = "running" /\ plan' = next
         \/ steps + 1 = Limit /\ phase' = "exhausted" /\ plan' = {}
  BY <1>2 DEF EndStep, StepDone, StepsAfter
<1>4. Compiles(graph) /\ graph \in Graphs /\ steps < Limit /\ steps \in Nat
      /\ plan \subseteq Ids(graph) /\ ran \subseteq Ids(graph) /\ Limit \in Nat
  BY <1>1, <1>3, GraphExecAssumption DEF TypeOK, Shaped
<1>5. next \subseteq Ids(graph)
  BY <1>2, <1>4, TargetsAreDrawn
<1>6. TypeOK'
  <2>1. steps' \in 0 .. Limit
    BY <1>3, <1>4
  <2>2. /\ \A i \in DOMAIN outputs' : outputs'[i].node \in Ids(graph) /\ outputs'[i].verdict \in Verdicts
        /\ \A i, j \in DOMAIN outputs' : outputs'[i].node = outputs'[j].node => i = j
        /\ last' \in Ids(graph) \cup {NoNode} /\ prev' \in Ids(graph) \cup {NoNode}
    <3>1. PICK R : R = [node : Ids(graph), verdict : Verdicts, by : Ids(graph) \cup {NoNode}]
      OBVIOUS
    <3>2. \A r \in R : r.node \in Ids(graph) /\ r.verdict \in Verdicts
      BY <3>1
    <3>3. /\ outputs' \in Seq(R)
          /\ \A i, j \in DOMAIN outputs' : outputs'[i].node = outputs'[j].node => i = j
          /\ last' \in Ids(graph) \cup {NoNode} /\ prev' \in Ids(graph) \cup {NoNode}
      BY <1>3, <3>1, OutputsKeepTypes, Zenon
    <3>4. \A i \in DOMAIN outputs' : outputs'[i] \in R
      BY <3>3
    <3> QED
      BY <3>2, <3>3, <3>4
  <2> QED
    BY <1>1, <1>3, <1>4, <1>5, <2>1, <2>2, LoopsKeepTypes DEF TypeOK, Ended
<1>7. Shaped'
  BY <1>3, <1>4, OutputsKeepTypes DEF Shaped
<1>8. Followed'
  <2>1. SUFFICES ASSUME phase' \in {"running", "completed"}, NEW n \in ran'
                 PROVE  /\ TypeOf(graph, n) = "condition" =>
                             \E e \in ToSet(graph.edges) : e.from = n /\ e.to \in ran' \cup plan'
                        /\ TypeOf(graph, n) \in {"agent", "channel"} =>
                             Successors(graph, n) \subseteq ran' \cup plan'
    BY <1>3 DEF Followed
  <2>2. plan' = next
    BY <1>3, <2>1
  <2>3. CASE n \in ran
    BY <1>1, <1>3, <2>3 DEF Followed
  <2>4. CASE n \in plan
    <3>1. Targets(n) \subseteq plan'
      BY <1>2, <2>2, <2>4
    <3>2. n \in Ids(graph)
      BY <1>4, <2>4
    <3> QED
      BY <1>4, <3>1, <3>2, TargetsAreDrawn
  <2> QED
    BY <1>3, <2>3, <2>4
<1>9. OneByOne'
  <2>1. SUFFICES ASSUME phase' = "running", IsSequential(graph)
                 PROVE  /\ \A x, y \in plan' : x = y
                        /\ \A x \in plan' : \E e \in ToSet(graph.edges) :
                              /\ e.to = x /\ e.from \in Ids(graph)
                              /\ e.from \notin Conditions(graph) => last' = e.from
    BY <1>3 DEF OneByOne
  <2>2. PICK p \in plan : \A x \in plan : x = p
    BY <1>1, <1>3, <2>1 DEF OneByOne
  <2>3. plan' = Targets(p) /\ p \in Ids(graph)
    BY <1>2, <1>3, <1>4, <2>1, <2>2
  <2>4. TypeOf(graph, p) \in {"agent", "channel"} => last' = p
    BY <1>3, <2>2 DEF ApplyOutput, LastAfter
  <2>5. \A x, y \in plan' : x = y
    BY <1>4, <2>1, <2>3, TargetsAreDrawn
  <2>6. ASSUME NEW x \in plan'
        PROVE  \E e \in ToSet(graph.edges) :
                  /\ e.to = x /\ e.from \in Ids(graph)
                  /\ e.from \notin Conditions(graph) => last' = e.from
    <3>1. PICK e \in ToSet(graph.edges) : e.from = p /\ e.to = x
      BY <1>4, <2>3, <2>6, TargetsAreDrawn
    <3>2. TypeOf(graph, p) \in NodeTypes /\ TypeOf(graph, p) # "end"
      BY <1>4, <2>3, <2>6, GraphExecAssumption, TargetsAreDrawn, TypesOfNodes
    <3>3. p \notin Conditions(graph) => TypeOf(graph, p) # "condition"
      BY <2>3 DEF Conditions, OfType
    <3> QED
      BY <2>3, <2>4, <3>1, <3>2, <3>3 DEF NodeTypes
  <2> QED
    BY <2>5, <2>6
<1> QED
  BY <1>6, <1>7, <1>8, <1>9 DEF ExecInv

\* The invariant of an execution holds for every drawing and every limit.
THEOREM ExecInvariant == Spec => []ExecInv
<1>1. ASSUME ExecInv, UNCHANGED vars PROVE ExecInv'
  BY <1>1 DEF ExecInv, TypeOK, Shaped, Followed, OneByOne, vars, state, history
<1>2. ExecInv /\ [Next]_vars => ExecInv'
  BY <1>1, QuietSteps, EndStepKeeps DEF Next, Work
<1> QED
  BY <1>2, ExecInvInit, PTL DEF Spec

\* The types of an execution: one output per node, and only nodes of the plan run.
THEOREM TypesAreKept == Spec => []TypeOK
<1>1. ExecInv => TypeOK
  BY DEF ExecInv
<1> QED
  BY <1>1, ExecInvariant, PTL

\* A completed run followed its drawing, whichever drawing it is.
THEOREM CompletedRunsFollowTheDrawing == Spec => []CompletedDroppedNothing
<1>1. ASSUME ExecInv PROVE CompletedDroppedNothing
  <2>1. SUFFICES ASSUME phase = "completed", NEW n \in ran,
                        NEW drawn, drawn = {e.to : e \in {f \in ToSet(graph.edges) : f.from = n}},
                        NEW plain, plain = {e.to : e \in {f \in ToSet(graph.edges) :
                                                            f.from = n /\ f.when = "none"}}
                 PROVE  /\ TypeOf(graph, n) = "condition" => drawn \cap ran # {}
                        /\ TypeOf(graph, n) \in {"agent", "channel"} =>
                              plain \ OfType(graph, "end") \subseteq ran
    BY DEF CompletedDroppedNothing
  <2>2. plan = {} /\ Compiles(graph)
    BY <1>1, <2>1 DEF ExecInv, TypeOK, Shaped
  <2>3. /\ TypeOf(graph, n) = "condition" =>
              \E e \in ToSet(graph.edges) : e.from = n /\ e.to \in ran
        /\ TypeOf(graph, n) \in {"agent", "channel"} => Successors(graph, n) \subseteq ran
    BY <1>1, <2>1, <2>2 DEF ExecInv, Followed
  <2>4. ASSUME TypeOf(graph, n) \in {"agent", "channel"}, NEW x \in plain \ OfType(graph, "end")
        PROVE  x \in Successors(graph, n)
    <3>1. PICK e \in ToSet(graph.edges) : e.from = n /\ e.when = "none" /\ e.to = x
      BY <2>1, <2>4
    <3>2. e \in Wired(graph)
      BY <2>4, <3>1 DEF Wired
    <3>3. x \in Ids(graph)
      BY <2>2, <3>1, <3>2 DEF Compiles
    <3> QED
      BY <2>4, <3>1, <3>2, <3>3 DEF Successors, OfType
  <2> QED
    BY <2>1, <2>3, <2>4
<1> QED
  BY <1>1, ExecInvariant, PTL

\* In a drawing that does not fork a condition judges the node before it.
THEOREM ConditionsJudgeTheirPredecessor == Spec => []JudgesItsPredecessor
<1>1. ASSUME ExecInv PROVE JudgesItsPredecessor
  <2>1. SUFFICES ASSUME NEW c \in started, ran # {}, IsSequential(graph),
                        NEW before, before = {n \in Ids(graph) : \E e \in ToSet(graph.edges) :
                                                                    e.from = n /\ e.to = c},
                        before \cap Conditions(graph) = {}
                 PROVE  last \in before
    BY DEF JudgesItsPredecessor
  <2>2. c \in plan /\ phase = "running"
    BY <1>1, <2>1 DEF ExecInv, TypeOK
  <2>3. PICK e \in ToSet(graph.edges) :
           /\ e.to = c /\ e.from \in Ids(graph)
           /\ e.from \notin Conditions(graph) => last = e.from
    BY <1>1, <2>1, <2>2 DEF ExecInv, OneByOne
  <2> QED
    BY <2>1, <2>3
<1> QED
  BY <1>1, ExecInvariant, PTL

-----------------------------------------------------------------------------
(* Handoffs: the breadth-first chain of agents *)

Start(g) == [queue |-> <<Entry(g)>>, visited |-> {}, order |-> <<>>]
PlainEdges(g, S) == {i \in DOMAIN g.edges : g.edges[i].from \in S /\ g.edges[i].when = "none"}
Plain(g, n) == {g.edges[i].to : i \in PlainEdges(g, {n})}
Walked(g) == {Entry(g)} \cup {g.edges[i].to : i \in DOMAIN g.edges}

\* Induction over the naturals, for a set.
LEMMA SetInduction ==
    ASSUME NEW S, 0 \in S, \A n \in Nat : n \in S => n + 1 \in S
    PROVE  Nat \subseteq S
<1> SUFFICES ASSUME Nat \ S # {} PROVE FALSE
  OBVIOUS
<1>1. PICK m \in Nat \ S : \A k \in Nat \ S : m <= k
  BY LeastExists
<1>2. m # 0 /\ m - 1 \in Nat
  BY <1>1
<1>3. m - 1 \in S
  BY <1>1, <1>2
<1>4. (m - 1) + 1 \in S
  BY <1>2, <1>3
<1> QED
  BY <1>1, <1>4

\* The walk is what its recursion says.
LEMMA WalkIsRecursive ==
    ASSUME NEW g, IsDrawing(g)
    PROVE  /\ Walk(g)[0] = Start(g)
           /\ \A k \in 1 .. ChainSteps(g) : Walk(g)[k] = ChainStep(g, Walk(g)[k - 1])
<1> DEFINE Rec(n, f) == f = [k \in 0 .. n |-> IF k = 0 THEN Start(g) ELSE ChainStep(g, f[k - 1])]
           Good == {n \in Nat : \E f : Rec(n, f)}
<1>1. 0 \in Good
  <2>1. PICK f : f = [k \in 0 .. 0 |-> Start(g)]
    OBVIOUS
  <2>2. Rec(0, f)
    BY <2>1
  <2> QED
    BY <2>2
<1>2. ASSUME NEW n \in Nat, n \in Good
      PROVE  n + 1 \in Good
  <2>1. PICK f : Rec(n, f)
    BY <1>2
  <2>2. PICK h : h = [k \in 0 .. n + 1 |-> IF k = n + 1 THEN ChainStep(g, f[n]) ELSE f[k]]
    OBVIOUS
  <2>3. ASSUME NEW k \in 0 .. n + 1
        PROVE  h[k] = IF k = 0 THEN Start(g) ELSE ChainStep(g, h[k - 1])
    BY <2>1, <2>2
  <2>4. Rec(n + 1, h)
    BY <2>2, <2>3
  <2> QED
    BY <2>4
<1> HIDE DEF Good
<1>3. Nat \subseteq Good
  BY <1>1, <1>2, SetInduction
<1>4. ChainSteps(g) \in Nat
  BY SeqsOfDrawing DEF ChainSteps
<1>5. \E f : Rec(ChainSteps(g), f)
  BY <1>3, <1>4 DEF Good
<1>6. Walk(g) = CHOOSE f : Rec(ChainSteps(g), f)
  BY DEF Walk, Start
<1>7. Rec(ChainSteps(g), Walk(g))
  BY <1>5, <1>6
<1> HIDE DEF Rec
<1>8. Walk(g) = [k \in 0 .. ChainSteps(g) |-> IF k = 0 THEN Start(g) ELSE ChainStep(g, Walk(g)[k - 1])]
  BY <1>7 DEF Rec
<1> QED
  BY <1>4, <1>8

\* The members of a sequence.
Elems(q) == {q[i] : i \in DOMAIN q}

LEMMA InElems ==
    ASSUME NEW q
    PROVE  /\ \A i \in DOMAIN q : q[i] \in Elems(q)
           /\ \A x \in Elems(q) : \E i \in DOMAIN q : q[i] = x
BY DEF Elems

\* Where a node leads, one edge after the other.
TargetsIn(s) == {s[k].to : k \in DOMAIN s}
Taken(e, id, when, q) == IF e.from = id /\ e.when = when THEN Append(q, e.to) ELSE q

StepByStep(s, id, when, u) ==
    /\ u[0] = <<>> /\ \A k \in 1 .. Len(s) : u[k] = Taken(s[k], id, when, u[k - 1])
    /\ \A k \in 0 .. Len(s) : u[k] \in Seq(TargetsIn(s))
    /\ Labelled(s, id, when) = u[Len(s)]

LEMMA LabelledSteps ==
    ASSUME NEW E, NEW s \in Seq(E), NEW id, NEW when
    PROVE  \E u : StepByStep(s, id, when, u)
<1> DEFINE Rec(m, f) == f = [k \in 0 .. m |-> IF k = 0 THEN <<>> ELSE Taken(s[k], id, when, f[k - 1])]
           Good == {m \in Nat : \E f : Rec(m, f)}
<1>1. 0 \in Good
  <2>1. PICK f : f = [k \in 0 .. 0 |-> <<>>]
    OBVIOUS
  <2>2. Rec(0, f)
    BY <2>1
  <2> QED
    BY <2>2
<1>2. ASSUME NEW m \in Nat, m \in Good
      PROVE  m + 1 \in Good
  <2>1. PICK f : Rec(m, f)
    BY <1>2
  <2>2. PICK h : h = [k \in 0 .. m + 1 |-> IF k = m + 1 THEN Taken(s[m + 1], id, when, f[m]) ELSE f[k]]
    OBVIOUS
  <2>3. ASSUME NEW k \in 0 .. m + 1
        PROVE  h[k] = IF k = 0 THEN <<>> ELSE Taken(s[k], id, when, h[k - 1])
    BY <2>1, <2>2
  <2>4. Rec(m + 1, h)
    BY <2>2, <2>3
  <2> QED
    BY <2>4
<1> HIDE DEF Good
<1>3. Nat \subseteq Good
  BY <1>1, <1>2, SetInduction
<1>4. PICK len \in Nat : len = Len(s) /\ DOMAIN s = 1 .. len
  OBVIOUS
<1>5. PICK u : Rec(len, u) /\ Labelled(s, id, when) = u[len]
  <2>1. \E f : Rec(len, f)
    BY <1>3 DEF Good
  <2>2. Labelled(s, id, when) = (CHOOSE f : Rec(len, f))[len]
    BY <1>4 DEF Labelled, Taken
  <2> QED
    BY <2>1, <2>2
<1>6. u[0] = <<>> /\ \A k \in 1 .. len : u[k] = Taken(s[k], id, when, u[k - 1])
  <2> HIDE DEF Rec
  <2>1. u = [k \in 0 .. len |-> IF k = 0 THEN <<>> ELSE Taken(s[k], id, when, u[k - 1])]
    BY <1>5 DEF Rec
  <2> QED
    BY <2>1
<1> HIDE DEF Rec
<1> DEFINE Done == {k \in Nat : k <= len => u[k] \in Seq(TargetsIn(s))}
<1>7. 0 \in Done
  <2>1. <<>> \in Seq(TargetsIn(s))
    OBVIOUS
  <2> QED
    BY <1>6, <2>1
<1>8. ASSUME NEW k \in Nat, k \in Done
      PROVE  k + 1 \in Done
  <2>1. SUFFICES ASSUME k + 1 <= len PROVE u[k + 1] \in Seq(TargetsIn(s))
    OBVIOUS
  <2>2. u[k] \in Seq(TargetsIn(s)) /\ k + 1 \in 1 .. len /\ (k + 1) - 1 = k
    BY <1>8, <2>1
  <2>3. s[k + 1].to \in TargetsIn(s)
    BY <1>4, <2>2 DEF TargetsIn
  <2>4. u[k + 1] = Taken(s[k + 1], id, when, u[k])
    BY <1>6, <2>2
  <2> QED
    BY <2>2, <2>3, <2>4 DEF Taken
<1> HIDE DEF Done
<1>9. Nat \subseteq Done
  BY <1>7, <1>8, SetInduction
<1>10. \A k \in 0 .. len : u[k] \in Seq(TargetsIn(s))
  BY <1>9 DEF Done
<1> QED
  BY <1>4, <1>5, <1>6, <1>10 DEF StepByStep

\* The targets that the walk enqueues are those of the unlabelled edges, one for each.
LEMMA UnlabelledIsPlain ==
    ASSUME NEW g, IsDrawing(g), NEW n
    PROVE  /\ Unlabelled(g, n) \in Seq(Plain(g, n))
           /\ Elems(Unlabelled(g, n)) = Plain(g, n)
           /\ IsFiniteSet(PlainEdges(g, {n}))
           /\ Len(Unlabelled(g, n)) = Cardinality(PlainEdges(g, {n}))
<1> DEFINE Next1(s, k) == Taken(g.edges[k], n, "none", s)
<1>4. PICK len \in Nat : len = Len(g.edges) /\ DOMAIN g.edges = 1 .. len
  BY SeqsOfDrawing
<1>5. PICK E, es : es = g.edges /\ es \in Seq(E)
  BY DEF IsDrawing
<1>3. PICK upTo : StepByStep(es, n, "none", upTo)
  BY <1>5, LabelledSteps, Zenon
<1>6. /\ upTo[0] = <<>> /\ \A k \in 1 .. len : upTo[k] = Next1(upTo[k - 1], k)
      /\ Unlabelled(g, n) = upTo[len]
  BY <1>3, <1>4, <1>5, Zenon DEF Unlabelled, StepByStep
<1> HIDE DEF Next1
<1> DEFINE Among(k) == {i \in 1 .. k : g.edges[i].from = n /\ g.edges[i].when = "none"}
           Fine(k) == /\ upTo[k] \in Seq(Plain(g, n))
                      /\ \A i \in Among(k) : \E j \in DOMAIN upTo[k] : upTo[k][j] = g.edges[i].to
                      /\ IsFiniteSet(Among(k)) /\ Len(upTo[k]) = Cardinality(Among(k))
           Done == {k \in Nat : k <= len => Fine(k)}
<1>7. 0 \in Done
  <2>1. Among(0) = {} /\ upTo[0] = <<>>
    BY <1>6
  <2>2. Fine(0)
    BY <2>1, FS_EmptySet
  <2> QED
    BY <2>2
<1>8. ASSUME NEW k \in Nat, k \in Done
      PROVE  k + 1 \in Done
  <2>1. SUFFICES ASSUME k + 1 <= len PROVE Fine(k + 1)
    OBVIOUS
  <2>2. Fine(k) /\ k + 1 \in 1 .. len
    BY <1>8, <2>1
  <2>3. upTo[k + 1] = Next1(upTo[k], k + 1)
    BY <1>6, <2>2
  <2>4. CASE g.edges[k + 1].from = n /\ g.edges[k + 1].when = "none"
    <3>1. upTo[k + 1] = Append(upTo[k], g.edges[k + 1].to)
      BY <2>3, <2>4 DEF Next1, Taken
    <3>2. Among(k + 1) = Among(k) \cup {k + 1} /\ k + 1 \notin Among(k)
      BY <2>4
    <3>3. g.edges[k + 1].to \in Plain(g, n)
      BY <1>4, <2>2, <2>4 DEF Plain, PlainEdges
    <3> HIDE DEF Among
    <3>4. IsFiniteSet(Among(k + 1)) /\ Cardinality(Among(k + 1)) = Cardinality(Among(k)) + 1
      <4>1. IsFiniteSet(Among(k))
        BY <2>2
      <4> QED
        BY <3>2, <4>1, FS_AddElement
    <3>5. upTo[k + 1] \in Seq(Plain(g, n)) /\ Len(upTo[k + 1]) = Len(upTo[k]) + 1
      BY <2>2, <3>1, <3>3
    <3>6. ASSUME NEW i \in Among(k + 1)
          PROVE  \E j \in DOMAIN upTo[k + 1] : upTo[k + 1][j] = g.edges[i].to
      <4>1. CASE i \in Among(k)
        <5>1. PICK j \in DOMAIN upTo[k] : upTo[k][j] = g.edges[i].to
          BY <2>2, <4>1
        <5> QED
          BY <2>2, <3>1, <5>1
      <4>2. CASE i = k + 1
        <5>1. Len(upTo[k]) + 1 \in DOMAIN upTo[k + 1] /\ upTo[k + 1][Len(upTo[k]) + 1] = g.edges[i].to
          BY <2>2, <3>1, <4>2
        <5> QED
          BY <5>1
      <4> QED
        BY <3>2, <3>6, <4>1, <4>2
    <3> QED
      BY <2>2, <3>4, <3>5, <3>6
  <2>5. CASE ~(g.edges[k + 1].from = n /\ g.edges[k + 1].when = "none")
    <3>1. upTo[k + 1] = upTo[k]
      BY <2>3, <2>5 DEF Next1, Taken
    <3>2. Among(k + 1) = Among(k)
      BY <2>5
    <3> HIDE DEF Among
    <3> QED
      BY <2>2, <3>1, <3>2
  <2> QED
    BY <2>4, <2>5
<1>9. Among(len) = PlainEdges(g, {n})
  BY <1>4 DEF PlainEdges
<1> HIDE DEF Done, Among
<1>10. len \in Done
  BY <1>7, <1>8, SetInduction
<1>11. Fine(len)
  BY <1>10 DEF Done
<1>12. \A x \in Plain(g, n) : \E i \in Among(len) : x = g.edges[i].to
  BY <1>9 DEF Plain
<1>13. PICK s : s = Unlabelled(g, n) /\ s = upTo[len]
  BY <1>6
<1>14. /\ s \in Seq(Plain(g, n)) /\ \A i \in Among(len) : \E j \in DOMAIN s : s[j] = g.edges[i].to
       /\ IsFiniteSet(Among(len)) /\ Len(s) = Cardinality(Among(len))
  BY <1>11, <1>13
<1>15. \A x \in Plain(g, n) : \E j \in DOMAIN s : s[j] = x
  BY <1>12, <1>14
<1>16. \A j \in DOMAIN s : s[j] \in Plain(g, n)
  BY <1>14
<1>17. \A x : x \in Elems(s) <=> x \in Plain(g, n)
  BY <1>15, <1>16, InElems
<1> QED
  BY <1>9, <1>13, <1>14, <1>17

\* The nodes that the walk has still to visit.
Ahead(s) == Elems(s.queue) \ s.visited
WalkStates(g) == [queue : Seq(Walked(g)), visited : SUBSET Walked(g), order : Seq(Walked(g))]

LEMMA ElemsOfTail ==
    ASSUME NEW U, NEW q \in Seq(U), q # <<>>
    PROVE  /\ Head(q) \in U /\ Tail(q) \in Seq(U) /\ Len(Tail(q)) = Len(q) - 1
           /\ Elems(q) = Elems(Tail(q)) \cup {Head(q)}
<1>1. PICK h, r : h = Head(q) /\ r = Tail(q)
  OBVIOUS
<1>2. /\ h = q[1] /\ h \in U /\ r \in Seq(U) /\ Len(r) = Len(q) - 1
      /\ Len(q) \in Nat \ {0} /\ DOMAIN q = 1 .. Len(q) /\ DOMAIN r = 1 .. Len(q) - 1
      /\ \A i \in DOMAIN r : r[i] = q[i + 1]
  BY <1>1
<1>3. ASSUME NEW x \in Elems(q)
      PROVE  x \in Elems(r) \cup {h}
  <2>1. PICK i \in DOMAIN q : q[i] = x
    BY <1>3, InElems
  <2>2. CASE i # 1
    <3>1. i - 1 \in DOMAIN r /\ r[i - 1] = x
      BY <1>2, <2>1, <2>2
    <3> QED
      BY <3>1, InElems
  <2> QED
    BY <1>2, <2>1, <2>2
<1>4. ASSUME NEW x \in Elems(r)
      PROVE  x \in Elems(q)
  <2>1. PICK i \in DOMAIN r : r[i] = x
    BY <1>4, InElems
  <2>2. i + 1 \in DOMAIN q /\ q[i + 1] = x
    BY <1>2, <2>1
  <2> QED
    BY <2>2, InElems
<1>5. h \in Elems(q)
  <2>1. 1 \in DOMAIN q
    BY <1>2
  <2> QED
    BY <1>2, <2>1, InElems
<1>6. Elems(q) = Elems(r) \cup {h}
  BY <1>3, <1>4, <1>5
<1> QED
  BY <1>1, <1>2, <1>6

LEMMA ElemsOfBoth ==
    ASSUME NEW U, NEW q \in Seq(U), NEW r \in Seq(U)
    PROVE  q \o r \in Seq(U) /\ Len(q \o r) = Len(q) + Len(r) /\ Elems(q \o r) = Elems(q) \cup Elems(r)
<1>1. PICK b : b = q \o r
  OBVIOUS
<1>2. /\ b \in Seq(U) /\ Len(b) = Len(q) + Len(r) /\ Len(q) \in Nat /\ Len(r) \in Nat
      /\ DOMAIN q = 1 .. Len(q) /\ DOMAIN r = 1 .. Len(r) /\ DOMAIN b = 1 .. Len(q) + Len(r)
      /\ \A i \in 1 .. Len(q) + Len(r) : b[i] = IF i <= Len(q) THEN q[i] ELSE r[i - Len(q)]
  BY <1>1
<1>3. ASSUME NEW x \in Elems(b)
      PROVE  x \in Elems(q) \cup Elems(r)
  <2>1. PICK i \in DOMAIN b : b[i] = x
    BY <1>3, InElems
  <2>2. CASE i <= Len(q)
    <3>1. i \in DOMAIN q /\ q[i] = x
      BY <1>2, <2>1, <2>2
    <3> QED
      BY <3>1, InElems
  <2>3. CASE ~(i <= Len(q))
    <3>1. i - Len(q) \in DOMAIN r /\ r[i - Len(q)] = x
      BY <1>2, <2>1, <2>3
    <3> QED
      BY <3>1, InElems
  <2> QED
    BY <2>2, <2>3
<1>4. ASSUME NEW x \in Elems(q)
      PROVE  x \in Elems(b)
  <2>1. PICK i \in DOMAIN q : q[i] = x
    BY <1>4, InElems
  <2>2. i \in DOMAIN b /\ b[i] = x
    BY <1>2, <2>1
  <2> QED
    BY <2>2, InElems
<1>5. ASSUME NEW x \in Elems(r)
      PROVE  x \in Elems(b)
  <2>1. PICK i \in DOMAIN r : r[i] = x
    BY <1>5, InElems
  <2>2. i + Len(q) \in DOMAIN b /\ b[i + Len(q)] = x
    BY <1>2, <2>1
  <2> QED
    BY <2>2, InElems
<1>6. Elems(b) = Elems(q) \cup Elems(r)
  BY <1>3, <1>4, <1>5
<1> QED
  BY <1>1, <1>2, <1>6

\* What one step of the walk does: nothing, skip a node visited before, or visit one.
Rests(s, t) == s.queue = <<>> /\ t = s
Skips(s, t) == /\ s.queue # <<>> /\ t.visited = s.visited /\ t.order = s.order
               /\ Ahead(t) = Ahead(s) /\ Len(t.queue) = Len(s.queue) - 1
Visits(g, s, t, h) ==
    /\ s.queue # <<>> /\ h \in Ahead(s) /\ t.visited = s.visited \cup {h}
    /\ t.order = IF TypeOf(g, h) = "agent" THEN Append(s.order, h) ELSE s.order
    /\ Ahead(t) = (Ahead(s) \cup Plain(g, h)) \ t.visited
    /\ Len(t.queue) = Len(s.queue) - 1 + Cardinality(PlainEdges(g, {h}))

LEMMA StepOfWalk ==
    ASSUME NEW g, IsDrawing(g), NEW s \in WalkStates(g), NEW t, t = ChainStep(g, s)
    PROVE  /\ t \in WalkStates(g)
           /\ Rests(s, t) \/ Skips(s, t) \/ \E h : Visits(g, s, t, h)
<1>1. CASE s.queue = <<>>
  BY <1>1 DEF ChainStep, Rests
<1>2. CASE s.queue # <<>>
  <2>1. PICK h : h = Head(s.queue)
    OBVIOUS
  <2>2. s.queue \in Seq(Walked(g)) /\ s.visited \subseteq Walked(g) /\ s.order \in Seq(Walked(g))
    BY DEF WalkStates
  <2>3. PICK rest \in Seq(Walked(g)) :
           /\ rest = Tail(s.queue) /\ h \in Walked(g) /\ Len(rest) = Len(s.queue) - 1
           /\ Elems(s.queue) = Elems(rest) \cup {h}
    BY <1>2, <2>1, <2>2, ElemsOfTail
  <2>4. CASE h \in s.visited
    <3>1. t = [s EXCEPT !.queue = rest]
      BY <1>2, <2>1, <2>3, <2>4 DEF ChainStep
    <3>2. t.queue = rest /\ t.visited = s.visited /\ t.order = s.order /\ t \in WalkStates(g)
      BY <2>3, <3>1 DEF WalkStates
    <3>3. Ahead(t) = Ahead(s)
      BY <2>3, <2>4, <3>2 DEF Ahead
    <3> QED
      BY <1>2, <2>3, <3>2, <3>3 DEF Skips
  <2>5. CASE h \notin s.visited
    <3>1. PICK new : new = Unlabelled(g, h)
      OBVIOUS
    <3>2. PICK queue, order : /\ queue = rest \o new
                              /\ order = IF TypeOf(g, h) = "agent" THEN Append(s.order, h) ELSE s.order
      OBVIOUS
    <3>3. t = [queue |-> queue, visited |-> s.visited \cup {h}, order |-> order]
      BY <1>2, <2>1, <2>3, <2>5, <3>1, <3>2 DEF ChainStep
    <3>4. /\ new \in Seq(Plain(g, h)) /\ Elems(new) = Plain(g, h)
          /\ Len(new) = Cardinality(PlainEdges(g, {h})) /\ Len(new) \in Nat
      <4>1. Unlabelled(g, h) \in Seq(Plain(g, h)) /\ Elems(Unlabelled(g, h)) = Plain(g, h)
            /\ Len(Unlabelled(g, h)) = Cardinality(PlainEdges(g, {h}))
        BY UnlabelledIsPlain
      <4> QED
        BY <3>1, <4>1
    <3>5. Plain(g, h) \subseteq Walked(g)
      BY DEF Plain, PlainEdges, Walked
    <3>6. new \in Seq(Walked(g))
      BY <3>4, <3>5
    <3>7. queue \in Seq(Walked(g)) /\ Elems(queue) = Elems(rest) \cup Elems(new)
      BY <2>3, <3>2, <3>6, ElemsOfBoth
    <3>8. Len(queue) = Len(rest) + Len(new)
      BY <2>3, <3>2, <3>6
    <3>9. order \in Seq(Walked(g))
      BY <2>2, <2>3, <3>2
    <3>10. t \in WalkStates(g) /\ t.queue = queue /\ t.visited = s.visited \cup {h} /\ t.order = order
      BY <2>2, <2>3, <3>3, <3>7, <3>9 DEF WalkStates
    <3>11. Ahead(t) = (Ahead(s) \cup Plain(g, h)) \ t.visited /\ h \in Ahead(s)
      BY <2>3, <2>5, <3>4, <3>7, <3>10 DEF Ahead
    <3> QED
      BY <1>2, <2>3, <3>2, <3>4, <3>8, <3>10, <3>11 DEF Visits
  <2> QED
    BY <2>4, <2>5
<1> QED
  BY <1>1, <1>2

\* What every walk is like after k steps: the agents it has visited are in the chain, what
\* it has visited leads to what it has visited or will, and each edge was enqueued once.
WalkCovers(g, s) ==
    /\ s \in WalkStates(g)
    /\ \A i \in DOMAIN s.order : s.order[i] \in s.visited /\ TypeOf(g, s.order[i]) = "agent"
    /\ \A n \in s.visited : TypeOf(g, n) = "agent" => \E i \in DOMAIN s.order : s.order[i] = n
    /\ Entry(g) \in s.visited \cup Ahead(s)
    /\ \A n \in s.visited : Plain(g, n) \subseteq s.visited \cup Ahead(s)

WalkCounts(g, k, s) ==
    s.queue # <<>> => k + Len(s.queue) = 1 + Cardinality(PlainEdges(g, s.visited))

LEMMA WalkBegins ==
    ASSUME NEW g, IsDrawing(g)
    PROVE  WalkCovers(g, Start(g)) /\ WalkCounts(g, 0, Start(g)) /\ Ahead(Start(g)) = {Entry(g)}
<1>1. PICK q : q = <<Entry(g)>>
  OBVIOUS
<1>2. q \in Seq(Walked(g)) /\ Elems(q) = {Entry(g)} /\ Len(q) = 1
  BY <1>1 DEF Walked, Elems
<1>3. Start(g) = [queue |-> q, visited |-> {}, order |-> <<>>]
  BY <1>1 DEF Start
<1>4. PlainEdges(g, {}) = {}
  BY DEF PlainEdges
<1>5. Start(g) \in WalkStates(g) /\ Ahead(Start(g)) = {Entry(g)}
  BY <1>2, <1>3 DEF WalkStates, Ahead
<1>6. Cardinality(PlainEdges(g, {})) = 0
  BY <1>4, FS_EmptySet
<1>7. PICK s : s = Start(g) /\ s.visited = {} /\ s.queue = q /\ DOMAIN s.order = {}
  BY <1>3
<1>8. WalkCovers(g, s)
  BY <1>5, <1>7 DEF WalkCovers
<1>9. WalkCounts(g, 0, s)
  BY <1>2, <1>6, <1>7 DEF WalkCounts
<1> QED
  BY <1>5, <1>7, <1>8, <1>9

LEMMA EdgesAreFinite ==
    ASSUME NEW g, IsDrawing(g), NEW S
    PROVE  /\ IsFiniteSet(PlainEdges(g, S)) /\ Cardinality(PlainEdges(g, S)) \in Nat
           /\ Cardinality(PlainEdges(g, S)) <= Len(g.edges)
<1>1. PICK len \in Nat : len = Len(g.edges) /\ DOMAIN g.edges = 1 .. len
  BY SeqsOfDrawing
<1>2. IsFiniteSet(1 .. len) /\ Cardinality(1 .. len) = len
  BY FS_Interval
<1>3. PlainEdges(g, S) \in SUBSET (1 .. len)
  BY <1>1 DEF PlainEdges
<1> QED
  BY <1>1, <1>2, <1>3, FS_Subset, FS_CardinalityType

LEMMA WalkGoesOn ==
    ASSUME NEW g, IsDrawing(g), NEW k \in Nat, NEW s, WalkCovers(g, s), WalkCounts(g, k, s)
    PROVE  WalkCovers(g, ChainStep(g, s)) /\ WalkCounts(g, k + 1, ChainStep(g, s))
<1>1. PICK t : t = ChainStep(g, s)
  OBVIOUS
<1>2. s \in WalkStates(g)
  BY DEF WalkCovers
<1>3. t \in WalkStates(g) /\ (Rests(s, t) \/ Skips(s, t) \/ \E h : Visits(g, s, t, h))
  BY <1>1, <1>2, StepOfWalk
<1>4. Len(s.queue) \in Nat /\ Len(t.queue) \in Nat
  BY <1>2, <1>3 DEF WalkStates
<1>5. CASE Rests(s, t)
  BY <1>1, <1>5 DEF WalkCounts, Rests
<1>6. CASE Skips(s, t)
  <2> USE <1>6 DEF Skips
  <2>1. WalkCovers(g, t)
    BY <1>3, <1>6 DEF WalkCovers
  <2>2. PICK c \in Nat : c = Cardinality(PlainEdges(g, s.visited))
    BY EdgesAreFinite
  <2>3. k + Len(s.queue) = 1 + c /\ PlainEdges(g, t.visited) = PlainEdges(g, s.visited)
    BY <1>6, <2>2 DEF WalkCounts
  <2>4. k + 1 + Len(t.queue) = 1 + c
    <3>1. PICK m \in Nat, n \in Nat : m = Len(s.queue) /\ n = Len(t.queue)
      BY <1>4
    <3>2. n = m - 1 /\ k + m = 1 + c
      BY <1>6, <2>3, <3>1
    <3>3. k \in Nat /\ m \in Nat /\ n \in Nat /\ c \in Nat
      BY <2>2, <3>1
    <3>4. k + 1 + n = 1 + c
      BY <3>2, <3>3
    <3> QED
      BY <3>1, <3>4
  <2>5. WalkCounts(g, k + 1, t)
    BY <2>2, <2>3, <2>4 DEF WalkCounts
  <2> QED
    BY <1>1, <2>1, <2>5
<1>7. ASSUME NEW h, Visits(g, s, t, h)
      PROVE  WalkCovers(g, t) /\ WalkCounts(g, k + 1, t)
  <2> USE <1>7 DEF Visits
  <2>1. h \notin s.visited /\ s.order \in Seq(Walked(g)) /\ DOMAIN s.order = 1 .. Len(s.order) /\ Len(s.order) \in Nat
    BY <1>2 DEF Ahead, WalkStates
  <2>2. /\ \A i \in DOMAIN t.order : t.order[i] \in t.visited /\ TypeOf(g, t.order[i]) = "agent"
        /\ \A n \in t.visited : TypeOf(g, n) = "agent" => \E i \in DOMAIN t.order : t.order[i] = n
    <3>1. CASE TypeOf(g, h) # "agent"
      BY <1>7, <3>1 DEF WalkCovers
    <3>2. CASE TypeOf(g, h) = "agent"
      <4>1. /\ DOMAIN t.order = 1 .. Len(s.order) + 1 /\ t.order[Len(s.order) + 1] = h
            /\ \A i \in DOMAIN s.order : i \in DOMAIN t.order /\ t.order[i] = s.order[i]
        BY <1>7, <2>1, <3>2
      <4>2. \A i \in DOMAIN t.order : i \in DOMAIN s.order \/ i = Len(s.order) + 1
        BY <2>1, <4>1
      <4>3. Len(s.order) + 1 \in DOMAIN t.order
        BY <2>1, <4>1
      <4> QED
        BY <1>7, <3>2, <4>1, <4>2, <4>3 DEF WalkCovers
    <3> QED
      BY <3>1, <3>2
  <2>3. Entry(g) \in t.visited \cup Ahead(t)
    BY <1>7 DEF WalkCovers
  <2>4. \A n \in t.visited : Plain(g, n) \subseteq t.visited \cup Ahead(t)
    BY <1>7 DEF WalkCovers
  <2>5. k + 1 + Len(t.queue) = 1 + Cardinality(PlainEdges(g, t.visited))
    <3>1. PICK A, B : A = PlainEdges(g, s.visited) /\ B = PlainEdges(g, {h})
      OBVIOUS
    <3>2. PlainEdges(g, t.visited) = A \cup B /\ A \cap B = {}
      BY <1>7, <2>1, <3>1 DEF PlainEdges
    <3>3. /\ IsFiniteSet(A) /\ IsFiniteSet(B)
          /\ Cardinality(A) \in Nat /\ Cardinality(B) \in Nat
      BY <3>1, EdgesAreFinite
    <3>4. Cardinality(A \cup B) = Cardinality(A) + Cardinality(B) - Cardinality(A \cap B)
      BY <3>3, FS_Union, Zenon
    <3>5. Cardinality(A \cap B) = 0
      BY <3>2, FS_EmptySet
    <3>6. k + Len(s.queue) = 1 + Cardinality(A)
      BY <1>7, <3>1 DEF WalkCounts
    <3>7. Len(t.queue) = Len(s.queue) - 1 + Cardinality(B)
      BY <1>7, <3>1
    <3>8. PICK m \in Nat, n \in Nat, a \in Nat, b \in Nat :
             m = Len(s.queue) /\ n = Len(t.queue) /\ a = Cardinality(A) /\ b = Cardinality(B)
      BY <1>4, <3>3
    <3>9. Cardinality(PlainEdges(g, t.visited)) = a + b
      <4>1. Cardinality(A \cup B) = a + b - 0
        BY <3>4, <3>5, <3>8, Zenon
      <4>2. a \in Nat /\ b \in Nat
        BY <3>8
      <4>3. a + b - 0 = a + b
        BY <4>2
      <4> QED
        BY <3>2, <4>1, <4>3, Zenon
    <3>10. k + m = 1 + a /\ n = m - 1 + b
      BY <3>6, <3>7, <3>8
    <3>11. k + 1 + n = 1 + (a + b)
      <4>1. k \in Nat /\ m \in Nat /\ n \in Nat /\ a \in Nat /\ b \in Nat
        BY <3>8
      <4> QED
        BY <3>10, <4>1
    <3> QED
      BY <3>8, <3>9, <3>11
  <2>6. WalkCovers(g, t)
    BY <1>3, <2>2, <2>3, <2>4 DEF WalkCovers
  <2>7. WalkCounts(g, k + 1, t)
    BY <2>5 DEF WalkCounts
  <2> QED
    BY <2>6, <2>7
<1>8. WalkCovers(g, t) /\ WalkCounts(g, k + 1, t)
  BY <1>1, <1>3, <1>5, <1>6, <1>7, Zenon
<1> QED
  BY <1>1, <1>8

-----------------------------------------------------------------------------
(* What the chain says of the runs of a drawing *)

\* Where a run may go after a node.
Follow(g, n) == IF TypeOf(g, n) = "condition" THEN {LowBranch(g, n), OkBranch(g, n)}
                                              ELSE Successors(g, n)
\* A run that is in V stays there.
Closed(g, V) == \A n \in V : Follow(g, n) \subseteq V
\* After p there are only nodes of M, none of them an agent, until there is one of Q.
Frontier(g, p, M, Q) ==
    /\ Follow(g, p) \subseteq M \cup Q
    /\ \A m \in M : TypeOf(g, m) # "agent" /\ Follow(g, m) \subseteq M \cup Q
\* S has whatever the arrows of the drawing lead to from S.
Flows(g, S) == \A a \in Arrows(g) : a[1] \in S => a[2] \in S

\* p does not run; only q can be the next agent after p; p leads to q.
Unreached(g, p) == \E V : Closed(g, V) /\ Entry(g) \in V /\ p \notin V
Hands(g, p, q)  == Unreached(g, p) \/ \E M : Frontier(g, p, M, {q})
Leads(g, p, q)  == Unreached(g, q) \/ \A S : Flows(g, S) /\ p \in S => q \in S

\* Until the walk passes a condition or an end node it follows the one way there is.
Final(s) == s.order[Len(s.order)]
Trunk(g, s) ==
    Ahead(s) # {} =>
        /\ \A x, y \in Ahead(s) : x = y
        /\ \A n \in s.visited : TypeOf(g, n) \notin {"condition", "end"}
        /\ s.order # <<>> => \E M : Frontier(g, Final(s), M, Ahead(s))
        /\ \A i \in DOMAIN s.order : \A S : Flows(g, S) /\ s.order[i] \in S => Ahead(s) \subseteq S
\* Beyond an end node it visits what no run reaches.
Beyond(g, s) ==
    \E V : /\ V \subseteq s.visited /\ Closed(g, V) /\ Entry(g) \in V
           /\ s.order # <<>> => Final(s) \notin V \/ \E M : Frontier(g, Final(s), M, {})
Linked(g, s) ==
    /\ \A i \in DOMAIN s.order : i > 1 => Hands(g, s.order[i - 1], s.order[i])
    /\ \A i, j \in DOMAIN s.order : i <= j => Leads(g, s.order[i], s.order[j])
    /\ Trunk(g, s) \/ Beyond(g, s)

\* The edges a run follows are among those the walk follows, but for conditions.
LEMMA FollowsThePlain ==
    ASSUME NEW g, IsDrawing(g), NEW n
    PROVE  /\ TypeOf(g, n) # "condition" => Follow(g, n) \subseteq Plain(g, n)
           /\ TypeOf(g, n) = "end" => Follow(g, n) = {}
<1>1. Successors(g, n) \subseteq Plain(g, n)
  <2>1. ASSUME NEW e \in ToSet(g.edges), e.when = "none", e.from = n
        PROVE  e.to \in Plain(g, n)
    BY <2>1 DEF ToSet, Plain, PlainEdges
  <2> QED
    BY <2>1 DEF Successors, Wired
<1>2. TypeOf(g, n) = "end" => Successors(g, n) = {}
  BY DEF Successors, Wired
<1> QED
  BY <1>1, <1>2 DEF Follow

LEMMA PlainIsDrawn ==
    ASSUME NEW g, IsDrawing(g), NEW n, TypeOf(g, n) \notin {"condition", "end"}
    PROVE  \A x \in Plain(g, n) : <<n, x>> \in Arrows(g)
<1>1. ASSUME NEW i \in PlainEdges(g, {n})
      PROVE  <<n, g.edges[i].to>> \in Arrows(g)
  <2>1. PICK e \in ToSet(g.edges) : e = g.edges[i] /\ e.when = "none" /\ e.from = n
    BY <1>1 DEF ToSet, PlainEdges
  <2>2. <<e.from, e.to>> \in Arrows(g)
    BY <2>1 DEF Arrows
  <2> QED
    BY <2>1, <2>2
<1> QED
  BY <1>1 DEF Plain

LEMMA OneWayOn ==
    ASSUME NEW g, IsDrawing(g), IsSequential(g), NEW n, TypeOf(g, n) \notin {"condition", "end"}
    PROVE  \A x, y \in Plain(g, n) : x = y
<1>1. n \notin Conditions(g)
  BY DEF Conditions, OfType
<1>2. ASSUME NEW x \in Plain(g, n), NEW y \in Plain(g, n)
      PROVE  x = y
  <2>1. PICK a, b : a = <<n, x>> /\ b = <<n, y>> /\ a \in Arrows(g) /\ b \in Arrows(g)
    BY PlainIsDrawn
  <2>2. a = b
    BY <1>1, <2>1 DEF IsSequential
  <2> QED
    BY <2>1, <2>2
<1> QED
  BY <1>2

LEMMA ConditionsAreWalls ==
    ASSUME NEW g, IsDrawing(g), AllLabelled(g), NEW n, TypeOf(g, n) = "condition"
    PROVE  Plain(g, n) = {}
<1>1. n \in Conditions(g)
  BY DEF Conditions, OfType, TypeOf
<1>2. PlainEdges(g, {n}) = {}
  BY <1>1 DEF AllLabelled, Branches, PlainEdges
<1> QED
  BY <1>2 DEF Plain

\* The walk visits h: the agent it adds to the chain, if any, is the next one in every run.
LEMMA LinksGrow ==
    ASSUME NEW g, IsDrawing(g), IsSequential(g), AllLabelled(g),
           NEW s, WalkCovers(g, s), Linked(g, s), NEW t, NEW h, Visits(g, s, t, h)
    PROVE  /\ TypeOf(g, h) = "agent" /\ s.order # <<>> => Hands(g, Final(s), h)
           /\ \A i \in DOMAIN s.order : Leads(g, s.order[i], h)
<1>1. h \in Ahead(s) /\ h \notin s.visited
  BY DEF Visits, Ahead
<1>2. CASE Trunk(g, s)
  <2>1. Ahead(s) = {h}
    BY <1>1, <1>2 DEF Trunk
  <2>2. s.order # <<>> => \E M : Frontier(g, Final(s), M, {h})
    BY <1>2, <2>1 DEF Trunk
  <2>3. \A i \in DOMAIN s.order : \A S : Flows(g, S) /\ s.order[i] \in S => h \in S
    BY <1>2, <2>1 DEF Trunk
  <2> QED
    BY <2>2, <2>3 DEF Hands, Leads
<1>3. CASE Beyond(g, s)
  <2>1. PICK V : /\ V \subseteq s.visited /\ Closed(g, V) /\ Entry(g) \in V
                 /\ s.order # <<>> => Final(s) \notin V \/ \E M : Frontier(g, Final(s), M, {})
    BY <1>3 DEF Beyond
  <2>2. Unreached(g, h)
    BY <1>1, <2>1 DEF Unreached
  <2>3. ASSUME NEW M, Frontier(g, Final(s), M, {})
        PROVE  Frontier(g, Final(s), M, {h})
    BY <2>3 DEF Frontier
  <2>4. s.order # <<>> => Hands(g, Final(s), h)
    BY <2>1, <2>3 DEF Hands, Unreached
  <2> QED
    BY <2>2, <2>4 DEF Leads
<1> QED
  BY <1>2, <1>3 DEF Linked

LEMMA ChainGrows ==
    ASSUME NEW g, IsDrawing(g), NEW s \in WalkStates(g), Linked(g, s), NEW h \in Walked(g),
           s.order # <<>> => Hands(g, Final(s), h),
           \A i \in DOMAIN s.order : Leads(g, s.order[i], h),
           NEW order, order = Append(s.order, h)
    PROVE  /\ order # <<>> /\ order[Len(order)] = h
           /\ \A i \in DOMAIN order : order[i] = h \/ \E j \in DOMAIN s.order : order[i] = s.order[j]
           /\ \A i \in DOMAIN order : i > 1 => Hands(g, order[i - 1], order[i])
           /\ \A i, j \in DOMAIN order : i <= j => Leads(g, order[i], order[j])
<1>1. PICK n \in Nat : n = Len(s.order) /\ DOMAIN s.order = 1 .. n
  BY DEF WalkStates
<1>2. s.order \in Seq(Walked(g))
  BY DEF WalkStates
<1>3. /\ DOMAIN order = 1 .. n + 1 /\ Len(order) = n + 1 /\ order[n + 1] = h
      /\ \A i \in 1 .. n : order[i] = s.order[i]
  BY <1>1, <1>2
<1>4. order # <<>>
  BY <1>2
<1>5. ASSUME NEW i \in DOMAIN order, i > 1
      PROVE  Hands(g, order[i - 1], order[i])
  <2>1. i - 1 \in 1 .. n /\ order[i - 1] = s.order[i - 1]
    BY <1>3, <1>5
  <2>2. CASE i \in 1 .. n
    <3>1. Hands(g, s.order[i - 1], s.order[i])
      BY <1>1, <1>5, <2>2 DEF Linked
    <3> QED
      BY <1>3, <2>1, <2>2, <3>1
  <2>3. CASE i = n + 1
    <3>1. i - 1 = n /\ order[i] = h /\ s.order # <<>>
      BY <1>1, <1>3, <1>5, <2>1, <2>3
    <3>2. Hands(g, s.order[n], h)
      BY <1>1, <3>1 DEF Final
    <3> QED
      BY <2>1, <3>1, <3>2
  <2>4. i \in 1 .. n + 1
    BY <1>3
  <2>5. i \in 1 .. n \/ i = n + 1
    BY <2>4
  <2> QED
    BY <2>2, <2>3, <2>5
<1>6. ASSUME NEW i \in DOMAIN order, NEW j \in DOMAIN order, i <= j
      PROVE  Leads(g, order[i], order[j])
  <2>1. CASE j \in 1 .. n
    <3>1. i \in 1 .. n
      BY <1>3, <1>6, <2>1
    <3>2. Leads(g, s.order[i], s.order[j])
      BY <1>1, <1>6, <2>1, <3>1 DEF Linked
    <3> QED
      BY <1>3, <2>1, <3>1, <3>2
  <2>2. CASE j = n + 1 /\ i \in 1 .. n
    BY <1>1, <1>3, <2>2
  <2>3. CASE j = n + 1 /\ i = n + 1
    BY <1>3, <2>3 DEF Leads
  <2> QED
    BY <1>3, <2>1, <2>2, <2>3
<1>7. \A i \in DOMAIN order : order[i] = h \/ \E j \in DOMAIN s.order : order[i] = s.order[j]
  BY <1>1, <1>3
<1> QED
  BY <1>3, <1>4, <1>5, <1>6, <1>7

LEMMA TrunkGoesOn ==
    ASSUME NEW g, IsDrawing(g), IsSequential(g), AllLabelled(g),
           NEW s, WalkCovers(g, s), Trunk(g, s), NEW t, NEW h, Visits(g, s, t, h),
           TypeOf(g, h) = "agent" => Final(t) = h,
           TypeOf(g, h) # "agent" => t.order = s.order,
           \A i \in DOMAIN t.order : t.order[i] = h \/ \E j \in DOMAIN s.order : t.order[i] = s.order[j]
    PROVE  Trunk(g, t) \/ Beyond(g, t)
<1>1. Ahead(s) = {h} /\ h \notin s.visited
  BY DEF Visits, Ahead, Trunk
<1>2. /\ \A n \in s.visited : TypeOf(g, n) \notin {"condition", "end"}
      /\ s.order # <<>> => \E M : Frontier(g, Final(s), M, {h})
      /\ \A i \in DOMAIN s.order : \A S : Flows(g, S) /\ s.order[i] \in S => h \in S
  BY <1>1 DEF Trunk
<1>3. t.visited = s.visited \cup {h} /\ Ahead(t) = Plain(g, h) \ t.visited
  BY <1>1 DEF Visits
<1>4. TypeOf(g, h) # "agent" => Final(t) = Final(s)
  BY DEF Final
<1>5. CASE TypeOf(g, h) = "condition"
  <2>1. Ahead(t) = {}
    BY <1>3, <1>5, ConditionsAreWalls
  <2> QED
    BY <2>1 DEF Trunk
<1>6. CASE TypeOf(g, h) = "end"
  <2>1. Follow(g, h) = {}
    BY <1>6, FollowsThePlain
  <2>2. ASSUME NEW n \in s.visited
        PROVE  Follow(g, n) \subseteq t.visited
    <3>1. Follow(g, n) \subseteq Plain(g, n)
      BY <1>2, FollowsThePlain
    <3>2. Plain(g, n) \subseteq s.visited \cup Ahead(s)
      BY DEF WalkCovers
    <3> QED
      BY <1>1, <1>3, <3>1, <3>2
  <2>3. Closed(g, t.visited)
    BY <1>3, <2>1, <2>2 DEF Closed
  <2>4. Entry(g) \in t.visited
    BY <1>1, <1>3 DEF WalkCovers
  <2>5. ASSUME NEW M, Frontier(g, Final(s), M, {h})
        PROVE  Frontier(g, Final(s), M \cup {h}, {})
    BY <1>6, <2>1, <2>5 DEF Frontier
  <2>6. t.order # <<>> => \E M : Frontier(g, Final(t), M, {})
    <3>1. TypeOf(g, h) # "agent"
      BY <1>6
    <3>2. SUFFICES ASSUME s.order # <<>> PROVE \E M : Frontier(g, Final(s), M, {})
      BY <1>4, <3>1
    <3>3. PICK M : Frontier(g, Final(s), M, {h})
      BY <1>2, <3>2
    <3> QED
      BY <2>5, <3>3
  <2> QED
    BY <2>3, <2>4, <2>6 DEF Beyond
<1>7. CASE TypeOf(g, h) \notin {"condition", "end"}
  <2>1. SUFFICES ASSUME Ahead(t) # {} PROVE Trunk(g, t)
    BY DEF Trunk
  <2>2. Ahead(t) = Plain(g, h) /\ \A x, y \in Ahead(t) : x = y
    <3>1. \A x, y \in Plain(g, h) : x = y
      BY <1>7, OneWayOn
    <3> QED
      BY <1>3, <2>1, <3>1
  <2>3. \A n \in t.visited : TypeOf(g, n) \notin {"condition", "end"}
    BY <1>2, <1>3, <1>7
  <2>4. Follow(g, h) \subseteq Ahead(t)
    BY <1>7, <2>2, FollowsThePlain
  <2>5. t.order # <<>> => \E M : Frontier(g, Final(t), M, Ahead(t))
    <3>1. CASE TypeOf(g, h) = "agent"
      <4>1. Frontier(g, h, {}, Ahead(t))
        BY <2>4 DEF Frontier
      <4> QED
        BY <3>1, <4>1
    <3>2. CASE TypeOf(g, h) # "agent" /\ s.order # <<>>
      <4>1. PICK M : Frontier(g, Final(s), M, {h})
        BY <1>2, <3>2
      <4>2. Frontier(g, Final(s), M \cup {h}, Ahead(t))
        BY <2>4, <3>2, <4>1 DEF Frontier
      <4> QED
        BY <1>4, <3>2, <4>2
    <3>3. CASE TypeOf(g, h) # "agent" /\ s.order = <<>>
      BY <3>3
    <3> QED
      BY <3>1, <3>2, <3>3
  <2>6. ASSUME NEW i \in DOMAIN t.order, NEW S, Flows(g, S), t.order[i] \in S
        PROVE  Ahead(t) \subseteq S
    <3>1. h \in S
      BY <1>2, <2>6
    <3>2. ASSUME NEW x \in Plain(g, h)
          PROVE  x \in S
      <4>1. PICK a : a = <<h, x>> /\ a \in Arrows(g)
        BY <1>7, PlainIsDrawn
      <4> QED
        BY <2>6, <3>1, <4>1 DEF Flows
    <3> QED
      BY <2>2, <3>2
  <2>7. \A i \in DOMAIN t.order : \A S : Flows(g, S) /\ t.order[i] \in S => Ahead(t) \subseteq S
    BY <2>6
  <2> QED
    BY <2>2, <2>3, <2>5, <2>7 DEF Trunk
<1> QED
  BY <1>5, <1>6, <1>7

LEMMA BeyondGoesOn ==
    ASSUME NEW g, NEW s, Beyond(g, s), NEW t, NEW h, Visits(g, s, t, h),
           TypeOf(g, h) = "agent" => Final(t) = h,
           TypeOf(g, h) # "agent" => t.order = s.order
    PROVE  Beyond(g, t)
<1>1. PICK V : /\ V \subseteq s.visited /\ Closed(g, V) /\ Entry(g) \in V
               /\ s.order # <<>> => Final(s) \notin V \/ \E M : Frontier(g, Final(s), M, {})
  BY DEF Beyond
<1>2. V \subseteq t.visited /\ h \notin V
  BY <1>1 DEF Visits, Ahead
<1>3. t.order # <<>> => Final(t) \notin V \/ \E M : Frontier(g, Final(t), M, {})
  <2>1. CASE TypeOf(g, h) = "agent"
    BY <1>2, <2>1
  <2>2. CASE TypeOf(g, h) # "agent"
    BY <1>1, <2>2 DEF Final
  <2> QED
    BY <2>1, <2>2
<1> QED
  BY <1>1, <1>2, <1>3 DEF Beyond

LEMMA LinkGoesOn ==
    ASSUME NEW g, IsDrawing(g), IsSequential(g), AllLabelled(g), NEW s, WalkCovers(g, s), Linked(g, s)
    PROVE  Linked(g, ChainStep(g, s))
<1>1. PICK t : t = ChainStep(g, s)
  OBVIOUS
<1>2. s \in WalkStates(g)
  BY DEF WalkCovers
<1>3. t \in WalkStates(g) /\ (Rests(s, t) \/ Skips(s, t) \/ \E h : Visits(g, s, t, h))
  BY <1>1, <1>2, StepOfWalk
<1>4. ASSUME Rests(s, t)
      PROVE  Linked(g, t)
  BY <1>4 DEF Rests
<1>5. ASSUME Skips(s, t)
      PROVE  Linked(g, t)
  <2>1. t.order = s.order /\ t.visited = s.visited /\ Ahead(t) = Ahead(s)
    BY <1>5 DEF Skips
  <2>2. Trunk(g, s) => Trunk(g, t)
    BY <2>1 DEF Trunk, Final
  <2>3. Beyond(g, s) => Beyond(g, t)
    BY <2>1 DEF Beyond, Final
  <2>4. Trunk(g, t) \/ Beyond(g, t)
    BY <2>2, <2>3 DEF Linked
  <2> QED
    BY <2>1, <2>4 DEF Linked
<1>6. ASSUME NEW h, Visits(g, s, t, h)
      PROVE  Linked(g, t)
  <2>1. /\ TypeOf(g, h) = "agent" /\ s.order # <<>> => Hands(g, Final(s), h)
        /\ \A i \in DOMAIN s.order : Leads(g, s.order[i], h)
    BY <1>6, LinksGrow
  <2>2. h \in Walked(g)
    <3>1. h \in Elems(s.queue) /\ s.queue \in Seq(Walked(g))
      BY <1>2, <1>6 DEF Visits, Ahead, WalkStates
    <3>2. PICK q : q = s.queue /\ q \in Seq(Walked(g)) /\ h \in Elems(q)
      BY <3>1
    <3>3. PICK i \in DOMAIN q : q[i] = h
      BY <3>2, InElems
    <3> QED
      BY <3>2, <3>3
  <2>3. /\ TypeOf(g, h) = "agent" => Final(t) = h
        /\ TypeOf(g, h) # "agent" => t.order = s.order
        /\ \A i \in DOMAIN t.order : t.order[i] = h \/ \E j \in DOMAIN s.order : t.order[i] = s.order[j]
        /\ \A i \in DOMAIN t.order : i > 1 => Hands(g, t.order[i - 1], t.order[i])
        /\ \A i, j \in DOMAIN t.order : i <= j => Leads(g, t.order[i], t.order[j])
    <3>1. CASE TypeOf(g, h) = "agent"
      <4>1. PICK order : order = t.order /\ order = Append(s.order, h)
        BY <1>6, <3>1 DEF Visits
      <4>2. s.order # <<>> => Hands(g, Final(s), h)
        BY <2>1, <3>1
      <4>3. \A i \in DOMAIN s.order : Leads(g, s.order[i], h)
        BY <2>1
      <4>4. /\ order # <<>> /\ order[Len(order)] = h
            /\ \A i \in DOMAIN order : order[i] = h \/ \E j \in DOMAIN s.order : order[i] = s.order[j]
            /\ \A i \in DOMAIN order : i > 1 => Hands(g, order[i - 1], order[i])
            /\ \A i, j \in DOMAIN order : i <= j => Leads(g, order[i], order[j])
        BY <1>2, <2>2, <4>1, <4>2, <4>3, ChainGrows
      <4> QED
        BY <3>1, <4>1, <4>4 DEF Final
    <3>2. CASE TypeOf(g, h) # "agent"
      <4>1. t.order = s.order
        BY <1>6, <3>2 DEF Visits
      <4> QED
        BY <3>2, <4>1 DEF Linked
    <3> QED
      BY <3>1, <3>2
  <2>4. Trunk(g, t) \/ Beyond(g, t)
    BY <1>6, <2>3, TrunkGoesOn, BeyondGoesOn DEF Linked
  <2> QED
    BY <2>3, <2>4 DEF Linked
<1>7. Linked(g, t)
  BY <1>3, <1>4, <1>5, <1>6, Zenon
<1> QED
  BY <1>1, <1>7

LEMMA LinkBegins ==
    ASSUME NEW g, IsDrawing(g)
    PROVE  Linked(g, Start(g))
<1>1. PICK s : s = Start(g) /\ s.visited = {} /\ s.order = <<>> /\ Ahead(s) = {Entry(g)}
  BY WalkBegins DEF Start
<1>2. DOMAIN s.order = {}
  BY <1>1
<1>3. Trunk(g, s)
  BY <1>1, <1>2 DEF Trunk
<1>4. Linked(g, s)
  BY <1>2, <1>3 DEF Linked
<1> QED
  BY <1>1, <1>4

\* The walk has ended after as many steps as the code allows it: it has visited whatever
\* unlabelled edges lead to, and its agents are the chain.
LEMMA ChainOfDrawing ==
    ASSUME NEW g, IsDrawing(g)
    PROVE  \E s : /\ s = Walk(g)[ChainSteps(g)] /\ s.queue = <<>>
                  /\ WalkCovers(g, s) /\ Ahead(s) = {} /\ s.order = AgentChain(g)
                  /\ IsSequential(g) /\ AllLabelled(g) => Linked(g, s)
<1> DEFINE Good(k) == LET s == Walk(g)[k] IN
                        /\ WalkCovers(g, s) /\ WalkCounts(g, k, s)
                        /\ IsSequential(g) /\ AllLabelled(g) => Linked(g, s)
           Done == {k \in Nat : k <= ChainSteps(g) => Good(k)}
<1>1. PICK len \in Nat : len = Len(g.edges) /\ ChainSteps(g) = len + 1
  BY SeqsOfDrawing DEF ChainSteps
<1>2. 0 \in Done
  BY WalkIsRecursive, WalkBegins, LinkBegins
<1>3. ASSUME NEW k \in Nat, k \in Done
      PROVE  k + 1 \in Done
  <2>1. SUFFICES ASSUME k + 1 <= ChainSteps(g) PROVE Good(k + 1)
    OBVIOUS
  <2>2. Good(k) /\ k + 1 \in 1 .. ChainSteps(g) /\ (k + 1) - 1 = k
    BY <1>1, <1>3, <2>1
  <2>3. PICK s : s = Walk(g)[k] /\ Walk(g)[k + 1] = ChainStep(g, s)
    BY <2>2, WalkIsRecursive
  <2>4. WalkCovers(g, s) /\ WalkCounts(g, k, s) /\ (IsSequential(g) /\ AllLabelled(g) => Linked(g, s))
    BY <2>2, <2>3
  <2>5. WalkCovers(g, ChainStep(g, s)) /\ WalkCounts(g, k + 1, ChainStep(g, s))
    BY <2>4, WalkGoesOn
  <2>6. IsSequential(g) /\ AllLabelled(g) => Linked(g, ChainStep(g, s))
    BY <2>4, LinkGoesOn
  <2> QED
    BY <2>3, <2>5, <2>6
<1> HIDE DEF Done, Good
<1>4. len + 1 \in Done
  BY <1>2, <1>3, SetInduction
<1>5. Good(len + 1)
  BY <1>1, <1>4 DEF Done
<1>6. PICK s : s = Walk(g)[len + 1]
  OBVIOUS
<1>7. WalkCovers(g, s) /\ WalkCounts(g, len + 1, s) /\ (IsSequential(g) /\ AllLabelled(g) => Linked(g, s))
  BY <1>5, <1>6 DEF Good
<1>8. s.queue = <<>>
  <2>1. SUFFICES ASSUME s.queue # <<>> PROVE FALSE
    OBVIOUS
  <2>2. s.queue \in Seq(Walked(g))
    BY <1>7 DEF WalkCovers, WalkStates
  <2>3. PICK m \in Nat : m = Len(s.queue) /\ m > 0
    BY <2>1, <2>2
  <2>4. PICK c \in Nat : c = Cardinality(PlainEdges(g, s.visited)) /\ c <= len
    BY <1>1, EdgesAreFinite
  <2>5. (len + 1) + m = 1 + c
    BY <1>7, <2>1, <2>3, <2>4 DEF WalkCounts
  <2>6. len \in Nat /\ m \in Nat /\ c \in Nat
    BY <2>3, <2>4
  <2>7. m > 0 /\ c <= len
    BY <2>3, <2>4
  <2> QED
    BY <2>5, <2>6, <2>7
<1>9. Ahead(s) = {}
  <2>1. PICK q : q = s.queue /\ DOMAIN q = {}
    BY <1>8
  <2>2. Elems(q) = {}
    BY <2>1 DEF Elems
  <2> QED
    BY <2>1, <2>2 DEF Ahead
<1>10. s.order = AgentChain(g)
  BY <1>1, <1>6 DEF AgentChain
<1> QED
  BY <1>1, <1>6, <1>7, <1>8, <1>9, <1>10

\* The agents of the chain: all that unlabelled edges reach from the entry.  Along a line,
\* or wherever one way leads on, each hands over to the next.
LEMMA ChainFacts ==
    ASSUME NEW g, IsDrawing(g), NEW c, c = AgentChain(g)
    PROVE  /\ Len(c) \in Nat /\ DOMAIN c = 1 .. Len(c)
           /\ \A i \in DOMAIN c : TypeOf(g, c[i]) = "agent"
           /\ \E V : /\ Entry(g) \in V /\ \A n \in V : Plain(g, n) \subseteq V
                     /\ \A n \in V : TypeOf(g, n) = "agent" => \E i \in DOMAIN c : c[i] = n
           /\ IsSequential(g) /\ AllLabelled(g) =>
                /\ \A i \in DOMAIN c : i > 1 => Hands(g, c[i - 1], c[i])
                /\ \A i, j \in DOMAIN c : i <= j => Leads(g, c[i], c[j])
<1>1. PICK s : /\ WalkCovers(g, s) /\ Ahead(s) = {} /\ s.order = c
               /\ IsSequential(g) /\ AllLabelled(g) => Linked(g, s)
  BY ChainOfDrawing
<1>2. c \in Seq(Walked(g))
  BY <1>1 DEF WalkCovers, WalkStates
<1>3. Len(c) \in Nat /\ DOMAIN c = 1 .. Len(c)
  BY <1>2
<1>4. /\ Entry(g) \in s.visited /\ \A n \in s.visited : Plain(g, n) \subseteq s.visited
      /\ \A n \in s.visited : TypeOf(g, n) = "agent" => \E i \in DOMAIN c : c[i] = n
  BY <1>1 DEF WalkCovers
<1>5. \A i \in DOMAIN c : TypeOf(g, c[i]) = "agent"
  BY <1>1 DEF WalkCovers
<1> QED
  BY <1>1, <1>3, <1>4, <1>5 DEF Linked

-----------------------------------------------------------------------------
(* A run stays where the drawing leads *)

\* A set that has the entry and is closed has all that ran and is planned.
Within == \A V : Closed(graph, V) /\ Entry(graph) \in V => ran \cup plan \subseteq V
PrevRan == prev # NoNode => prev \in ran /\ TypeOf(graph, prev) = "agent"
\* After the last agent, an unforked run is on its way to the next.
OnTheWay ==
    IsSequential(graph) /\ prev # NoNode => \A M, q :
        TypeOf(graph, q) = "agent" /\ Frontier(graph, prev, M, {q}) => plan \subseteq M \cup {q}
\* Without conditions it is where arrows lead from that agent.
Downstream ==
    IsSequential(graph) /\ Conditions(graph) = {} /\ prev # NoNode => \A S :
        Flows(graph, S) /\ Successors(graph, prev) \subseteq S => plan \subseteq S

HandoffInv == ExecInv /\ Within /\ PrevRan /\ OnTheWay /\ Downstream

LEMMA HandoffInvInit == Init => HandoffInv
  BY ExecInvInit DEF Init, HandoffInv, Within, PrevRan, OnTheWay, Downstream

LEMMA QuietStepsHandOff ==
    ASSUME HandoffInv, Compile \/ Unwind \/ StepConflicts \/ RequestStop
                       \/ (\E n \in plan : StartNode(n) \/ FinishNode(n) \/ NodeRaises(n))
    PROVE  HandoffInv'
<1>1. UNCHANGED <<graph, ran, prev>>
  BY DEF Compile, Unwind, StepConflicts, RequestStop, StartNode, FinishNode, NodeRaises, state, history
<1>2. ExecInv'
  BY QuietSteps DEF HandoffInv
<1>3. PrevRan'
  BY <1>1 DEF HandoffInv, PrevRan
<1>4. CASE plan' = plan \/ plan' = {}
  BY <1>1, <1>2, <1>3, <1>4 DEF HandoffInv, Within, OnTheWay, Downstream
<1>5. CASE Compile /\ plan' = {Entry(graph)}
  <2>1. prev = NoNode
    BY <1>5 DEF HandoffInv, ExecInv, Shaped, PrevRan, Compile
  <2>2. OnTheWay' /\ Downstream'
    BY <1>1, <2>1 DEF OnTheWay, Downstream
  <2>3. Within'
    BY <1>1, <1>5 DEF HandoffInv, Within
  <2> QED
    BY <1>2, <1>3, <2>2, <2>3 DEF HandoffInv
<1>6. plan' = plan \/ plan' = {} \/ (Compile /\ plan' = {Entry(graph)})
  BY DEF Compile, Unwind, StepConflicts, RequestStop, StartNode, FinishNode, NodeRaises
<1> QED
  BY <1>4, <1>5, <1>6

LEMMA TargetsFollow ==
    ASSUME NEW n
    PROVE  Targets(n) \subseteq Follow(graph, n)
  BY DEF Targets, Follow

LEMMA EndStepHandsOff ==
    ASSUME HandoffInv, EndStep
    PROVE  HandoffInv'
<1>1. ExecInv /\ ExecInv' /\ Within /\ PrevRan /\ OnTheWay /\ Downstream
  BY EndStepKeeps DEF HandoffInv
<1>2. /\ phase = "running" /\ plan # {} /\ ApplyOutput /\ graph' = graph /\ ran' = ran \cup plan
      /\ plan' \subseteq UNION {Targets(n) : n \in plan}
  BY DEF EndStep, StepDone
<1>3. \A x \in plan' : \E n \in plan : x \in Follow(graph, n)
  BY <1>2, TargetsFollow
<1>4. IsDrawing(graph) /\ NoNode \notin Ids(graph) /\ plan \subseteq Ids(graph)
  <2>1. graph \in Graphs /\ plan \subseteq Ids(graph)
    BY <1>1 DEF ExecInv, Shaped, TypeOK
  <2> QED
    BY <2>1, GraphExecAssumption, TypesOfNodes
<1>5. \/ /\ {n \in plan : TypeOf(graph, n) \in {"agent", "channel"}} = {}
         /\ prev' = prev
      \/ \E n \in plan : \/ TypeOf(graph, n) = "agent" /\ prev' = n
                         \/ TypeOf(graph, n) = "channel" /\ prev' = prev
  <2>1. PICK authors : authors = {n \in plan : TypeOf(graph, n) \in {"agent", "channel"}}
    OBVIOUS
  <2>2. \/ authors = {} /\ prev' = prev
        \/ \E n \in authors : (TypeOf(graph, n) = "agent" /\ prev' = n) \/ (TypeOf(graph, n) = "channel" /\ prev' = prev)
    BY <1>2, <2>1 DEF ApplyOutput
  <2>3. CASE authors = {} /\ prev' = prev
    BY <2>1, <2>3
  <2>4. ASSUME NEW n \in authors, (TypeOf(graph, n) = "agent" /\ prev' = n) \/ (TypeOf(graph, n) = "channel" /\ prev' = prev)
        PROVE  \E m \in plan : \/ TypeOf(graph, m) = "agent" /\ prev' = m
                               \/ TypeOf(graph, m) = "channel" /\ prev' = prev
    <3>1. n \in plan
      BY <2>1
    <3> QED
      BY <2>4, <3>1, Zenon
  <2> QED
    BY <2>2, <2>3, <2>4
<1>6. Within'
  <2>1. SUFFICES ASSUME NEW V, Closed(graph, V), Entry(graph) \in V
                 PROVE  ran' \cup plan' \subseteq V
    BY <1>2 DEF Within
  <2>2. ran \cup plan \subseteq V
    BY <1>1, <2>1 DEF Within
  <2>3. plan' \subseteq V
    BY <1>3, <2>1, <2>2 DEF Closed
  <2> QED
    BY <1>2, <2>2, <2>3
<1>7. PrevRan'
  BY <1>1, <1>2, <1>5 DEF PrevRan
<1>8. ASSUME IsSequential(graph), prev' # NoNode
      PROVE  \E p : /\ plan' \subseteq Follow(graph, p) /\ p \in plan
                    /\ (TypeOf(graph, p) = "agent" /\ prev' = p) \/ (TypeOf(graph, p) # "agent" /\ prev' = prev)
  <2>1. PICK p \in plan : \A x \in plan : x = p
    BY <1>1, <1>2, <1>8 DEF ExecInv, OneByOne
  <2>2. plan' \subseteq Follow(graph, p)
    BY <1>3, <2>1
  <2>3. (TypeOf(graph, p) = "agent" /\ prev' = p) \/ (TypeOf(graph, p) # "agent" /\ prev' = prev)
    BY <1>5, <2>1
  <2> QED
    BY <2>1, <2>2, <2>3
<1>9. OnTheWay'
  <2>1. SUFFICES ASSUME IsSequential(graph), prev' # NoNode, NEW M, NEW q,
                        TypeOf(graph, q) = "agent", Frontier(graph, prev', M, {q})
                 PROVE  plan' \subseteq M \cup {q}
    BY <1>2 DEF OnTheWay
  <2>2. PICK p : /\ plan' \subseteq Follow(graph, p) /\ p \in plan
                 /\ (TypeOf(graph, p) = "agent" /\ prev' = p) \/ (TypeOf(graph, p) # "agent" /\ prev' = prev)
    BY <1>8, <2>1
  <2>3. CASE TypeOf(graph, p) = "agent" /\ prev' = p
    BY <2>1, <2>2, <2>3 DEF Frontier
  <2>4. CASE TypeOf(graph, p) # "agent" /\ prev' = prev
    <3>1. plan \subseteq M \cup {q}
      BY <1>1, <2>1, <2>4 DEF OnTheWay
    <3>2. p \in M
      BY <2>1, <2>2, <2>4, <3>1
    <3> QED
      BY <2>1, <2>2, <3>2 DEF Frontier
  <2> QED
    BY <2>2, <2>3, <2>4
<1>10. Downstream'
  <2>1. SUFFICES ASSUME IsSequential(graph), Conditions(graph) = {}, prev' # NoNode, NEW S,
                        Flows(graph, S), Successors(graph, prev') \subseteq S
                 PROVE  plan' \subseteq S
    BY <1>2 DEF Downstream
  <2>2. PICK p : /\ plan' \subseteq Follow(graph, p) /\ p \in plan
                 /\ (TypeOf(graph, p) = "agent" /\ prev' = p) \/ (TypeOf(graph, p) # "agent" /\ prev' = prev)
    BY <1>8, <2>1
  <2>3. TypeOf(graph, p) # "condition"
    BY <1>4, <2>1, <2>2 DEF Conditions, OfType
  <2>4. Follow(graph, p) = Successors(graph, p)
    BY <2>3 DEF Follow
  <2>5. CASE TypeOf(graph, p) = "agent" /\ prev' = p
    BY <2>1, <2>2, <2>4, <2>5
  <2>6. CASE TypeOf(graph, p) # "agent" /\ prev' = prev
    <3>1. plan \subseteq S
      BY <1>1, <2>1, <2>6 DEF Downstream
    <3>2. CASE TypeOf(graph, p) = "end"
      <4>1. Follow(graph, p) = {}
        BY <1>4, <3>2, FollowsThePlain
      <4> QED
        BY <2>2, <4>1
    <3>3. CASE TypeOf(graph, p) # "end"
      <4>1. ASSUME NEW x \in plan'
            PROVE  x \in S
        <5>1. x \in Plain(graph, p)
          BY <1>4, <2>2, <2>3, FollowsThePlain
        <5>2. PICK a : a = <<p, x>> /\ a \in Arrows(graph)
          BY <1>4, <2>3, <3>3, <5>1, PlainIsDrawn
        <5> QED
          BY <2>1, <2>2, <3>1, <5>2 DEF Flows
      <4> QED
        BY <4>1
    <3> QED
      BY <3>2, <3>3
  <2> QED
    BY <2>2, <2>5, <2>6
<1> QED
  BY <1>1, <1>6, <1>7, <1>9, <1>10 DEF HandoffInv

LEMMA HandoffInvariant == Spec => []HandoffInv
<1>1. ASSUME HandoffInv, UNCHANGED vars PROVE HandoffInv'
  <2>1. ExecInv'
    BY <1>1 DEF HandoffInv, ExecInv, TypeOK, Shaped, Followed, OneByOne, vars, state, history
  <2> QED
    BY <1>1, <2>1 DEF HandoffInv, Within, PrevRan, OnTheWay, Downstream, vars, state, history
<1>2. HandoffInv /\ [Next]_vars => HandoffInv'
  BY <1>1, QuietStepsHandOff, EndStepHandsOff DEF Next, Work
<1> QED
  BY <1>2, HandoffInvInit, PTL DEF Spec

\* The handoff message of an agent (runtime/nodes.py, graph_builder.py:301-329) names the
\* agent that runs next, if anyone, in every drawing that does not fork and labels its
\* branches; along a line it always does.
THEOREM HandoffsReachTheNextAgent == Spec => []HandoffReachesNextAgent
<1>1. HandoffInv => HandoffReachesNextAgent
  <2>1. SUFFICES ASSUME HandoffInv, NEW a \in started, TypeOf(graph, a) = "agent", prev # NoNode
                 PROVE  /\ IsSequential(graph) /\ AllLabelled(graph) => NextAgent(graph, prev) \in {a, NoNode}
                        /\ IsLine(graph) => NextAgent(graph, prev) = a
    BY DEF HandoffReachesNextAgent
  <2>2. a \in plan /\ IsDrawing(graph) /\ Within /\ PrevRan /\ OnTheWay /\ Downstream
    BY <2>1, GraphExecAssumption DEF HandoffInv, ExecInv, TypeOK, Shaped
  <2>3. PICK c : c = AgentChain(graph)
    OBVIOUS
  <2>4. PICK after : after = {i \in 2 .. Len(c) : c[i - 1] = prev}
    OBVIOUS
  <2>5. NextAgent(graph, prev) = IF after = {} THEN NoNode ELSE c[CHOOSE i \in after : TRUE]
    BY <2>3, <2>4 DEF NextAgent
  <2>6. Len(c) \in Nat /\ DOMAIN c = 1 .. Len(c) /\ \A i \in DOMAIN c : TypeOf(graph, c[i]) = "agent"
    BY <2>2, <2>3, ChainFacts
  <2>7. ~Unreached(graph, prev)
    <3>1. prev \in ran
      BY <2>1, <2>2 DEF PrevRan
    <3> QED
      BY <2>2, <3>1 DEF Within, Unreached
  <2>8. ASSUME IsSequential(graph), AllLabelled(graph), NEW i \in after
        PROVE  c[i] = a
    <3>1. i \in DOMAIN c /\ i > 1 /\ c[i - 1] = prev
      BY <2>4, <2>6, <2>8
    <3>2. Hands(graph, prev, c[i])
      BY <2>2, <2>3, <2>8, <3>1, ChainFacts
    <3>3. PICK M : Frontier(graph, prev, M, {c[i]})
      BY <2>7, <3>2 DEF Hands
    <3>4. plan \subseteq M \cup {c[i]}
      BY <2>1, <2>2, <2>6, <2>8, <3>1, <3>3 DEF OnTheWay
    <3>5. a \notin M
      BY <2>1, <3>3 DEF Frontier
    <3> QED
      BY <2>2, <3>4, <3>5
  <2>9. IsSequential(graph) /\ AllLabelled(graph) => NextAgent(graph, prev) \in {a, NoNode}
    BY <2>5, <2>8
  <2>10. ASSUME IsLine(graph)
         PROVE  NextAgent(graph, prev) = a
    <3>1. IsSequential(graph) /\ AllLabelled(graph) /\ Conditions(graph) = {} /\ ~HasPlainCycle(graph)
      BY <2>10 DEF IsLine, IsSequential, AllLabelled
    <3>2. PICK V : /\ Entry(graph) \in V /\ \A n \in V : Plain(graph, n) \subseteq V
                   /\ \A n \in V : TypeOf(graph, n) = "agent" => \E i \in DOMAIN c : c[i] = n
      BY <2>2, <2>3, ChainFacts
    <3>3. ran \cup plan \subseteq V
      <4>1. \A n : TypeOf(graph, n) # "condition"
        BY <3>1 DEF Conditions, OfType, TypeOf
      <4>2. Closed(graph, V)
        BY <2>2, <3>2, <4>1, FollowsThePlain DEF Closed
      <4> QED
        BY <2>2, <3>2, <4>2 DEF Within
    <3>4. PICK j \in DOMAIN c : c[j] = prev
      BY <2>1, <2>2, <3>2, <3>3 DEF PrevRan
    <3>5. PICK k \in DOMAIN c : c[k] = a
      BY <2>1, <2>2, <3>2, <3>3
    <3>6. k > j
      <4>1. SUFFICES ASSUME k <= j PROVE HasPlainCycle(graph)
        BY <2>6, <3>1
      <4>2. Leads(graph, a, prev)
        BY <2>2, <2>3, <3>1, <3>4, <3>5, <4>1, ChainFacts
      <4>3. \A S : Flows(graph, S) /\ a \in S => prev \in S
        BY <2>7, <4>2 DEF Leads
      <4>4. \A S : Flows(graph, S) /\ Successors(graph, prev) \subseteq S => a \in S
        BY <2>1, <2>2, <3>1 DEF Downstream
      <4>5. Successors(graph, prev) # {}
        BY <4>4 DEF Flows
      <4>6. PICK x : x \in Successors(graph, prev)
        BY <4>5
      <4>7. TypeOf(graph, prev) = "agent"
        BY <2>1, <2>2 DEF PrevRan
      <4>8. Successors(graph, prev) \subseteq Plain(graph, prev)
        BY <2>2, <4>7, FollowsThePlain DEF Follow
      <4>9. Successors(graph, prev) \subseteq {x}
        BY <2>2, <3>1, <4>6, <4>7, <4>8, OneWayOn
      <4>10. PICK arrow : arrow = <<prev, x>> /\ arrow \in Arrows(graph)
        BY <2>2, <4>6, <4>7, <4>8, PlainIsDrawn
      <4>11. \A S : Flows(graph, S) /\ {x} \subseteq S => prev \in S
        BY <4>3, <4>4, <4>9
      <4>12. prev \in ReachableBy(Arrows(graph), {x})
        BY <4>10, <4>11 DEF ReachableBy, Flows
      <4> QED
        BY <4>10, <4>12 DEF HasPlainCycle
    <3>7. j + 1 \in after
      BY <2>4, <2>6, <3>4, <3>5, <3>6
    <3> QED
      BY <2>5, <2>8, <3>1, <3>7
  <2> QED
    BY <2>9, <2>10
<1> QED
  BY <1>1, HandoffInvariant, PTL


-----------------------------------------------------------------------------
(* What the recursion limit is for *)

\* What f says of the k-th node of a drawing; Total adds these up.
Share(g, f, k) == IF g.nodes[k].id \in DOMAIN f THEN f[g.nodes[k].id] ELSE 0

LEMMA TotalAddsUp ==
    ASSUME NEW g, IsDrawing(g), NEW f
    PROVE  \E u : /\ u[0] = 0 /\ \A k \in 1 .. Len(g.nodes) : u[k] = u[k - 1] + Share(g, f, k)
                  /\ Total(g, f) = u[Len(g.nodes)]
<1> DEFINE Rec(m, u) == u = [k \in 0 .. m |-> IF k = 0 THEN 0 ELSE u[k - 1] + Share(g, f, k)]
           Good == {m \in Nat : \E u : Rec(m, u)}
<1>1. 0 \in Good
  <2>1. PICK u : u = [k \in 0 .. 0 |-> 0]
    OBVIOUS
  <2>2. Rec(0, u)
    BY <2>1
  <2> QED
    BY <2>2
<1>2. ASSUME NEW m \in Nat, m \in Good
      PROVE  m + 1 \in Good
  <2>1. PICK u : Rec(m, u)
    BY <1>2
  <2>2. PICK v : v = [k \in 0 .. m + 1 |-> IF k = m + 1 THEN u[m] + Share(g, f, m + 1) ELSE u[k]]
    OBVIOUS
  <2>3. ASSUME NEW k \in 0 .. m + 1
        PROVE  v[k] = IF k = 0 THEN 0 ELSE v[k - 1] + Share(g, f, k)
    BY <2>1, <2>2
  <2>4. Rec(m + 1, v)
    BY <2>2, <2>3
  <2> QED
    BY <2>4
<1> HIDE DEF Good
<1>3. Nat \subseteq Good
  BY <1>1, <1>2, SetInduction
<1>4. PICK len \in Nat : len = Len(g.nodes)
  BY SeqsOfDrawing
<1>5. PICK u : Rec(len, u) /\ Total(g, f) = u[len]
  <2>1. \E u : Rec(len, u)
    BY <1>3 DEF Good
  <2>2. Total(g, f) = (CHOOSE u : Rec(len, u))[len]
    BY <1>4 DEF Total, Share
  <2> QED
    BY <2>1, <2>2
<1>6. u[0] = 0 /\ \A k \in 1 .. len : u[k] = u[k - 1] + Share(g, f, k)
  <2> HIDE DEF Rec
  <2>1. u = [k \in 0 .. len |-> IF k = 0 THEN 0 ELSE u[k - 1] + Share(g, f, k)]
    BY <1>5 DEF Rec
  <2> QED
    BY <2>1
<1> QED
  BY <1>4, <1>5, <1>6

\* A total grows with what it is a total of.
LEMMA TotalGrows ==
    ASSUME NEW g, IsDrawing(g), NEW C, NEW f \in [C -> Nat], NEW h \in [C -> Nat],
           \A c \in C : f[c] <= h[c]
    PROVE  /\ Total(g, f) \in Nat /\ Total(g, h) \in Nat /\ Total(g, f) <= Total(g, h)
           /\ \A c \in C \cap Ids(g) : f[c] < h[c] => Total(g, f) + 1 <= Total(g, h)
<1>1. PICK len \in Nat : len = Len(g.nodes) /\ DOMAIN g.nodes = 1 .. len
  BY SeqsOfDrawing
<1>2. PICK u : /\ u[0] = 0 /\ \A k \in 1 .. len : u[k] = u[k - 1] + Share(g, f, k)
               /\ Total(g, f) = u[len]
  BY <1>1, TotalAddsUp
<1>3. PICK v : /\ v[0] = 0 /\ \A k \in 1 .. len : v[k] = v[k - 1] + Share(g, h, k)
               /\ Total(g, h) = v[len]
  BY <1>1, TotalAddsUp
<1>4. \A k : Share(g, f, k) \in Nat /\ Share(g, h, k) \in Nat /\ Share(g, f, k) <= Share(g, h, k)
  BY DEF Share
<1> DEFINE Fine(k) == /\ u[k] \in Nat /\ v[k] \in Nat /\ u[k] <= v[k]
                      /\ \A j \in 1 .. k : Share(g, f, j) < Share(g, h, j) => u[k] + 1 <= v[k]
           Done == {k \in Nat : k <= len => Fine(k)}
<1>5. 0 \in Done
  BY <1>2, <1>3
<1>6. ASSUME NEW k \in Nat, k \in Done
      PROVE  k + 1 \in Done
  <2>1. SUFFICES ASSUME k + 1 <= len PROVE Fine(k + 1)
    OBVIOUS
  <2>2. k <= len /\ k + 1 \in 1 .. len /\ (k + 1) - 1 = k
    BY <1>1, <2>1
  <2>3. Fine(k)
    BY <1>6, <2>2
  <2>4. PICK a \in Nat, b \in Nat, x \in Nat, y \in Nat :
            /\ a = u[k] /\ b = v[k] /\ x = Share(g, f, k + 1) /\ y = Share(g, h, k + 1)
    BY <1>4, <2>3
  <2>5. u[k + 1] = a + x /\ v[k + 1] = b + y /\ a <= b /\ x <= y
    BY <1>2, <1>3, <1>4, <2>2, <2>3, <2>4
  <2>6. ASSUME NEW j \in 1 .. k + 1, Share(g, f, j) < Share(g, h, j)
        PROVE  u[k + 1] + 1 <= v[k + 1]
    <3>1. CASE j = k + 1
      <4>1. x < y
        BY <2>4, <2>6, <3>1
      <4> QED
        BY <2>5, <4>1
    <3>2. CASE j # k + 1
      <4>1. j \in 1 .. k
        BY <3>2
      <4>2. a + 1 <= b
        BY <2>3, <2>4, <2>6, <4>1
      <4> QED
        BY <2>5, <4>2
    <3> QED
      BY <3>1, <3>2
  <2>7. u[k + 1] \in Nat /\ v[k + 1] \in Nat /\ u[k + 1] <= v[k + 1]
    BY <2>5
  <2> QED
    BY <2>6, <2>7
<1> HIDE DEF Done
<1>7. len \in Done
  BY <1>5, <1>6, SetInduction
<1>8. Fine(len)
  BY <1>7 DEF Done
<1>9. ASSUME NEW c \in C \cap Ids(g), f[c] < h[c]
      PROVE  \E j \in 1 .. len : Share(g, f, j) < Share(g, h, j)
  <2>1. PICK j \in 1 .. len : g.nodes[j].id = c
    BY <1>1 DEF Ids
  <2> QED
    BY <1>9, <2>1 DEF Share
<1> QED
  BY <1>2, <1>3, <1>8, <1>9

\* The other nodes that lead to a node along arrows.
Upstream(g, n) == {m \in Ids(g) \ {n} : \A S : Flows(g, S) /\ m \in S => n \in S}

\* Without plain cycles an arrow leads to where there are more of them.
LEMMA UpstreamGrows ==
    ASSUME NEW g, IsDrawing(g), NEW n \in Ids(g)
    PROVE  /\ Cardinality(Ids(g)) \in Nat /\ Cardinality(Upstream(g, n)) \in Nat
           /\ Cardinality(Upstream(g, n)) + 1 <= Cardinality(Ids(g))
           /\ \A x \in Ids(g) : <<n, x>> \in Arrows(g) /\ ~HasPlainCycle(g)
                 => Cardinality(Upstream(g, n)) + 1 <= Cardinality(Upstream(g, x))
<1>1. IsFiniteSet(Ids(g))
  <2>1. PICK len \in Nat : len = Len(g.nodes) /\ DOMAIN g.nodes = 1 .. len
    BY SeqsOfDrawing
  <2>2. [i \in 1 .. len |-> g.nodes[i].id] \in Surjection(1 .. len, Ids(g))
    BY <2>1 DEF Surjection, Ids
  <2> QED
    BY <2>1, <2>2, FS_NatSurjection DEF ExistsSurjection
<1>2. ASSUME NEW x \in Ids(g)
      PROVE  IsFiniteSet(Upstream(g, x)) /\ Cardinality(Upstream(g, x)) \in Nat
  BY <1>1, FS_Subset, FS_CardinalityType DEF Upstream
<1>3. PICK up : /\ up = Upstream(g, n) \cup {n} /\ up \subseteq Ids(g) /\ IsFiniteSet(up)
                /\ Cardinality(up) = Cardinality(Upstream(g, n)) + 1
  <2>1. n \notin Upstream(g, n) /\ Upstream(g, n) \cup {n} \subseteq Ids(g)
    BY DEF Upstream
  <2> QED
    BY <1>2, <2>1, FS_AddElement
<1>4. Cardinality(up) <= Cardinality(Ids(g)) /\ Cardinality(Ids(g)) \in Nat
  BY <1>1, <1>3, FS_Subset, FS_CardinalityType
<1>5. ASSUME NEW x \in Ids(g), <<n, x>> \in Arrows(g), ~HasPlainCycle(g)
      PROVE  Cardinality(up) <= Cardinality(Upstream(g, x))
  <2>1. ~ \A S : Flows(g, S) /\ x \in S => n \in S
    <3>1. SUFFICES ASSUME \A S : Flows(g, S) /\ x \in S => n \in S PROVE FALSE
      OBVIOUS
    <3>2. PICK a : a = <<n, x>> /\ a \in Arrows(g)
      BY <1>5
    <3>3. a[1] = n /\ a[2] = x
      BY <3>2
    <3>4. n \in ReachableBy(Arrows(g), {x})
      BY <3>1, <3>2, <3>3 DEF ReachableBy, Flows
    <3>5. HasPlainCycle(g)
      BY <3>2, <3>3, <3>4 DEF HasPlainCycle
    <3> QED
      BY <1>5, <3>5
  <2>2. \A S : Flows(g, S) /\ n \in S => x \in S
    <3>1. PICK a : a = <<n, x>> /\ a \in Arrows(g)
      BY <1>5
    <3> QED
      BY <3>1 DEF Flows
  <2>3. \A m \in up : m # x /\ \A S : Flows(g, S) /\ m \in S => x \in S
    BY <1>3, <2>1, <2>2 DEF Upstream
  <2>4. up \subseteq Upstream(g, x)
    BY <1>3, <2>3 DEF Upstream
  <2> QED
    BY <1>2, <2>4, FS_Subset
<1> QED
  BY <1>2, <1>3, <1>4, <1>5

\* Without plain cycles each superstep takes a run further along arrows, but for the low
\* branches taken, each of which may take it back to the start.
Paced ==
    phase = "running" /\ ~HasPlainCycle(graph) => \A n \in plan :
        steps <= Total(graph, lowTaken) * Cardinality(Ids(graph)) + Cardinality(Upstream(graph, n))

LimitInv == ExecInv /\ LoopInv /\ Paced /\ LimitIsForPlainCycles

\* Where a step leads: along an arrow, or along a low branch that is counted.
LEMMA StepsFollowArrows ==
    ASSUME ExecInv, LoopInv, EndStep, NEW n \in plan, NEW x \in Targets(n)
    PROVE  \/ <<n, x>> \in Arrows(graph)
           \/ n \in Conditions(graph) /\ lowTaken'[n] = lowTaken[n] + 1
<1>1. TypeOK /\ Shaped /\ phase = "running" /\ StepDone /\ ApplyLoops
  BY DEF ExecInv, EndStep, StepDone
<1>2. n \in Ids(graph) /\ graph \in Graphs /\ Compiles(graph) /\ IsDrawing(graph)
  BY <1>1, GraphExecAssumption DEF TypeOK, Shaped
<1>3. CASE TypeOf(graph, n) # "condition"
  <2>1. Targets(n) = Successors(graph, n)
    BY <1>3 DEF Targets
  <2>2. PICK e \in ToSet(graph.edges) : e.from = n /\ e.to = x /\ e.when = "none"
                                        /\ TypeOf(graph, n) \notin {"condition", "end"}
    BY <1>2, <2>1, SuccessorsAreDrawn
  <2> QED
    BY <2>2, Zenon DEF Arrows
<1>4. CASE TypeOf(graph, n) = "condition" /\ ~TakesLow(n)
  <2>1. x = OkBranch(graph, n)
    BY <1>4 DEF Targets
  <2>2. n \in Conditions(graph)
    BY <1>2, <1>4 DEF Conditions, OfType
  <2> QED
    BY <2>1, <2>2, Zenon DEF Arrows
<1>5. CASE TypeOf(graph, n) = "condition" /\ TakesLow(n)
  <2>1. n \in Conditions(graph) /\ DOMAIN lowTaken = Conditions(graph)
    BY <1>2, <1>5 DEF Conditions, OfType, LoopInv, CountsOK
  <2>2. PICK judges : judges = {m \in plan : TypeOf(graph, m) = "condition"}
    OBVIOUS
  <2>3. lowTaken' = [c \in DOMAIN lowTaken |->
                        IF c \in judges /\ TakesLow(c) THEN lowTaken[c] + 1 ELSE lowTaken[c]]
    BY <1>1, <2>2 DEF ApplyLoops
  <2>4. n \in judges
    BY <1>5, <2>2
  <2> QED
    BY <1>5, <2>1, <2>3, <2>4
<1> QED
  BY <1>3, <1>4, <1>5

LEMMA QuietStepsKeepPace ==
    ASSUME LimitInv, Compile \/ Unwind \/ StepConflicts \/ RequestStop
                     \/ (\E n \in plan : StartNode(n) \/ FinishNode(n) \/ NodeRaises(n))
    PROVE  LimitInv'
<1>1. /\ UNCHANGED <<graph, steps, lowTaken>>
      /\ phase' = phase \/ phase' # "exhausted"
      /\ phase' = "running" => \/ phase = "new" /\ plan' = {Entry(graph)}
                               \/ phase = "running" /\ plan' = plan
  BY DEF Compile, Unwind, StepConflicts, RequestStop, StartNode, FinishNode, NodeRaises, state, history
<1>2. ExecInv' /\ LoopInv'
  BY QuietSteps, LoopInvNext DEF LimitInv, Next, Work
<1>3. LimitIsForPlainCycles'
  BY <1>1 DEF LimitInv, LimitIsForPlainCycles, EnoughSteps, Rounds
<1>4. Paced'
  <2>1. SUFFICES ASSUME phase' = "running", ~HasPlainCycle(graph), NEW n \in plan'
                 PROVE  steps <= Total(graph, lowTaken) * Cardinality(Ids(graph))
                                   + Cardinality(Upstream(graph, n))
    BY <1>1 DEF Paced
  <2>2. CASE phase = "running" /\ plan' = plan
    BY <2>1, <2>2 DEF LimitInv, Paced
  <2>3. CASE phase = "new" /\ plan' = {Entry(graph)}
    <3>1. steps = 0 /\ IsDrawing(graph) /\ lowTaken \in [Conditions(graph) -> Nat]
      BY <2>3, GraphExecAssumption DEF LimitInv, ExecInv, Shaped, LoopInv, CountsOK
    <3>2. n \in Ids(graph)
      BY <1>1, <1>2, <2>1 DEF ExecInv, TypeOK
    <3>3. PICK t \in Nat, N \in Nat, m \in Nat :
              /\ t = Total(graph, lowTaken) /\ N = Cardinality(Ids(graph))
              /\ m = Cardinality(Upstream(graph, n))
      BY <3>1, <3>2, TotalGrows, UpstreamGrows
    <3>4. 0 <= t * N + m
      OBVIOUS
    <3> QED
      BY <3>1, <3>3, <3>4
  <2> QED
    BY <1>1, <2>1, <2>2, <2>3
<1> QED
  BY <1>2, <1>3, <1>4 DEF LimitInv

LEMMA EndStepKeepsPace ==
    ASSUME LimitInv, EndStep
    PROVE  LimitInv'
<1>1. ExecInv' /\ LoopInv'
  BY EndStepKeeps, LoopInvNext DEF LimitInv, Next, Work
<1>2. TypeOK /\ Shaped /\ LoopInv /\ Paced /\ ExecInv
  BY DEF LimitInv, ExecInv
<1>3. /\ phase = "running" /\ plan # {} /\ graph' = graph /\ steps' = steps + 1
      /\ \A x \in plan' : \E n \in plan : x \in Targets(n)
      /\ phase' = "exhausted" => steps + 1 = Limit
  BY <1>2, GraphExecAssumption DEF EndStep, StepDone, StepsAfter, TypeOK, Shaped
<1>4. /\ IsDrawing(graph) /\ plan \subseteq Ids(graph) /\ plan' \subseteq Ids(graph) /\ steps \in Nat
      /\ lowTaken \in [Conditions(graph) -> Nat] /\ lowTaken' \in [Conditions(graph) -> Nat]
  BY <1>1, <1>2, <1>3, GraphExecAssumption DEF TypeOK, Shaped, LoopInv, CountsOK, ExecInv
<1>5. \A c \in Conditions(graph) : lowTaken[c] <= lowTaken'[c]
  BY <1>2, <1>4 DEF EndStep, ApplyLoops, LoopInv, CountsOK
<1>6. PICK t \in Nat, N \in Nat, s \in Nat :
          /\ t = Total(graph, lowTaken) /\ N = Cardinality(Ids(graph)) /\ s = steps
  <2>1. PICK n : n \in plan
    BY <1>3
  <2> QED
    BY <1>4, <2>1, TotalGrows, UpstreamGrows
<1>7. ASSUME ~HasPlainCycle(graph), NEW n \in plan
      PROVE  /\ s <= t * N + Cardinality(Upstream(graph, n))
             /\ Cardinality(Upstream(graph, n)) \in Nat /\ Cardinality(Upstream(graph, n)) + 1 <= N
  BY <1>2, <1>3, <1>4, <1>6, <1>7, UpstreamGrows DEF Paced
<1>8. \A a \in Nat : a <= t * N + N => a <= (t + 1) * N
  OBVIOUS
<1>9. Paced'
  <2>1. SUFFICES ASSUME ~HasPlainCycle(graph), NEW x \in plan'
                 PROVE  s + 1 <= Total(graph, lowTaken') * N + Cardinality(Upstream(graph, x))
    BY <1>3, <1>6 DEF Paced
  <2>2. PICK n \in plan : x \in Targets(n)
    BY <1>3
  <2>3. PICK d \in Nat, up \in Nat, at \in Nat :
            /\ d = Total(graph, lowTaken') /\ up = Cardinality(Upstream(graph, n))
            /\ at = Cardinality(Upstream(graph, x))
    BY <1>4, <1>5, TotalGrows, UpstreamGrows
  <2>4. s <= t * N + up /\ up + 1 <= N /\ t <= d
    BY <1>4, <1>5, <1>6, <1>7, <2>1, <2>3, TotalGrows
  <2>5. CASE <<n, x>> \in Arrows(graph)
    <3>1. up + 1 <= at
      BY <1>4, <2>1, <2>3, <2>5, UpstreamGrows
    <3>2. t * N <= d * N
      BY <2>4
    <3>3. PICK a \in Nat, b \in Nat : a = t * N /\ b = d * N
      OBVIOUS
    <3>4. s + 1 <= b + at
      BY <2>4, <3>1, <3>2, <3>3
    <3> QED
      BY <2>3, <3>3, <3>4
  <2>6. CASE n \in Conditions(graph) /\ lowTaken'[n] = lowTaken[n] + 1
    <3>1. n \in Conditions(graph) \cap Ids(graph) /\ lowTaken[n] < lowTaken'[n]
      BY <1>4, <2>6
    <3>2. t + 1 <= d
      BY <1>4, <1>5, <1>6, <2>3, <3>1, TotalGrows
    <3>3. (t + 1) * N <= d * N
      BY <3>2
    <3>4. s + 1 <= (t + 1) * N
      <4>1. PICK a \in Nat : a = t * N
        OBVIOUS
      <4>2. s + 1 <= a + N
        BY <2>4, <4>1
      <4> QED
        BY <1>8, <4>1, <4>2
    <3>5. PICK a \in Nat, b \in Nat : a = (t + 1) * N /\ b = d * N
      OBVIOUS
    <3>6. s + 1 <= b + at
      BY <3>3, <3>4, <3>5
    <3> QED
      BY <2>3, <3>5, <3>6
  <2> QED
    BY <1>2, <2>2, <2>5, <2>6, StepsFollowArrows
<1>10. LimitIsForPlainCycles'
  <2>1. SUFFICES ASSUME phase' = "exhausted", EnoughSteps, ~HasPlainCycle(graph)
                 PROVE  FALSE
    BY <1>3 DEF LimitIsForPlainCycles, EnoughSteps, Rounds
  <2>2. PICK n : n \in plan
    BY <1>3
  <2>3. PICK up \in Nat : up = Cardinality(Upstream(graph, n))
    BY <1>7, <2>1, <2>2
  <2>4. s <= t * N + up /\ up + 1 <= N /\ Limit = s + 1
    BY <1>3, <1>6, <1>7, <2>1, <2>2, <2>3
  <2>5. Rounds \in [Conditions(graph) -> Nat]
    BY <1>4, BranchesAreDrawn DEF Rounds
  <2>6. \A c \in Conditions(graph) : lowTaken[c] <= Rounds[c]
    <3>1. SUFFICES ASSUME NEW c \in Conditions(graph) PROVE lowTaken[c] <= MaxLoops(graph, c)
      BY DEF Rounds
    <3>2. lowTaken[c] \in Nat /\ MaxLoops(graph, c) \in Nat
      BY <1>4, BranchesAreDrawn
    <3>3. lowTaken[c] > 0 => lowTaken[c] <= MaxLoops(graph, c)
      BY <1>2 DEF LoopInv, LowBranchBounded
    <3> QED
      BY <3>2, <3>3
  <2>7. PICK r \in Nat : r = Total(graph, Rounds) /\ t <= r
    BY <1>4, <1>6, <2>5, <2>6, TotalGrows
  <2>8. s + 1 > (r + 1) * N
    BY <1>6, <2>1, <2>4, <2>7 DEF EnoughSteps
  <2>9. (t + 1) * N <= (r + 1) * N
    BY <2>7
  <2>10. s + 1 <= (t + 1) * N
    <3>1. PICK a \in Nat : a = t * N
      OBVIOUS
    <3>2. s + 1 <= a + N
      BY <2>4, <3>1
    <3> QED
      BY <1>8, <3>1, <3>2
  <2>11. PICK a \in Nat, b \in Nat : a = (t + 1) * N /\ b = (r + 1) * N
    OBVIOUS
  <2> QED
    BY <2>8, <2>9, <2>10, <2>11
<1> QED
  BY <1>1, <1>9, <1>10 DEF LimitInv

\* A run whose drawing has no plain cycle ends by itself before recursion_limit
\* (graph_builder.py:80) does, if that allows for the rounds of all conditions.
THEOREM LimitOnlyEndsPlainCycles == Spec => []LimitIsForPlainCycles
<1>1. Init => LimitInv
  BY ExecInvInit, LoopInvInit DEF Init, LimitInv, Paced, LimitIsForPlainCycles
<1>2. ASSUME LimitInv, UNCHANGED vars PROVE LimitInv'
  <2>1. LoopInv'
    BY <1>2, LoopInvNext DEF LimitInv
  <2>2. ExecInv'
    BY <1>2 DEF LimitInv, ExecInv, TypeOK, Shaped, Followed, OneByOne, vars, state, history
  <2> QED
    BY <1>2, <2>1, <2>2 DEF LimitInv, Paced, LimitIsForPlainCycles, EnoughSteps, Rounds, vars, state, history
<1>3. LimitInv /\ [Next]_vars => LimitInv'
  BY <1>2, QuietStepsKeepPace, EndStepKeepsPace DEF Next, Work
<1>4. LimitInv => LimitIsForPlainCycles
  BY DEF LimitInv
<1> QED
  BY <1>1, <1>3, <1>4, PTL DEF Spec
=============================================================================
