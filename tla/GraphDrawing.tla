---------------------------- MODULE GraphDrawing ----------------------------
(***************************************************************************)
(* How runtime/graph_builder.py reads a workflow drawing (graph_json): the *)
(* node it enters, the edges it wires, the branches of a condition, the    *)
(* agent a handoff is addressed to, and the drawings it refuses.           *)
(*                                                                         *)
(* A drawing g has nodes, a sequence of [id, type, field]; edges, a        *)
(* sequence of [from, to, when, max_loops] in drawing order; and linked,   *)
(* the agent nodes that have an agent in the database.                     *)
(***************************************************************************)
EXTENDS Integers, Sequences, FiniteSets, SequencesExt

NodeTypes == {"agent", "channel", "condition", "end"}
Whens     == {"none", "ok", "low"}   \* "none": the edge carries no label
NoNode    == "(none)"
NotGiven == -1                      \* max_loops is not given on the edge
DefaultLoops == 3

\* What _normalize_nodes and _normalize_edges let through: lists, with the ids as strings.
\* A negative max_loops stands as 0: neither allows a round.
IsDrawing(g) ==
    /\ g.nodes \in Seq([id : STRING \ {NoNode}, type : NodeTypes, field : STRING])
    /\ g.edges \in Seq([from : STRING, to : STRING \ {NoNode}, when : Whens,
                    max_loops : Nat \cup {NotGiven}])

Ids(g) == {g.nodes[i].id : i \in DOMAIN g.nodes}
NodeOf(g, id) == g.nodes[CHOOSE i \in DOMAIN g.nodes : g.nodes[i].id = id]
TypeOf(g, id) == IF id \in Ids(g) THEN NodeOf(g, id).type ELSE "unknown"
OfType(g, type) == {id \in Ids(g) : TypeOf(g, id) = type}
Conditions(g) == OfType(g, "condition")

-----------------------------------------------------------------------------
(* Branches of a condition *)

\* The edges drawn from a condition, by their place in the drawing.
Branches(g, c) == {i \in DOMAIN g.edges : g.edges[i].from = c}

\* A later branch of the same kind replaces an earlier one; a missing kind is
\* taken from the first (ok) or second (low) branch drawn.
OkBranch(g, c) ==
    LET all == Branches(g, c)
        oks == {i \in all : g.edges[i].when # "low"}
    IN IF oks # {} THEN g.edges[Max(oks)].to
       ELSE IF all # {} THEN g.edges[Min(all)].to ELSE NoNode

LowBranch(g, c) ==
    LET all  == Branches(g, c)
        lows == {i \in all : g.edges[i].when = "low"}
        rest == all \ {Min(all)}
    IN IF lows # {} THEN g.edges[Max(lows)].to
       ELSE IF all # {} /\ rest # {} THEN g.edges[Min(rest)].to ELSE NoNode

MaxLoops(g, c) ==
    LET limits == {i \in Branches(g, c) : g.edges[i].when = "low"
                                            /\ g.edges[i].max_loops # NotGiven}
    IN IF limits # {} THEN g.edges[Max(limits)].max_loops ELSE DefaultLoops

-----------------------------------------------------------------------------
(* Wiring *)

HasIncoming(g, id) == \E i \in DOMAIN g.edges : g.edges[i].to = id

\* The first node drawn without an incoming edge; the first node if all have one.
Entry(g) ==
    LET starts == {i \in DOMAIN g.nodes : ~HasIncoming(g, g.nodes[i].id)}
    IN g.nodes[IF starts # {} THEN Min(starts) ELSE 1].id

\* Labelled edges lead out of conditions only; an edge out of an end node counts
\* only if it leads to an end node.
Wired(g) == {e \in ToSet(g.edges) :
                /\ e.when = "none"
                /\ TypeOf(g, e.from) # "condition"
                /\ TypeOf(g, e.to) = "end" \/ TypeOf(g, e.from) # "end"}

\* What runs after a node that is not a condition: edges into an end node lead to
\* LangGraph's END, that is, nowhere.
Successors_FirstOnly(g, id) ==
    LET all == SelectSeq(g.edges, LAMBDA e : /\ e \in Wired(g) /\ e.from = id
                                             /\ TypeOf(g, e.to) # "end")
    IN IF all = <<>> THEN {} ELSE {all[1].to}
Successors(g, id) == {e.to : e \in {f \in Wired(g) : f.from = id
                                                 /\ TypeOf(g, f.to) # "end"}}

\* compile() refuses the drawing otherwise: _compile_graph raises, or LangGraph's own
\* validation does (duplicate ids, no entry point, edges to unknown nodes).
Compiles(g) ==
    /\ g.nodes # <<>>
    /\ Cardinality(Ids(g)) = Len(g.nodes)
    /\ OfType(g, "agent") \subseteq g.linked
    /\ TypeOf(g, Entry(g)) # "end"
    /\ \A c \in Conditions(g) : /\ OkBranch(g, c) # NoNode /\ LowBranch(g, c) # NoNode
                                /\ \A i \in Branches(g, c) : g.edges[i].to \in Ids(g)
    /\ \A e \in Wired(g) : e.from \in Ids(g) /\ e.to \in Ids(g)

-----------------------------------------------------------------------------
(* _linear_agent_chain: agents in breadth-first order over unlabelled edges. *)

\* Where the edges of a node that carry a label lead, in drawing order.
Labelled(edges, id, when) ==
    LET upTo[k \in 0 .. Len(edges)] ==
            IF k = 0 THEN <<>>
            ELSE IF edges[k].from = id /\ edges[k].when = when
                 THEN Append(upTo[k - 1], edges[k].to)
                 ELSE upTo[k - 1]
    IN upTo[Len(edges)]
Unlabelled(g, id) == Labelled(g.edges, id, "none")

ChainStep(g, s) ==
    IF s.queue = <<>> THEN s
    ELSE LET id == Head(s.queue)
         IN IF id \in s.visited THEN [s EXCEPT !.queue = Tail(s.queue)]
            ELSE [queue   |-> Tail(s.queue) \o Unlabelled(g, id),
                  visited |-> s.visited \cup {id},
                  order   |-> IF TypeOf(g, id) = "agent" THEN Append(s.order, id)
                                                         ELSE s.order]

\* Every edge is enqueued at most once, so the queue is empty after this many steps.
ChainSteps(g) == Len(g.edges) + 1
Walk(g) ==
    LET walk[k \in 0 .. ChainSteps(g)] ==
            IF k = 0 THEN [queue |-> <<Entry(g)>>, visited |-> {}, order |-> <<>>]
                     ELSE ChainStep(g, walk[k - 1])
    IN walk
AgentChain(g) == Walk(g)[ChainSteps(g)].order

\* next_agent_by_node: whom the handoff message of an agent node is addressed to.
NextAgent_Reversed(g, id) ==
    LET chain == Reverse(AgentChain(g))
        after == {i \in 2 .. Len(chain) : chain[i - 1] = id}
    IN IF after = {} THEN NoNode ELSE chain[CHOOSE i \in after : TRUE]
NextAgent(g, id) ==
    LET chain == AgentChain(g)
        after == {i \in 2 .. Len(chain) : chain[i - 1] = id}
    IN IF after = {} THEN NoNode ELSE chain[CHOOSE i \in after : TRUE]

-----------------------------------------------------------------------------
(* Reading the drawing the way its author does (used by properties only). *)

\* One arrow of the drawing as the author sees it, resolved for conditions.
Arrows(g) ==
    {<<e.from, e.to>> : e \in {f \in ToSet(g.edges) : f.when = "none"
                                 /\ TypeOf(g, f.from) \notin {"condition", "end"}}}
      \cup {<<c, OkBranch(g, c)>> : c \in Conditions(g)}

ReachableBy(arrows, from) ==
    LET ids == {a[1] : a \in arrows} \cup {a[2] : a \in arrows} \cup from
    IN {n \in ids : \A closed \in SUBSET ids :
            /\ from \subseteq closed
            /\ \A a \in arrows : a[1] \in closed => a[2] \in closed
            => n \in closed}

\* A cycle that no low branch is part of: nothing bounds its rounds but the
\* recursion limit.
HasPlainCycle(g) ==
    \E a \in Arrows(g) : a[1] \in ReachableBy(Arrows(g), {a[2]})

\* A single line of nodes without conditions.
IsLine(g) ==
    /\ Conditions(g) = {} /\ ~HasPlainCycle(g)
    /\ \A a, b \in Arrows(g) : a[1] = b[1] \/ a[2] = b[2] => a = b

\* No node leads to two nodes at once.
IsSequential(g) == \A a, b \in Arrows(g) :
                        a[1] = b[1] /\ a[1] \notin Conditions(g) => a = b

\* Every branch of a condition says which it is.
AllLabelled(g) == \A c \in Conditions(g) : \A i \in Branches(g, c) : g.edges[i].when # "none"
=============================================================================
