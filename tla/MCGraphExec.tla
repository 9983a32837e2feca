---------------------------- MODULE MCGraphExec ----------------------------
(***************************************************************************)
(* Drawings for GraphExec: every small drawing over a set of candidate     *)
(* edges, and those that workflow_service.py seeds.                        *)
(***************************************************************************)
EXTENDS GraphExec, SeededDrawings, GraphEditor, TLC

-----------------------------------------------------------------------------
(* Small drawings *)

\* The drawings over these nodes with any of these edges, in this order.
SubDrawings(nodes, edges) ==
    {LET kept == SelectSeq([i \in DOMAIN edges |-> i], LAMBDA i : i \in S)
     IN Drawing(nodes, [k \in DOMAIN kept |-> edges[kept[k]]])
        : S \in SUBSET DOMAIN edges}

\* An agent, a condition and a third node of any type; only two labelled branches.
Mixed(type, field) ==
    SubDrawings(<<Node("a", "agent"), Gate("c", field), Node("x", type)>>,
                <<Plain("a", "c"), Plain("a", "x"), Plain("c", "x"), Low("c", "a", 1),
                  Plain("x", "c"), Low("c", "x", 0)>>
                  \o (IF type = "agent" THEN <<Plain("x", "a")>> ELSE <<>>))

\* The condition is drawn first, so the run may start with it.
GateFirst ==
    SubDrawings(<<Gate("c", "confidence"), Node("a", "agent"), Node("b", "agent")>>,
                <<Plain("a", "b"), Plain("b", "c"), Plain("a", "c"), Ok("c", "b"),
                  Low("c", "a", 1), Plain("b", "a")>>)

\* Two conditions, which may run in one superstep, judge or follow one another.
TwoGates(field) ==
    SubDrawings(<<Node("a", "agent"), Gate("c", field), Gate("d", "flag"),
                  Node("b", "agent")>>,
                <<Plain("a", "c"), Plain("a", "d"), Ok("c", "b"), Low("c", "a", 1),
                  Ok("d", "b"), Low("d", "a", 2), Plain("d", "c")>>)

\* Drawings that are refused: no nodes, an agent without a link, an edge to a node
\* that was deleted, two nodes of one name, an end node to start with.
Refused == {
    Drawing(<< >>, << >>),
    [Drawing(<<Node("a", "agent")>>, << >>) EXCEPT !.linked = {}],
    Drawing(<<Node("a", "agent")>>, <<Plain("a", "gone")>>),
    Drawing(<<Node("a", "agent"), Node("a", "channel")>>, << >>),
    Drawing(<<Node("e", "end"), Node("a", "agent")>>, << >>)}

SmallDrawings ==
    UNION {Mixed(type, "flag") : type \in {"agent", "channel", "end"}}
        \cup TwoGates("confidence")
        \cup GateFirst \cup Refused

-----------------------------------------------------------------------------
\* Nothing but the recursion limit ends this one.
Circle == Drawing(Team(<<"a", "b">>), <<Plain("a", "b"), Plain("b", "a")>>)

AllDrawings == SmallDrawings \cup Seeded \cup {Circle}

=============================================================================
