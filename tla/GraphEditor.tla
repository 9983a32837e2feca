---------------------------- MODULE GraphEditor ----------------------------
(***************************************************************************)
(* The builder page (ui/js/workflow-graph.js, ui/js/workflow-builder.js):  *)
(* a stored drawing becomes boxes with output ports that the page shows,   *)
(* and the boxes become a drawing again when the user saves.               *)
(*                                                                         *)
(* A canvas is a sequence of boxes [id, type, field, linked, ports], whose *)
(* two ports are sequences of the positions they lead to.                  *)
(***************************************************************************)
EXTENDS GraphExec

\* outputsForType: an end node has no outputs, only a condition has a second one.
Ports(type) ==
  CASE type = "end" -> {} [] type = "condition" -> {1, 2} [] OTHER -> {1}

\* outputKeyForWhen and whenFromOutputKey.
PortFor_OkOnly(when) == IF when \in Whens THEN 1 ELSE 2
PortFor(when) == IF when = "low" THEN 2 ELSE 1
WhenOf(port, type) ==
  IF type # "condition" THEN "none" ELSE IF port = 2 THEN "low" ELSE "ok"

\* idMap: the last of several nodes of one name.
Position(g, id) ==
  SelectLastInSeq(g.nodes, LAMBDA n : n.id = id)

\* simpleToDrawflow: an edge whose ends or whose port does not exist is dropped, and
\* with it what max_loops said.
Connections(g, i, port) ==
  LET upTo[k \in 0 .. Len(g.edges)] ==
        IF k = 0 THEN <<>>
        ELSE LET e == g.edges[k]
             IN IF Position(g, e.from) = i /\ PortFor(e.when) = port /\ Position(g, e.to) # 0
                THEN Append(upTo[k - 1], Position(g, e.to)) ELSE upTo[k - 1]
  IN IF port \in Ports(g.nodes[i].type) THEN upTo[Len(g.edges)] ELSE <<>>

\* An agent node keeps the agent it has; one without an agent has to be given one.
ToCanvas(g) ==
  [i \in DOMAIN g.nodes |->
     [id |-> g.nodes[i].id, type |-> g.nodes[i].type, field |-> g.nodes[i].field,
      linked |-> g.nodes[i].id \in g.linked,
      ports |-> [p \in {1, 2} |-> Connections(g, i, p)]]]

\* The edges that one port of one box becomes.
EdgesOf(canvas, i, port) ==
  [k \in DOMAIN canvas[i].ports[port] |->
     [from |-> canvas[i].id, to |-> canvas[canvas[i].ports[port][k]].id,
      when |-> WhenOf(port, canvas[i].type), max_loops |-> NotGiven]]

\* drawflowToSimple: box by box, port by port; the links are then taken from the nodes.
FromCanvas(canvas) ==
  [nodes |-> [i \in DOMAIN canvas |->
                [id |-> canvas[i].id, type |-> canvas[i].type, field |-> canvas[i].field]],
   edges |-> FlattenSeq([i \in DOMAIN canvas |->
                           EdgesOf(canvas, i, 1) \o EdgesOf(canvas, i, 2)]),
   linked |-> {canvas[i].id : i \in {j \in DOMAIN canvas :
                                      canvas[j].linked /\ canvas[j].type = "agent"}}]

\* prepareGraphForEditor, editor.import, collectNodeDataFromDom and saveGraph, for a user
\* who changes nothing.
SavedUnchanged(g) == FromCanvas(ToCanvas(g))

-----------------------------------------------------------------------------
\* What the page can draw: labels on the branches of conditions and nowhere else, and
\* nothing that leads out of an end node.
CanBeDrawn(g) ==
  /\ AllLabelled(g)
  /\ \A e \in ToSet(g.edges) : /\ e.when # "none" => TypeOf(g, e.from) = "condition"
                               /\ TypeOf(g, e.from) # "end"

\* Both drawings run alike, but for the number of rounds a low branch may take.
RunAlike(g, h) ==
  /\ Compiles(h) /\ Entry(h) = Entry(g) /\ Ids(h) = Ids(g)
  /\ \A n \in Ids(g) \ Conditions(g) : Successors(h, n) = Successors(g, n)
  /\ \A c \in Conditions(g) : OkBranch(h, c) = OkBranch(g, c) /\ LowBranch(h, c) = LowBranch(g, c)
  /\ \A n \in OfType(g, "agent") : NextAgent(h, n) = NextAgent(g, n)

\* workflow-graph.js: a drawing that the builder page can draw, opened there and saved
\* unchanged, still runs the way it did; only the number of low rounds is lost.
EditorKeepsMeaning ==
  phase = "new" /\ Compiles(graph) /\ CanBeDrawn(graph)
    => RunAlike(graph, SavedUnchanged(graph))
=============================================================================
