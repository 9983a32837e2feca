--------------------------- MODULE SeededDrawings ---------------------------
(***************************************************************************)
(* The workflows that services/workflow_service.py seeds, as drawings.     *)
(***************************************************************************)
EXTENDS GraphDrawing

Node(id, type) == [id |-> id, type |-> type, field |-> "flag"]
Gate(id, field) == [id |-> id, type |-> "condition", field |-> field]
Plain(from, to) == [from |-> from, to |-> to, when |-> "none", max_loops |-> NotGiven]
Ok(from, to) == [Plain(from, to) EXCEPT !.when = "ok"]
Low(from, to, max) == [from |-> from, to |-> to, when |-> "low", max_loops |-> max]

\* Every agent that a seeded drawing names is seeded before it.
Drawing(nodes, edges) ==
  [nodes |-> nodes, edges |-> edges,
   linked |-> {nodes[i].id : i \in {j \in DOMAIN nodes : nodes[j].type = "agent"}}]

Line(names) == [i \in 1 .. Len(names) - 1 |-> Plain(names[i], names[i + 1])]
Team(names) == [i \in DOMAIN names |-> Node(names[i], "agent")]

DemoContentPipeline ==
  Drawing(Append(Team(<<"coordinate", "research", "write">>), Node("done", "end")),
          Line(<<"coordinate", "research", "write", "done">>))

ResearchNotify ==
  Drawing(Append(Team(<<"research", "writer">>), Node("notify", "channel")),
          Line(<<"research", "writer", "notify">>))

ProductLaunchPipeline ==
  Drawing(Append(Team(<<"intake", "scout", "strategy", "copy", "review">>),
                 Node("notify", "channel")),
          Line(<<"intake", "scout", "strategy", "copy", "review", "notify">>))

SupportTriage ==
  Drawing(<<Node("triage", "agent"), Gate("confidence_check", "confidence"),
            Node("specialist", "agent"), Node("end", "end")>>,
          <<Plain("triage", "confidence_check"), Ok("confidence_check", "specialist"),
            Low("confidence_check", "triage", 3), Plain("specialist", "end")>>)

DevPipelineGraph ==
  Drawing(Team(<<"planner", "backend", "frontend", "reviewer">>)
              \o <<Gate("review_gate", "flag"), Node("tester", "agent"),
                   Gate("test_gate", "flag"), Node("devops", "agent")>>,
          <<Plain("planner", "backend"), Plain("backend", "frontend"),
            Plain("frontend", "reviewer"), Plain("reviewer", "review_gate"),
            Ok("review_gate", "tester"), Low("review_gate", "backend", 2),
            Plain("tester", "test_gate"), Ok("test_gate", "devops"),
            Low("test_gate", "backend", 2)>>)

Seeded == {DemoContentPipeline, ResearchNotify, ProductLaunchPipeline, SupportTriage,
           DevPipelineGraph}
=============================================================================
