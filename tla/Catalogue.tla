----------------------------- MODULE Catalogue -----------------------------
(***************************************************************************)
(* Agents and workflows (services/agent_service.py,                        *)
(* services/workflow_service.py, their repositories and routes): what the  *)
(* API replicas seed when they start (startup.py), and what users create,  *)
(* rename, save, copy and delete meanwhile.  Names are unique by a check   *)
(* before the write, nothing in the database enforces them.                *)
(***************************************************************************)
EXTENDS Integers, Sequences, FiniteSets, FiniteSetsExt

CONSTANTS
  Replicas, Requests,
  MaxAgents, MaxFlows,     \* bounds on the rows ever created
  TouchedAgents, TouchedFlows,   \* bounds: the ids that users ask about
  MaxEdits,                \* bound on what users ask for
  MaxCrashes               \* bound on the replicas that die while they start

ASSUME CatalogueAssumption ==
  /\ MaxAgents \in Nat /\ MaxFlows \in Nat /\ MaxEdits \in Nat /\ MaxCrashes \in Nat
  /\ TouchedAgents \subseteq 1 .. MaxAgents /\ TouchedFlows \subseteq 1 .. MaxFlows
  /\ Replicas \intersect Requests = {}

VARIABLES
  agents,      \* per id: the agent's name, or "none"
  flows,       \* per id: the workflow
  replica,     \* per replica: how far it has started
  request,     \* per web request: what it is about to write
  edits, crashes,
  stale,       \* who has checked or read what was changed since: history
  overlapped   \* one of them wrote nevertheless, or somebody wrote columns that nothing
               \* checks: history

rows == <<agents, flows>>
races == <<stale, overlapped>>
vars == <<rows, replica, request, edits, crashes, races>>

AgentIds == 1 .. MaxAgents
FlowIds == 1 .. MaxFlows

\* uses: the agents, of those that exist, that the nodes of the drawing are given; links:
\* the workflow_agents rows, each with the version it was written for.
NoFlow == [name |-> "none", template |-> FALSE, version |-> 0, saves |-> 0, uses |-> {},
           links |-> {}]

LegacyRun == "Dev Pipeline: Trattoria Luna (run me)"
DevRun == "Dev Pipeline: Build & Deploy (run me)"

Pack(kind, names, template, guard) ==
  [kind |-> kind, names |-> names, template |-> template, guard |-> guard]

\* lifespan: what is seeded, in this order; two agents stand for the agents of a pack.
Packs == <<
  Pack("agent", <<"Researcher", "Writer">>, FALSE, "no row"),
  Pack("flow", <<"Research & Notify", "Support Triage Loop">>, TRUE, "no row"),
  Pack("flow", <<"Demo: Content Pipeline">>, FALSE, "no first"),
  Pack("agent", <<"Brief Intake", "Market Scout">>, FALSE, "no first"),
  Pack("flow", <<"Product Launch Pipeline (E2E)">>, TRUE, "no first"),
  Pack("flow", <<"E2E: Product Launch (run me)">>, FALSE, "no first"),
  Pack("agent", <<"Dev Planner", "Backend Engineer">>, FALSE, "no first"),
  Pack("flow", <<"Dev Pipeline: Build & Deploy (template)">>, TRUE, "no first"),
  Pack("flow", <<DevRun>>, FALSE, "no first") >>

\* The agents whose nodes a seeded workflow has.
TeamOf(pack) == Packs[CASE pack <= 3 -> 1 [] pack <= 6 -> 4 [] OTHER -> 7].names

AgentNamed(name) == {a \in AgentIds : agents[a] = name}
FlowNamed(name, template) ==
  {f \in FlowIds : flows[f].name = name /\ flows[f].template = template}
Named(kind, name, template) == IF kind = "agent" THEN AgentNamed(name) ELSE FlowNamed(name, template)
HasAgent(a) == agents[a] # "none"
HasFlow(f) == flows[f] # NoFlow
KnownAgents == {a \in TouchedAgents : HasAgent(a)}
KnownFlows == {f \in TouchedFlows : HasFlow(f)}
FreeAgents == {a \in AgentIds : ~HasAgent(a)}
FreeFlows == {f \in FlowIds : ~HasFlow(f)}

\* _ensure_unique_name, for a row other than `self`.
NameFree_AnyScope(kind, name, template, self) ==
  kind = "agent" => Named(kind, name, template) \subseteq {self}
NameFree(kind, name, template, self) == Named(kind, name, template) \subseteq {self}

\* Whether a pack is seeded: only into an empty table, or when its first row is missing.
Due_AnyMissing(p) == \E n \in {p.names[i] : i \in DOMAIN p.names} : Named(p.kind, n, p.template) = {}
Due(p) ==
  IF p.guard = "no first" THEN Named(p.kind, p.names[1], p.template) = {}
  ELSE IF p.kind = "agent" THEN \A a \in AgentIds : ~HasAgent(a)
  ELSE \A f \in FlowIds : ~flows[f].template

\* The links of a saved drawing: those read before are deleted, one is added per node.
LinksAfter_Kept(now, read, uses, version) == now \union {[agent |-> a, version |-> version] : a \in uses}
LinksAfter(now, read, uses, version) ==
  (now \ read) \union {[agent |-> a, version |-> version] : a \in uses}

NewFlow(name, template, uses) ==
  [name |-> name, template |-> template, version |-> 1, saves |-> 0, uses |-> uses,
   links |-> LinksAfter({}, {}, uses, 1)]

Off == [pack |-> 0, item |-> 0, at |-> "down"]
NoRequest == [op |-> "none", id |-> 0, name |-> "none", template |-> FALSE, version |-> 0,
              uses |-> {}, links |-> {}]

Init ==
  /\ agents = [a \in AgentIds |-> "none"]
  /\ \E old \in {NoFlow, NewFlow(LegacyRun, FALSE, {})} :
       flows = [f \in FlowIds |-> IF f = MaxFlows THEN old ELSE NoFlow]
  /\ replica = [r \in Replicas |-> Off] /\ request = [q \in Requests |-> NoRequest]
  /\ edits = 0 /\ crashes = 0 /\ stale = {} /\ overlapped = FALSE

-----------------------------------------------------------------------------
Pending(me) ==
  \/ me \in Replicas /\ replica[me].at = "write"
  \/ me \in Requests /\ request[me].op # "none"

Unchecked(me) == me \in Requests /\ request[me].op = "columns"

Read(me) == stale' = stale \ {me} /\ UNCHANGED overlapped
Wrote(me) ==
  /\ stale' = {p \in Replicas \union Requests : Pending(p)} \ {me}
  /\ overlapped' = (overlapped \/ me \in stale \/ Unchecked(me))

AddAgent(name) == agents' = [agents EXCEPT ![Min(FreeAgents)] = name]
AddFlow(flow) == flows' = [flows EXCEPT ![Min(FreeFlows)] = flow]

-----------------------------------------------------------------------------
\* A replica starts.

GoTo(r, pack, item, at) == replica' = [replica EXCEPT ![r] = [pack |-> pack, item |-> item, at |-> at]]
NextPack(r, k) == GoTo(r, k + 1, 1, IF k = Len(Packs) THEN "refresh" ELSE "guard")

Start(r) ==
  /\ replica[r].at \in {"down", "failed"}
  /\ GoTo(r, 1, 1, "guard")
  /\ UNCHANGED <<rows, request, edits, crashes, races>>

\* seed_default_agents, seed_*_agents, seed_workflow_templates, seed_*_workflow, seed_*_template
CheckPack(r) ==
  LET k == replica[r].pack IN
  /\ replica[r].at = "guard"
  /\ IF Due(Packs[k]) THEN GoTo(r, k, 1, "check") ELSE NextPack(r, k)
  /\ UNCHANGED <<rows, request, edits, crashes, races>>

\* create_agent and create_workflow: a name that exists is an error, and nobody catches
\* it: the replica does not start.
CheckName(r) ==
  LET s == replica[r] p == Packs[s.pack] IN
  /\ s.at = "check"
  /\ GoTo(r, s.pack, s.item,
          IF NameFree(p.kind, p.names[s.item], p.template, 0) THEN "write" ELSE "failed")
  /\ Read(r)
  /\ UNCHANGED <<rows, request, edits, crashes>>

Seed(r) ==
  LET s == replica[r] p == Packs[s.pack] IN
  /\ s.at = "write"
  /\ IF p.kind = "agent" THEN FreeAgents # {} /\ AddAgent(p.names[s.item]) /\ UNCHANGED flows
     ELSE /\ FreeFlows # {}
          /\ AddFlow(NewFlow(p.names[s.item], p.template,
               {a \in AgentIds : \E i \in DOMAIN TeamOf(s.pack) : agents[a] = TeamOf(s.pack)[i]}))
          /\ UNCHANGED agents
  /\ IF s.item = Len(p.names) THEN NextPack(r, s.pack) ELSE GoTo(r, s.pack, s.item + 1, "check")
  /\ Wrote(r)
  /\ UNCHANGED <<request, edits, crashes>>

\* refresh_dev_pipeline_workflows; descriptions, prompts and tools are not modelled.
Refresh(r) ==
  LET legacy == FlowNamed(LegacyRun, FALSE) IN
  /\ replica[r].at = "refresh"
  /\ IF legacy # {} /\ FlowNamed(DevRun, FALSE) = {}
     THEN flows' = [flows EXCEPT ![Min(legacy)].name = DevRun] /\ Wrote(r)
     ELSE UNCHANGED flows /\ UNCHANGED races
  /\ GoTo(r, 0, 0, "up")
  /\ UNCHANGED <<agents, request, edits, crashes>>

CrashWhileStarting(r) ==
  /\ replica[r].at \notin {"down", "failed", "up"} /\ crashes < MaxCrashes
  /\ crashes' = crashes + 1
  /\ GoTo(r, 0, 0, "down")
  /\ UNCHANGED <<rows, request, edits, races>>

-----------------------------------------------------------------------------
\* Users: what a request checks and reads first, and what it writes then.

MayEdit(q) == request[q].op = "none" /\ edits < MaxEdits

Edit(q, op) ==
  /\ MayEdit(q) /\ edits' = edits + 1
  /\ request' = [request EXCEPT ![q] = op]
  /\ Read(q)
  /\ UNCHANGED <<rows, replica, crashes>>

UserNames == {"Market Scout", "Mine"}

\* create_agent, and update_agent with a name that is not the agent's own.
AskAgent(q) ==
  /\ MayEdit(q)
  /\ \E name \in UserNames, a \in KnownAgents \union {0} :
       /\ NameFree("agent", name, FALSE, a)
       /\ Edit(q, [NoRequest EXCEPT !.op = "agent", !.id = a, !.name = name])

\* create_workflow, and update_workflow with another name.
AskFlow(q) ==
  /\ MayEdit(q)
  /\ \E name \in {"Mine", DevRun}, f \in KnownFlows \union {0} :
       LET template == f # 0 /\ flows[f].template IN
       /\ NameFree("flow", name, template, f)
       /\ Edit(q, [NoRequest EXCEPT !.op = "flow", !.id = f, !.name = name, !.template = template])

\* duplicate_from_template: _next_available_name, then create_workflow checks it again.
AskDuplicate(q) ==
  /\ MayEdit(q)
  /\ \E f \in KnownFlows :
       /\ flows[f].template
       /\ \E name \in {"Copy", "Copy (2)"} :
            /\ FlowNamed(name, FALSE) = {} /\ (name = "Copy (2)" => FlowNamed("Copy", FALSE) # {})
            /\ Edit(q, [NoRequest EXCEPT !.op = "flow", !.name = name,
                          !.uses = {l.agent : l \in flows[f].links}])

\* save_workflow_graph: every agent of the drawing has to exist.
AskSave(q) ==
  /\ MayEdit(q)
  /\ \E f \in KnownFlows, uses \in SUBSET KnownAgents :
       Edit(q, [NoRequest EXCEPT !.op = "save", !.id = f, !.uses = uses,
                   !.version = flows[f].version + 1, !.links = flows[f].links])

\* The API takes every column as it is given: nothing compares links and version with the
\* drawing, and a new is_template is not a reason to check the name.
AskColumns(q) ==
  /\ MayEdit(q)
  /\ \E f \in KnownFlows \union {0}, template \in BOOLEAN :
       /\ f = 0 => NameFree("flow", "Mine", template, 0)
       /\ Edit(q, [NoRequest EXCEPT !.op = "columns", !.id = f, !.template = template,
                      !.links = IF f = 0 THEN {} ELSE flows[f].links])

Columns(now, r, uses, linked, version) ==
  [now EXCEPT !.template = r.template, !.version = version, !.uses = uses,
              !.links = LinksAfter(@, r.links, linked, version)]

\* The drawing, the agents linked and the version are whatever the request gave.
WriteColumns(r) ==
  \E uses, linked \in SUBSET KnownAgents, version \in {1, 2} :
    IF r.id # 0 THEN flows' = [flows EXCEPT ![r.id] = Columns(@, r, uses, linked, version)]
    ELSE FreeFlows # {} /\ AddFlow(Columns(NewFlow("Mine", FALSE, {}), r, uses, linked, version))

\* save_workflow_graph: the next version of what was read, and its links.
Saved(now, r) ==
  [now EXCEPT !.version = r.version, !.saves = @ + 1, !.uses = r.uses,
              !.links = LinksAfter(@, r.links, r.uses, r.version)]

\* The row to write is gone, or an agent it links to: the database refuses.
Refused(r) ==
  \/ r.op = "agent" /\ r.id # 0 /\ ~HasAgent(r.id)
  \/ r.op \in {"flow", "save", "columns"} /\ r.id # 0 /\ ~HasFlow(r.id)
  \/ \E a \in r.uses : ~HasAgent(a)

Refuse(q) ==
  /\ request[q].op # "none" /\ Refused(request[q])
  /\ request' = [request EXCEPT ![q] = NoRequest]
  /\ UNCHANGED <<rows, replica, edits, crashes, races>>

Commit(q) ==
  LET r == request[q] IN
  /\ r.op # "none" /\ ~Refused(r)
  /\ CASE r.op = "agent" ->
            /\ IF r.id # 0 THEN agents' = [agents EXCEPT ![r.id] = r.name]
               ELSE FreeAgents # {} /\ AddAgent(r.name)
            /\ UNCHANGED flows
       [] r.op = "flow" ->
            /\ IF r.id # 0 THEN flows' = [flows EXCEPT ![r.id].name = r.name]
               ELSE FreeFlows # {} /\ AddFlow(NewFlow(r.name, FALSE, r.uses))
            /\ UNCHANGED agents
       [] r.op = "columns" ->
            /\ WriteColumns(r)
            /\ UNCHANGED agents
       [] OTHER ->
            /\ flows' = [flows EXCEPT ![r.id] = Saved(@, r)]
            /\ UNCHANGED agents
  /\ request' = [request EXCEPT ![q] = NoRequest]
  /\ Wrote(q)
  /\ UNCHANGED <<replica, edits, crashes>>

\* delete_agent and delete_workflow depend on nothing read before.
Delete ==
  /\ edits < MaxEdits /\ edits' = edits + 1
  /\ stale' = {p \in Replicas \union Requests : Pending(p)}
  /\ UNCHANGED <<replica, request, crashes, overlapped>>

\* The links of a deleted agent are deleted with it.
DeleteAgent ==
  \E a \in KnownAgents :
    /\ Delete
    /\ agents' = [agents EXCEPT ![a] = "none"]
    /\ flows' = [f \in FlowIds |->
         [flows[f] EXCEPT !.links = {l \in @ : l.agent # a}, !.uses = @ \ {a}]]

DeleteFlow ==
  \E f \in KnownFlows :
    /\ Delete
    /\ flows' = [flows EXCEPT ![f] = NoFlow]
    /\ UNCHANGED agents

ReplicaStep(r) ==
  Start(r) \/ CheckPack(r) \/ CheckName(r) \/ Seed(r) \/ Refresh(r)

RequestStep(q) ==
  \/ AskAgent(q) \/ AskFlow(q) \/ AskDuplicate(q) \/ AskSave(q) \/ AskColumns(q)
  \/ Refuse(q) \/ Commit(q)

Next ==
  \/ \E r \in Replicas : ReplicaStep(r) \/ CrashWhileStarting(r)
  \/ \E q \in Requests : RequestStep(q)
  \/ DeleteAgent \/ DeleteFlow

\* A replica that runs goes on, and one that is down or failed to start is started again.
Fairness == \A r \in Replicas : WF_vars(ReplicaStep(r))

Spec == Init /\ [][Next]_vars /\ Fairness

-----------------------------------------------------------------------------
\* tests/test_agents.py:82-86: an agent that is created under a name that exists is refused.
UniqueAgents == \A a, b \in AgentIds : HasAgent(a) /\ agents[a] = agents[b] => a = b

UniqueFlows ==
  \A f, g \in FlowIds :
    HasFlow(f) /\ flows[f].name = flows[g].name /\ flows[f].template = flows[g].template => f = g

\* One agent per name, and one workflow and one template (agent_service.py:513-516,
\* workflow_service.py:560-572), while nobody writes on an outdated check or turns a
\* workflow into a template, or back, by the API.
NamesUnique == ~overlapped => UniqueAgents /\ UniqueFlows

\* A workflow's links are the agents of its drawing that still exist, and its version
\* counts the times it was saved (workflow_service.py:95-108), under the same condition.
LinksFollowGraph ==
  ~overlapped => \A f \in FlowIds : HasFlow(f) =>
    /\ {l.agent : l \in flows[f].links} = flows[f].uses
    /\ Cardinality(flows[f].links) = Cardinality(flows[f].uses)
    /\ flows[f].version = flows[f].saves + 1

\* Every replica comes up in the end (main.py:38-51), though a start fails where another
\* one, a crash or a user left a pack half there.
StartupCompletes == <>(\A r \in Replicas : replica[r].at = "up")

=============================================================================
