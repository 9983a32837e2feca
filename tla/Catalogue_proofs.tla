--------------------------- MODULE Catalogue_proofs ---------------------------
(***************************************************************************)
(* What TLAPS proves of Catalogue, for any number of replicas, requests,   *)
(* rows, edits and crashes: while nobody writes on an outdated check or    *)
(* replaces columns that nothing checks, names are unique and the links of *)
(* a workflow are those of its drawing.                                    *)
(***************************************************************************)
EXTENDS Catalogue, FiniteSetTheorems, WellFoundedInduction, TLAPS

\* The names there are.
PackNames == UNION {Range(Packs[k].names) : k \in DOMAIN Packs}
Names == {"none", LegacyRun, DevRun, "Copy", "Copy (2)", "Mine"} \union PackNames \union UserNames

Stages == {"down", "guard", "check", "write", "refresh", "up", "failed"}
Ops == {"none", "agent", "flow", "save", "columns"}

Link == [agent : AgentIds, version : Int]
Flow == [name : Names, template : BOOLEAN, version : Int, saves : Nat, uses : SUBSET AgentIds,
         links : SUBSET Link]
Stage == [pack : 0 .. Len(Packs) + 1, item : 0 .. 2, at : Stages]
Ask == [op : Ops, id : Nat, name : Names, template : BOOLEAN, version : Int,
        uses : SUBSET AgentIds, links : SUBSET Link]

Typed ==
  /\ agents \in [AgentIds -> Names] /\ flows \in [FlowIds -> Flow]
  /\ replica \in [Replicas -> Stage] /\ request \in [Requests -> Ask]
  /\ overlapped \in BOOLEAN

\* A workflow has a name; a replica that checks or writes is at an item of a pack; a request
\* is about a row and a name there can be.
StageShape(s) ==
  /\ s.at \in {"guard", "check", "write"} => s.pack \in DOMAIN Packs
  /\ s.at \in {"check", "write"} => s.item \in DOMAIN Packs[s.pack].names
AskShape(r) ==
  /\ r.op = "agent" => r.id \in AgentIds \union {0}
  /\ r.op \in {"flow", "columns"} => r.id \in FlowIds \union {0}
  /\ r.op = "save" => r.id \in FlowIds
  /\ r.op \in {"agent", "flow"} => r.name # "none"
Shaped ==
  /\ \A f \in FlowIds : HasFlow(f) => flows[f].name # "none"
  /\ \A r \in Replicas : StageShape(replica[r])
  /\ \A q \in Requests : AskShape(request[q])

\* What a check that nothing has outdated says of the rows.
FreshReplica(r) ==
  LET p == Packs[replica[r].pack] IN NameFree(p.kind, p.names[replica[r].item], p.template, 0)
FreshAsk(r) ==
  /\ r.op = "agent" => NameFree("agent", r.name, FALSE, r.id)
  /\ r.op = "flow" => /\ NameFree("flow", r.name, r.template, r.id)
                      /\ r.template = (r.id # 0 /\ flows[r.id].template)
  /\ r.op = "save" => r.version = flows[r.id].version + 1 /\ r.links = flows[r.id].links
Fresh ==
  /\ \A r \in Replicas \ stale : replica[r].at = "write" => FreshReplica(r)
  /\ \A q \in Requests \ stale : request[q].op # "none" => FreshAsk(request[q])

\* The links of a workflow: one per agent, for the agents of its drawing.
FollowsGraph(flow) ==
  /\ {l.agent : l \in flow.links} = flow.uses
  /\ \A k, l \in flow.links : k.agent = l.agent => k = l
  /\ flow.version = flow.saves + 1

Sound ==
  ~overlapped => /\ UniqueAgents /\ UniqueFlows
                 /\ \A f \in FlowIds : HasFlow(f) => FollowsGraph(flows[f])

CatalogueInv == Typed /\ Shaped /\ Fresh /\ Sound

-----------------------------------------------------------------------------
\* The packs, and rows by themselves.

\* A set of naturals that is not empty has a least element.
LEMMA MinIsThere ==
  ASSUME NEW S \in SUBSET Nat, S # {}
  PROVE  Min(S) \in S
  <1>1. PICK x \in S : \A y \in S : ~(<<y, x>> \in OpToRel(<, Nat))
    BY WFMin, NatLessThanWellFounded
  <1>2. \A y \in S : ~(y < x)
    BY <1>1 DEF OpToRel
  <1>3. x \in S /\ \A y \in S : x =< y
    BY <1>2
  <1>. QED BY <1>3 DEF Min

\* A pack holds one or two rows, with names.
GoodPack(p) ==
  /\ p.template \in BOOLEAN
  /\ 1 \in DOMAIN p.names /\ DOMAIN p.names \subseteq 1 .. 2
  /\ \A i \in DOMAIN p.names :
       p.names[i] # "none" /\ (i # Len(p.names) => i + 1 \in DOMAIN p.names)

LEMMA PacksOfTwo ==
  ASSUME NEW kind, NEW one, NEW two, NEW template \in BOOLEAN, NEW guard, one # "none", two # "none"
  PROVE  GoodPack(Pack(kind, <<one, two>>, template, guard))
  BY DEF Pack, GoodPack

LEMMA PacksOfOne ==
  ASSUME NEW kind, NEW one, NEW template \in BOOLEAN, NEW guard, one # "none"
  PROVE  GoodPack(Pack(kind, <<one>>, template, guard))
  BY DEF Pack, GoodPack

LEMMA PackFacts ==
  /\ Len(Packs) = 9 /\ DOMAIN Packs = 1 .. 9
  /\ \A k \in 1 .. 9 : GoodPack(Packs[k])
  /\ \A k \in 1 .. 9 : \A i \in DOMAIN Packs[k].names : Packs[k].names[i] \in Names
  <1>1. Len(Packs) = 9 /\ DOMAIN Packs = 1 .. 9
    BY DEF Packs
  <1>p1. GoodPack(Packs[1])
    <2>1. Packs[1] = Pack("agent", <<"Researcher", "Writer">>, FALSE, "no row")
      BY DEF Packs
    <2>2. "Researcher" # "none" /\ "Writer" # "none"
      BY ZenonT(20)
    <2>. QED BY <2>1, <2>2, PacksOfTwo
  <1>p2. GoodPack(Packs[2])
    <2>1. Packs[2] = Pack("flow", <<"Research & Notify", "Support Triage Loop">>, TRUE, "no row")
      BY DEF Packs
    <2>2. "Research & Notify" # "none" /\ "Support Triage Loop" # "none"
      BY ZenonT(20)
    <2>. QED BY <2>1, <2>2, PacksOfTwo
  <1>p3. GoodPack(Packs[3])
    <2>1. Packs[3] = Pack("flow", <<"Demo: Content Pipeline">>, FALSE, "no first")
      BY DEF Packs
    <2>2. "Demo: Content Pipeline" # "none"
      BY ZenonT(20)
    <2>. QED BY <2>1, <2>2, PacksOfOne
  <1>p4. GoodPack(Packs[4])
    <2>1. Packs[4] = Pack("agent", <<"Brief Intake", "Market Scout">>, FALSE, "no first")
      BY DEF Packs
    <2>2. "Brief Intake" # "none" /\ "Market Scout" # "none"
      BY ZenonT(20)
    <2>. QED BY <2>1, <2>2, PacksOfTwo
  <1>p5. GoodPack(Packs[5])
    <2>1. Packs[5] = Pack("flow", <<"Product Launch Pipeline (E2E)">>, TRUE, "no first")
      BY DEF Packs
    <2>2. "Product Launch Pipeline (E2E)" # "none"
      BY ZenonT(20)
    <2>. QED BY <2>1, <2>2, PacksOfOne
  <1>p6. GoodPack(Packs[6])
    <2>1. Packs[6] = Pack("flow", <<"E2E: Product Launch (run me)">>, FALSE, "no first")
      BY DEF Packs
    <2>2. "E2E: Product Launch (run me)" # "none"
      BY ZenonT(20)
    <2>. QED BY <2>1, <2>2, PacksOfOne
  <1>p7. GoodPack(Packs[7])
    <2>1. Packs[7] = Pack("agent", <<"Dev Planner", "Backend Engineer">>, FALSE, "no first")
      BY DEF Packs
    <2>2. "Dev Planner" # "none" /\ "Backend Engineer" # "none"
      BY ZenonT(20)
    <2>. QED BY <2>1, <2>2, PacksOfTwo
  <1>p8. GoodPack(Packs[8])
    <2>1. Packs[8] = Pack("flow", <<"Dev Pipeline: Build & Deploy (template)">>, TRUE, "no first")
      BY DEF Packs
    <2>2. "Dev Pipeline: Build & Deploy (template)" # "none"
      BY ZenonT(20)
    <2>. QED BY <2>1, <2>2, PacksOfOne
  <1>p9. GoodPack(Packs[9])
    <2>1. Packs[9] = Pack("flow", <<DevRun>>, FALSE, "no first")
      BY DEF Packs
    <2>2. DevRun # "none"
      BY ZenonT(20) DEF DevRun
    <2>. QED BY <2>1, <2>2, PacksOfOne
  <1>2. \A k \in 1 .. 9 : GoodPack(Packs[k])
    BY <1>p1, <1>p2, <1>p3, <1>p4, <1>p5, <1>p6, <1>p7, <1>p8, <1>p9
  <1>3. ASSUME NEW k \in 1 .. 9, NEW i \in DOMAIN Packs[k].names
        PROVE  Packs[k].names[i] \in Names
    <2>1. Packs[k].names[i] \in PackNames
      BY <1>1 DEF PackNames, Range
    <2>. QED BY <2>1, Zenon DEF Names
  <1>. QED BY <1>1, <1>2, <1>3

\* The names that the code writes down, and the one of a row there is not.
LEMMA NamesThere ==
  /\ "none" \in Names /\ LegacyRun \in Names /\ DevRun \in Names /\ "Mine" \in Names /\ UserNames \subseteq Names
  /\ LegacyRun # "none" /\ DevRun # "none" /\ "Mine" # "none" /\ "none" \notin UserNames
  <1>1. /\ "none" \in Names /\ LegacyRun \in Names /\ DevRun \in Names
        /\ "Mine" \in Names /\ UserNames \subseteq Names
    BY Zenon DEF Names
  <1>2. "none" # LegacyRun /\ "none" # DevRun
    BY Zenon DEF LegacyRun, DevRun
  <1>3. "none" # "Mine" /\ "none" # "Market Scout"
    BY Zenon
  <1>. QED BY <1>1, <1>2, <1>3, Zenon DEF UserNames

\* Those of a copy.
LEMMA CopyNamesThere == \A name \in {"Copy", "Copy (2)"} : name \in Names /\ name # "none"
  <1>1. "none" # "Copy" /\ "none" # "Copy (2)"
    BY Zenon
  <1>. QED BY <1>1, Zenon DEF Names

LEMMA IdFacts ==
  /\ MaxAgents \in Nat /\ MaxFlows \in Nat /\ AgentIds \subseteq Nat \ {0} /\ FlowIds \subseteq Nat \ {0}
  /\ KnownAgents \subseteq AgentIds /\ KnownFlows \subseteq FlowIds
  /\ Replicas \intersect Requests = {}
  <1>1. MaxAgents \in Nat /\ MaxFlows \in Nat /\ Replicas \intersect Requests = {}
    BY CatalogueAssumption
  <1>2. AgentIds \subseteq Nat \ {0} /\ FlowIds \subseteq Nat \ {0}
    BY <1>1 DEF AgentIds, FlowIds
  <1>3. KnownAgents \subseteq AgentIds /\ KnownFlows \subseteq FlowIds
    BY CatalogueAssumption DEF KnownAgents, KnownFlows, AgentIds, FlowIds
  <1>. QED BY <1>1, <1>2, <1>3

\* Where a row is added, there was none.
LEMMA FreeRows ==
  /\ FreeAgents # {} => Min(FreeAgents) \in AgentIds /\ ~HasAgent(Min(FreeAgents))
  /\ FreeFlows # {} => Min(FreeFlows) \in FlowIds /\ ~HasFlow(Min(FreeFlows))
  <1>1. FreeAgents \in SUBSET Nat /\ FreeFlows \in SUBSET Nat
    BY IdFacts DEF FreeAgents, FreeFlows
  <1>2. FreeAgents # {} => Min(FreeAgents) \in FreeAgents
    BY <1>1, MinIsThere
  <1>3. FreeFlows # {} => Min(FreeFlows) \in FreeFlows
    BY <1>1, MinIsThere
  <1>. QED BY <1>2, <1>3 DEF FreeAgents, FreeFlows

\* A drawing saved for a version: one link for each agent.
LEMMA SavedLinks ==
  ASSUME NEW read \in SUBSET Link, NEW now \in SUBSET Link, NEW uses \in SUBSET AgentIds, NEW version \in Int
  PROVE  LET links == LinksAfter(now, read, uses, version) IN
         /\ links \in SUBSET Link
         /\ now \subseteq read =>
              /\ {l.agent : l \in links} = uses
              /\ \A k, l \in links : k.agent = l.agent => k = l
  <1>. DEFINE links == LinksAfter(now, read, uses, version)
  <1>. DEFINE added == {[agent |-> a, version |-> version] : a \in uses}
  <1>1. added \in SUBSET Link
    BY DEF Link
  <1>2. links = (now \ read) \union added
    BY DEF LinksAfter
  <1>3. \A k, l \in added : k.agent = l.agent => k = l
    OBVIOUS
  <1>4. {l.agent : l \in added} = uses
    <2>1. \A a \in uses : \E l \in added : l.agent = a
      <3>1. ASSUME NEW a \in uses
            PROVE  [agent |-> a, version |-> version] \in added /\ [agent |-> a, version |-> version].agent = a
        OBVIOUS
      <3>. QED BY <3>1
    <2>2. \A l \in added : l.agent \in uses
      OBVIOUS
    <2>. HIDE DEF added
    <2>. QED BY <2>1, <2>2
  <1>5. now \subseteq read => links = added
    BY <1>2
  <1>. HIDE DEF added, links
  <1>6. links \in SUBSET Link
    BY <1>1, <1>2
  <1>7. ASSUME now \subseteq read
        PROVE  {l.agent : l \in links} = uses /\ \A k, l \in links : k.agent = l.agent => k = l
    BY <1>3, <1>4, <1>5, <1>7
  <1>. QED BY <1>6, <1>7 DEF links

LEMMA NewFlows ==
  ASSUME NEW name \in Names, NEW template \in BOOLEAN, NEW uses \in SUBSET AgentIds
  PROVE  LET flow == NewFlow(name, template, uses) IN
         flow \in Flow /\ flow.name = name /\ flow.template = template /\ FollowsGraph(flow)
  <1>. DEFINE links == LinksAfter({}, {}, uses, 1)
  <1>1. /\ links \in SUBSET Link /\ {l.agent : l \in links} = uses
        /\ \A k, l \in links : k.agent = l.agent => k = l
    BY SavedLinks
  <1>2. NewFlow(name, template, uses)
          = [name |-> name, template |-> template, version |-> 1, saves |-> 0, uses |-> uses, links |-> links]
    BY DEF NewFlow
  <1>. HIDE DEF links
  <1>. QED BY <1>1, <1>2 DEF Flow, FollowsGraph

LEMMA NoFlowFacts == NoFlow \in Flow /\ NoFlow.name = "none"
  BY NamesThere DEF NoFlow, Flow

\* The agents' names stay unique when one is written that no other agent has.
LEMMA AgentWritten ==
  ASSUME Typed, NEW a \in AgentIds, NEW name \in Names, agents' = [agents EXCEPT ![a] = name]
  PROVE  /\ agents' \in [AgentIds -> Names]
         /\ UniqueAgents /\ AgentNamed(name) \subseteq {a} => UniqueAgents'
         /\ name = "none" /\ UniqueAgents => UniqueAgents'
  <1>1. agents' \in [AgentIds -> Names]
    BY DEF Typed
  <1>2. \A b \in AgentIds : agents'[b] = IF b = a THEN name ELSE agents[b]
    BY DEF Typed
  <1>. QED BY <1>1, <1>2 DEF UniqueAgents, AgentNamed, HasAgent

\* A workflow is written.
LEMMA FlowWritten ==
  ASSUME Typed, NEW f \in FlowIds, NEW flow \in Flow, flow.name # "none", flows' = [flows EXCEPT ![f] = flow],
         \A g \in FlowIds : HasFlow(g) => flows[g].name # "none"
  PROVE  /\ flows' \in [FlowIds -> Flow]
         /\ \A g \in FlowIds : HasFlow(g)' => flows'[g].name # "none"
         /\ UniqueFlows /\ FlowNamed(flow.name, flow.template) \subseteq {f} => UniqueFlows'
         /\ FollowsGraph(flow) /\ (\A g \in FlowIds : HasFlow(g) => FollowsGraph(flows[g]))
              => \A g \in FlowIds : HasFlow(g)' => FollowsGraph(flows[g])'
  <1>1. flows' \in [FlowIds -> Flow]
    BY DEF Typed
  <1>2. \A g \in FlowIds : flows'[g] = IF g = f THEN flow ELSE flows[g]
    BY DEF Typed
  <1>3. \A g \in FlowIds : HasFlow(g)' => flows'[g].name # "none"
    BY <1>2 DEF HasFlow
  <1>4. ASSUME UniqueFlows, FlowNamed(flow.name, flow.template) \subseteq {f}
        PROVE  UniqueFlows'
    BY <1>2, <1>4 DEF UniqueFlows, FlowNamed, HasFlow
  <1>5. ASSUME FollowsGraph(flow), \A g \in FlowIds : HasFlow(g) => FollowsGraph(flows[g]),
               NEW g \in FlowIds, HasFlow(g)'
        PROVE  FollowsGraph(flows[g])'
    <2>1. FollowsGraph(flows'[g])
      BY <1>2, <1>5 DEF HasFlow
    <2>. QED BY <2>1 DEF FollowsGraph
  <1>. QED BY <1>1, <1>3, <1>4, <1>5

-----------------------------------------------------------------------------
\* Who checks and who writes.

LEMMA StageMoves ==
  ASSUME Typed, Shaped, NEW r \in Replicas, NEW stage \in Stage, StageShape(stage),
         replica' = [replica EXCEPT ![r] = stage]
  PROVE  /\ replica' \in [Replicas -> Stage] /\ \A s \in Replicas : StageShape(replica'[s])
         /\ replica'[r] = stage /\ \A s \in Replicas \ {r} : replica'[s] = replica[s]
  <1>1. \A s \in Replicas : replica'[s] = IF s = r THEN stage ELSE replica[s]
    BY DEF Typed
  <1>2. replica' \in [Replicas -> Stage]
    BY DEF Typed
  <1>. QED BY <1>1, <1>2 DEF Shaped

\* The places of a start that are not at an item.
LEMMA StagesApart ==
  ASSUME NEW pack \in 0 .. Len(Packs) + 1, NEW item \in 0 .. 2, NEW at \in {"down", "refresh", "up", "failed"}
  PROVE  LET stage == [pack |-> pack, item |-> item, at |-> at] IN
         stage \in Stage /\ StageShape(stage) /\ stage.at # "write"
  BY DEF Stage, Stages, StageShape

LEMMA StagesOfPacks ==
  ASSUME NEW pack \in 1 .. 9, NEW at \in {"guard", "check", "write"}, NEW item \in DOMAIN Packs[pack].names
  PROVE  LET stage == [pack |-> pack, item |-> item, at |-> at] IN
         stage \in Stage /\ StageShape(stage)
  <1>1. item \in 0 .. 2
    BY PackFacts DEF GoodPack
  <1>. QED BY <1>1, PackFacts DEF Stage, Stages, StageShape

\* The next pack, or the end of them.
LEMMA PacksGoOn ==
  ASSUME Typed, Shaped, NEW r \in Replicas, NEW k \in 1 .. 9, NextPack(r, k)
  PROVE  /\ replica' \in [Replicas -> Stage] /\ \A s \in Replicas : StageShape(replica'[s])
         /\ replica'[r].at # "write" /\ \A s \in Replicas \ {r} : replica'[s] = replica[s]
  <1>. DEFINE stage == [pack |-> k + 1, item |-> 1, at |-> IF k = Len(Packs) THEN "refresh" ELSE "guard"]
  <1>1. stage \in Stage /\ StageShape(stage) /\ stage.at # "write"
    <2>1. CASE k = 9
      BY <2>1, PackFacts, StagesApart
    <2>2. CASE k # 9
      <3>1. k + 1 \in 1 .. 9 /\ 1 \in DOMAIN Packs[k + 1].names
        BY <2>2, PackFacts DEF GoodPack
      <3>. QED BY <2>2, <3>1, PackFacts, StagesOfPacks
    <2>. QED BY <2>1, <2>2
  <1>2. replica' = [replica EXCEPT ![r] = stage]
    BY DEF NextPack, GoTo
  <1>. HIDE DEF stage
  <1>3. /\ replica' \in [Replicas -> Stage] /\ \A s \in Replicas : StageShape(replica'[s])
        /\ replica'[r] = stage /\ \A s \in Replicas \ {r} : replica'[s] = replica[s]
    BY <1>1, <1>2, StageMoves
  <1>. QED BY <1>1, <1>3

LEMMA AsksMove ==
  ASSUME Typed, Shaped, NEW q \in Requests, NEW ask \in Ask, AskShape(ask),
         request' = [request EXCEPT ![q] = ask]
  PROVE  /\ request' \in [Requests -> Ask] /\ \A p \in Requests : AskShape(request'[p])
         /\ request'[q] = ask /\ \A p \in Requests \ {q} : request'[p] = request[p]
  <1>1. \A p \in Requests : request'[p] = IF p = q THEN ask ELSE request[p]
    BY DEF Typed
  <1>2. request' \in [Requests -> Ask]
    BY DEF Typed
  <1>. QED BY <1>1, <1>2 DEF Shaped

LEMMA NoRequestFacts == NoRequest \in Ask /\ AskShape(NoRequest) /\ NoRequest.op = "none"
  BY NamesThere DEF NoRequest, Ask, Ops, AskShape

\* A write outdates what the others have read and checked.
LEMMA WritesOutdate ==
  ASSUME Typed, NEW me \in Replicas \union Requests, Wrote(me),
         \A r \in Replicas \ {me} : replica'[r] = replica[r],
         \A q \in Requests \ {me} : request'[q] = request[q],
         me \in Replicas => replica'[me].at # "write",
         me \in Requests => request'[me].op = "none"
  PROVE  Fresh'
  <1>1. \A r \in Replicas : replica'[r].at = "write" => r \in stale'
    BY DEF Wrote, Pending
  <1>2. \A q \in Requests : request'[q].op # "none" => q \in stale'
    BY DEF Wrote, Pending
  <1>. QED BY <1>1, <1>2 DEF Fresh

\* So does a deletion.
LEMMA DeletesOutdate ==
  ASSUME Delete
  PROVE  Fresh'
  <1>1. \A r \in Replicas : replica'[r].at = "write" => r \in stale'
    BY DEF Delete, Pending
  <1>2. \A q \in Requests : request'[q].op # "none" => q \in stale'
    BY DEF Delete, Pending
  <1>. QED BY <1>1, <1>2 DEF Fresh

\* Who wrote, if no write was outdated.
LEMMA FreshWrites ==
  ASSUME Typed, NEW me, Wrote(me)
  PROVE  overlapped' \in BOOLEAN /\ (~overlapped' => ~overlapped /\ me \notin stale /\ ~Unchecked(me))
  <1>1. overlapped' = (overlapped \/ me \in stale \/ Unchecked(me))
    BY DEF Wrote
  <1>2. overlapped' \in BOOLEAN
    BY <1>1, Zenon
  <1>3. ASSUME ~overlapped'
        PROVE  ~overlapped /\ me \notin stale /\ ~Unchecked(me)
    BY <1>1, <1>3, Zenon
  <1>. QED BY <1>2, <1>3

\* Facts about rows that nobody changes.
LEMMA RowsStay ==
  ASSUME UNCHANGED rows
  PROVE  /\ \A f \in FlowIds : HasFlow(f)' <=> HasFlow(f)
         /\ UniqueAgents' <=> UniqueAgents
         /\ UniqueFlows' <=> UniqueFlows
         /\ (\A f \in FlowIds : HasFlow(f) => FollowsGraph(flows[f]))'
              <=> \A f \in FlowIds : HasFlow(f) => FollowsGraph(flows[f])
         /\ \A kind, name, template, self :
              NameFree(kind, name, template, self)' <=> NameFree(kind, name, template, self)
  <1>1. agents' = agents /\ flows' = flows
    BY DEF rows
  <1>2. \A f \in FlowIds : HasFlow(f)' <=> HasFlow(f)
    BY <1>1 DEF HasFlow
  <1>3. UniqueAgents' <=> UniqueAgents
    BY <1>1 DEF UniqueAgents, HasAgent
  <1>4. UniqueFlows' <=> UniqueFlows
    BY <1>1 DEF UniqueFlows, HasFlow
  <1>5. (\A f \in FlowIds : HasFlow(f) => FollowsGraph(flows[f]))'
              <=> \A f \in FlowIds : HasFlow(f) => FollowsGraph(flows[f])
    BY <1>1 DEF HasFlow, FollowsGraph
  <1>6. \A kind, name, template, self :
          NameFree(kind, name, template, self)' <=> NameFree(kind, name, template, self)
    BY <1>1 DEF NameFree, Named, AgentNamed, FlowNamed
  <1>. QED BY <1>2, <1>3, <1>4, <1>5, <1>6

LEMMA SoundStays ==
  ASSUME Sound, UNCHANGED rows, UNCHANGED overlapped
  PROVE  Sound'
  <1>1. ASSUME ~overlapped'
        PROVE  UniqueAgents' /\ UniqueFlows' /\ (\A f \in FlowIds : HasFlow(f) => FollowsGraph(flows[f]))'
    <2>1. ~overlapped
      BY <1>1
    <2>. QED BY <2>1, RowsStay DEF Sound
  <1>. QED BY <1>1, Zenon DEF Sound

-----------------------------------------------------------------------------
\* The invariant survives every step: replicas.

\* A step that writes no row and reads nothing anew.
LEMMA Harmless ==
  ASSUME CatalogueInv, UNCHANGED <<rows, races>>,
         replica' \in [Replicas -> Stage], request' \in [Requests -> Ask],
         \A r \in Replicas : StageShape(replica'[r]) /\ (replica'[r] = replica[r] \/ replica'[r].at # "write"),
         \A q \in Requests : AskShape(request'[q]) /\ (request'[q] = request[q] \/ request'[q].op = "none")
  PROVE  CatalogueInv'
  <1>1. UNCHANGED rows /\ agents' = agents /\ flows' = flows /\ stale' = stale /\ UNCHANGED overlapped
    BY DEF rows, races
  <1>2. Typed'
    BY <1>1 DEF CatalogueInv, Typed
  <1>3. Shaped'
    BY <1>1, RowsStay DEF CatalogueInv, Shaped
  <1>4. ASSUME NEW r \in Replicas \ stale', replica'[r].at = "write"
        PROVE  FreshReplica(r)'
    BY <1>1, <1>4, RowsStay DEF CatalogueInv, Fresh, FreshReplica
  <1>5. ASSUME NEW q \in Requests \ stale', request'[q].op # "none"
        PROVE  FreshAsk(request[q])'
    BY <1>1, <1>5, RowsStay DEF CatalogueInv, Fresh, FreshAsk
  <1>6. Sound'
    BY <1>1, SoundStays DEF CatalogueInv
  <1>. QED BY <1>2, <1>3, <1>4, <1>5, <1>6 DEF CatalogueInv, Fresh

LEMMA StartKeeps ==
  ASSUME CatalogueInv, NEW r \in Replicas, Start(r) \/ CrashWhileStarting(r)
  PROVE  CatalogueInv'
  <1>1. PICK stage \in Stage : StageShape(stage) /\ stage.at # "write" /\ replica' = [replica EXCEPT ![r] = stage]
    <2>1. CASE Start(r)
      <3>1. PICK stage : stage = [pack |-> 1, item |-> 1, at |-> "guard"]
        OBVIOUS
      <3>2. 1 \in DOMAIN Packs[1].names
        BY PackFacts DEF GoodPack
      <3>3. stage \in Stage /\ StageShape(stage) /\ stage.at # "write"
        BY <3>1, <3>2, StagesOfPacks
      <3>4. replica' = [replica EXCEPT ![r] = stage]
        BY <2>1, <3>1 DEF Start, GoTo
      <3>. QED BY <3>3, <3>4
    <2>2. CASE CrashWhileStarting(r)
      <3>1. PICK stage : stage = [pack |-> 0, item |-> 0, at |-> "down"]
        OBVIOUS
      <3>2. stage \in Stage /\ StageShape(stage) /\ stage.at # "write"
        BY <3>1, PackFacts, StagesApart
      <3>3. replica' = [replica EXCEPT ![r] = stage]
        BY <2>2, <3>1 DEF CrashWhileStarting, GoTo
      <3>. QED BY <3>2, <3>3
    <2>. QED BY <2>1, <2>2
  <1>2. /\ replica' \in [Replicas -> Stage] /\ \A s \in Replicas : StageShape(replica'[s])
        /\ replica'[r] = stage /\ \A s \in Replicas \ {r} : replica'[s] = replica[s]
    BY <1>1, StageMoves DEF CatalogueInv
  <1>3. UNCHANGED <<rows, races>> /\ request' = request
    BY DEF Start, CrashWhileStarting
  <1>. QED BY <1>1, <1>2, <1>3, Harmless DEF CatalogueInv, Typed, Shaped

LEMMA CheckPackKeeps ==
  ASSUME CatalogueInv, NEW r \in Replicas, CheckPack(r)
  PROVE  CatalogueInv'
  <1>1. PICK k \in 1 .. 9 : k = replica[r].pack
    BY PackFacts DEF CheckPack, CatalogueInv, Shaped, StageShape
  <1>2. /\ replica' \in [Replicas -> Stage] /\ \A s \in Replicas : StageShape(replica'[s])
        /\ replica'[r].at # "write" /\ \A s \in Replicas \ {r} : replica'[s] = replica[s]
    <2>1. CASE GoTo(r, k, 1, "check")
      <3>1. PICK stage : stage = [pack |-> k, item |-> 1, at |-> "check"]
        OBVIOUS
      <3>2. stage \in Stage /\ StageShape(stage) /\ stage.at # "write"
        <4>1. 1 \in DOMAIN Packs[k].names
          BY PackFacts DEF GoodPack
        <4>. QED BY <3>1, <4>1, StagesOfPacks
      <3>3. replica' = [replica EXCEPT ![r] = stage]
        BY <2>1, <3>1 DEF GoTo
      <3>4. /\ replica' \in [Replicas -> Stage] /\ \A s \in Replicas : StageShape(replica'[s])
            /\ replica'[r] = stage /\ \A s \in Replicas \ {r} : replica'[s] = replica[s]
        BY <3>2, <3>3, StageMoves DEF CatalogueInv
      <3>. QED BY <3>2, <3>4
    <2>2. CASE NextPack(r, k)
      BY <2>2, PacksGoOn DEF CatalogueInv
    <2>. QED BY <1>1, <2>1, <2>2 DEF CheckPack
  <1>3. UNCHANGED <<rows, races>> /\ request' = request
    BY DEF CheckPack
  <1>. QED BY <1>2, <1>3, Harmless DEF CatalogueInv, Typed, Shaped

\* A check reads anew: what it found is fresh.
LEMMA CheckNameKeeps ==
  ASSUME CatalogueInv, NEW r \in Replicas, CheckName(r)
  PROVE  CatalogueInv'
  <1>. DEFINE s == replica[r]
  <1>. DEFINE p == Packs[s.pack]
  <1>. DEFINE at == IF NameFree(p.kind, p.names[s.item], p.template, 0) THEN "write" ELSE "failed"
  <1>. DEFINE stage == [pack |-> s.pack, item |-> s.item, at |-> at]
  <1>1. s.pack \in 1 .. 9 /\ s.item \in DOMAIN Packs[s.pack].names
    BY PackFacts DEF CheckName, CatalogueInv, Shaped, StageShape
  <1>2. stage \in Stage /\ StageShape(stage)
    <2>1. CASE at = "write"
      BY <1>1, <2>1, StagesOfPacks
    <2>2. CASE at = "failed"
      <3>1. s.pack \in 0 .. Len(Packs) + 1 /\ s.item \in 0 .. 2
        BY DEF CatalogueInv, Typed, Stage
      <3>2. PICK k \in 0 .. Len(Packs) + 1, i \in 0 .. 2 : k = s.pack /\ i = s.item
        BY <3>1
      <3>3. stage = [pack |-> k, item |-> i, at |-> "failed"]
        BY <2>2, <3>2
      <3>. QED BY <3>3, StagesApart
    <2>. QED BY <2>1, <2>2
  <1>3. replica' = [replica EXCEPT ![r] = stage]
    BY DEF CheckName, GoTo
  <1>4. stage.pack = s.pack /\ stage.item = s.item
        /\ (stage.at = "write" => NameFree(p.kind, p.names[s.item], p.template, 0))
    OBVIOUS
  <1>. HIDE DEF stage
  <1>5. /\ replica' \in [Replicas -> Stage] /\ \A t \in Replicas : StageShape(replica'[t])
        /\ replica'[r] = stage /\ \A t \in Replicas \ {r} : replica'[t] = replica[t]
    BY <1>2, <1>3, StageMoves DEF CatalogueInv
  <1>6. /\ UNCHANGED rows /\ agents' = agents /\ flows' = flows /\ request' = request
        /\ stale' = stale \ {r} /\ UNCHANGED overlapped
    BY DEF CheckName, Read, rows
  <1>7. Typed' /\ Shaped'
    BY <1>5, <1>6, RowsStay DEF CatalogueInv, Typed, Shaped
  <1>8. ASSUME NEW t \in Replicas \ stale', replica'[t].at = "write"
        PROVE  FreshReplica(t)'
    <2>1. CASE t = r
      BY <1>4, <1>5, <1>6, <1>8, <2>1, RowsStay DEF FreshReplica
    <2>2. CASE t # r
      BY <1>5, <1>6, <1>8, <2>2, RowsStay DEF CatalogueInv, Fresh, FreshReplica
    <2>. QED BY <2>1, <2>2
  <1>9. ASSUME NEW q \in Requests \ stale', request'[q].op # "none"
        PROVE  FreshAsk(request[q])'
    <2>1. q \notin stale
      BY <1>6, <1>9, IdFacts
    <2>. QED BY <1>6, <1>9, <2>1, RowsStay DEF CatalogueInv, Fresh, FreshAsk
  <1>10. Sound'
    BY <1>6, SoundStays DEF CatalogueInv
  <1>. QED BY <1>7, <1>8, <1>9, <1>10 DEF CatalogueInv, Fresh

LEMMA AgentsStay ==
  ASSUME UNCHANGED agents
  PROVE  UniqueAgents' <=> UniqueAgents
  BY DEF UniqueAgents, HasAgent

LEMMA FlowsStay ==
  ASSUME UNCHANGED flows
  PROVE  /\ (\A f \in FlowIds : HasFlow(f) => flows[f].name # "none")'
              <=> \A f \in FlowIds : HasFlow(f) => flows[f].name # "none"
         /\ UniqueFlows' <=> UniqueFlows
         /\ (\A f \in FlowIds : HasFlow(f) => FollowsGraph(flows[f]))'
              <=> \A f \in FlowIds : HasFlow(f) => FollowsGraph(flows[f])
  BY DEF HasFlow, UniqueFlows, FollowsGraph

\* An agent's row is written under a name that was checked, or a workflow's is.
LEMMA AgentWrites ==
  ASSUME CatalogueInv, NEW me, Wrote(me), UNCHANGED flows,
         NEW a \in AgentIds, NEW name \in Names, agents' = [agents EXCEPT ![a] = name],
         ~overlapped' => AgentNamed(name) \subseteq {a}
  PROVE  /\ agents' \in [AgentIds -> Names] /\ flows' \in [FlowIds -> Flow] /\ overlapped' \in BOOLEAN
         /\ (\A f \in FlowIds : HasFlow(f) => flows[f].name # "none")'
         /\ Sound'
  <1>1. agents' \in [AgentIds -> Names] /\ (UniqueAgents /\ AgentNamed(name) \subseteq {a} => UniqueAgents')
    BY AgentWritten DEF CatalogueInv
  <1>2. flows' \in [FlowIds -> Flow]
    BY DEF CatalogueInv, Typed
  <1>3. (\A f \in FlowIds : HasFlow(f) => flows[f].name # "none")'
    BY FlowsStay DEF CatalogueInv, Shaped
  <1>4. overlapped' \in BOOLEAN /\ (~overlapped' => ~overlapped)
    BY FreshWrites DEF CatalogueInv
  <1>5. ASSUME ~overlapped'
        PROVE  UniqueAgents' /\ UniqueFlows' /\ (\A f \in FlowIds : HasFlow(f) => FollowsGraph(flows[f]))'
    BY <1>1, <1>4, <1>5, FlowsStay DEF CatalogueInv, Sound
  <1>6. Sound'
    BY <1>5, Zenon DEF Sound
  <1>. QED BY <1>1, <1>2, <1>3, <1>4, <1>6

LEMMA FlowWrites ==
  ASSUME CatalogueInv, NEW me, Wrote(me), UNCHANGED agents,
         NEW f \in FlowIds, NEW flow \in Flow, flow.name # "none", flows' = [flows EXCEPT ![f] = flow],
         ~overlapped' => FlowNamed(flow.name, flow.template) \subseteq {f} /\ FollowsGraph(flow)
  PROVE  /\ agents' \in [AgentIds -> Names] /\ flows' \in [FlowIds -> Flow] /\ overlapped' \in BOOLEAN
         /\ (\A g \in FlowIds : HasFlow(g) => flows[g].name # "none")'
         /\ Sound'
  <1>1. \A g \in FlowIds : HasFlow(g) => flows[g].name # "none"
    BY DEF CatalogueInv, Shaped
  <1>2. /\ flows' \in [FlowIds -> Flow]
        /\ \A g \in FlowIds : HasFlow(g)' => flows'[g].name # "none"
        /\ UniqueFlows /\ FlowNamed(flow.name, flow.template) \subseteq {f} => UniqueFlows'
        /\ FollowsGraph(flow) /\ (\A g \in FlowIds : HasFlow(g) => FollowsGraph(flows[g]))
             => \A g \in FlowIds : HasFlow(g)' => FollowsGraph(flows[g])'
    BY <1>1, FlowWritten DEF CatalogueInv
  <1>3. agents' \in [AgentIds -> Names]
    BY DEF CatalogueInv, Typed
  <1>4. overlapped' \in BOOLEAN /\ (~overlapped' => ~overlapped)
    BY FreshWrites DEF CatalogueInv
  <1>5. ASSUME ~overlapped'
        PROVE  UniqueAgents' /\ UniqueFlows' /\ (\A g \in FlowIds : HasFlow(g) => FollowsGraph(flows[g]))'
    BY <1>2, <1>4, <1>5, AgentsStay DEF CatalogueInv, Sound
  <1>6. Sound'
    BY <1>5, Zenon DEF Sound
  <1>. QED BY <1>2, <1>3, <1>4, <1>6

LEMMA SeedKeeps ==
  ASSUME CatalogueInv, NEW r \in Replicas, Seed(r)
  PROVE  CatalogueInv'
  <1>1. PICK k \in 1 .. 9 : k = replica[r].pack
    BY PackFacts DEF Seed, CatalogueInv, Shaped, StageShape
  <1>2. PICK i \in DOMAIN Packs[k].names : i = replica[r].item
    BY <1>1 DEF Seed, CatalogueInv, Shaped, StageShape
  <1>3. PICK p : p = Packs[k]
    OBVIOUS
  <1>4. PICK name \in Names : name = p.names[i] /\ name # "none"
    BY <1>2, <1>3, PackFacts DEF GoodPack
  <1>5. /\ replica' \in [Replicas -> Stage] /\ \A s \in Replicas : StageShape(replica'[s])
        /\ replica'[r].at # "write" /\ \A s \in Replicas \ {r} : replica'[s] = replica[s]
    <2>1. CASE i = Len(p.names)
      <3>1. NextPack(r, k)
        BY <1>1, <1>2, <1>3, <2>1 DEF Seed
      <3>. QED BY <3>1, PacksGoOn DEF CatalogueInv
    <2>2. CASE i # Len(p.names)
      <3>1. PICK stage : stage = [pack |-> k, item |-> i + 1, at |-> "check"]
        OBVIOUS
      <3>2. i + 1 \in DOMAIN Packs[k].names
        BY <1>2, <1>3, <2>2, PackFacts DEF GoodPack
      <3>3. stage \in Stage /\ StageShape(stage) /\ stage.at # "write"
        BY <3>1, <3>2, StagesOfPacks
      <3>4. replica' = [replica EXCEPT ![r] = stage]
        BY <1>1, <1>2, <1>3, <2>2, <3>1 DEF Seed, GoTo
      <3>5. /\ replica' \in [Replicas -> Stage] /\ \A s \in Replicas : StageShape(replica'[s])
            /\ replica'[r] = stage /\ \A s \in Replicas \ {r} : replica'[s] = replica[s]
        BY <3>3, <3>4, StageMoves DEF CatalogueInv
      <3>. QED BY <3>3, <3>5
    <2>. QED BY <2>1, <2>2
  <1>6. Wrote(r) /\ request' = request /\ replica[r].at = "write"
    BY DEF Seed
  <1>7. Fresh'
    BY <1>5, <1>6, IdFacts, WritesOutdate DEF CatalogueInv
  <1>8. ~overlapped' => Named(p.kind, name, p.template) = {}
    <2>1. ASSUME ~overlapped'
          PROVE  FreshReplica(r)
      BY <1>6, <2>1, FreshWrites DEF CatalogueInv, Fresh
    <2>2. FreshReplica(r) => Named(p.kind, name, p.template) \subseteq {0}
      BY <1>1, <1>2, <1>3, <1>4 DEF FreshReplica, NameFree
    <2>3. 0 \notin Named(p.kind, name, p.template)
      BY IdFacts DEF Named, AgentNamed, FlowNamed
    <2>. QED BY <2>1, <2>2, <2>3
  <1>9. /\ agents' \in [AgentIds -> Names] /\ flows' \in [FlowIds -> Flow] /\ overlapped' \in BOOLEAN
        /\ (\A f \in FlowIds : HasFlow(f) => flows[f].name # "none")'
        /\ Sound'
    <2>1. CASE p.kind = "agent"
      <3>1. FreeAgents # {} /\ agents' = [agents EXCEPT ![Min(FreeAgents)] = name] /\ UNCHANGED flows
        BY <1>1, <1>2, <1>3, <1>4, <2>1 DEF Seed, AddAgent
      <3>2. PICK a \in AgentIds : a = Min(FreeAgents)
        BY <3>1, FreeRows
      <3>3. ~overlapped' => AgentNamed(name) \subseteq {a}
        BY <1>8, <2>1 DEF Named
      <3>. QED BY <1>6, <3>1, <3>2, <3>3, AgentWrites
    <2>2. CASE p.kind # "agent"
      <3>1. PICK uses \in SUBSET AgentIds :
              FreeFlows # {} /\ flows' = [flows EXCEPT ![Min(FreeFlows)] = NewFlow(name, p.template, uses)]
              /\ UNCHANGED agents
        <4>1. PICK team : team = {a \in AgentIds : \E j \in DOMAIN TeamOf(k) : agents[a] = TeamOf(k)[j]}
          OBVIOUS
        <4>2. replica[r].item = i /\ replica[r].pack = k /\ Packs[k] = p /\ p.names[i] = name
          BY <1>1, <1>2, <1>3, <1>4
        <4>3. FreeFlows # {} /\ AddFlow(NewFlow(name, p.template, team)) /\ UNCHANGED agents
          BY <2>2, <4>1, <4>2, Zenon DEF Seed
        <4>4. team \in SUBSET AgentIds
          BY <4>1
        <4>. QED BY <4>3, <4>4 DEF AddFlow
      <3>2. PICK flow \in Flow : /\ flow = NewFlow(name, p.template, uses) /\ flow.name = name
                                 /\ flow.template = p.template /\ FollowsGraph(flow)
        BY <1>3, NewFlows, PackFacts DEF GoodPack
      <3>3. PICK f \in FlowIds : f = Min(FreeFlows)
        BY <3>1, FreeRows
      <3>4. ~overlapped' => FlowNamed(flow.name, flow.template) \subseteq {f} /\ FollowsGraph(flow)
        BY <1>8, <2>2, <3>2 DEF Named
      <3>. QED BY <1>4, <1>6, <3>1, <3>2, <3>3, <3>4, FlowWrites
    <2>. QED BY <2>1, <2>2
  <1>10. Typed' /\ Shaped'
    BY <1>5, <1>6, <1>9 DEF CatalogueInv, Typed, Shaped
  <1>. QED BY <1>7, <1>9, <1>10 DEF CatalogueInv

\* The start ends with the renaming of a workflow that an older version left.
LEMMA RefreshKeeps ==
  ASSUME CatalogueInv, NEW r \in Replicas, Refresh(r)
  PROVE  CatalogueInv'
  <1>1. PICK stage \in Stage : StageShape(stage) /\ stage.at # "write" /\ replica' = [replica EXCEPT ![r] = stage]
    <2>1. PICK stage : stage = [pack |-> 0, item |-> 0, at |-> "up"]
      OBVIOUS
    <2>2. stage \in Stage /\ StageShape(stage) /\ stage.at # "write"
      BY <2>1, PackFacts, StagesApart
    <2>3. replica' = [replica EXCEPT ![r] = stage]
      BY <2>1 DEF Refresh, GoTo
    <2>. QED BY <2>2, <2>3
  <1>2. /\ replica' \in [Replicas -> Stage] /\ \A s \in Replicas : StageShape(replica'[s])
        /\ replica'[r] = stage /\ \A s \in Replicas \ {r} : replica'[s] = replica[s]
    BY <1>1, StageMoves DEF CatalogueInv
  <1>3. request' = request /\ UNCHANGED agents
    BY DEF Refresh
  <1>4. CASE UNCHANGED flows /\ UNCHANGED races
    <2>1. UNCHANGED <<rows, races>>
      BY <1>3, <1>4 DEF rows
    <2>. QED BY <1>1, <1>2, <1>3, <2>1, Harmless DEF CatalogueInv, Typed, Shaped
  <1>5. CASE /\ FlowNamed(LegacyRun, FALSE) # {} /\ FlowNamed(DevRun, FALSE) = {}
             /\ flows' = [flows EXCEPT ![Min(FlowNamed(LegacyRun, FALSE))].name = DevRun] /\ Wrote(r)
    <2>1. PICK f : f = Min(FlowNamed(LegacyRun, FALSE))
      OBVIOUS
    <2>2. f \in FlowNamed(LegacyRun, FALSE)
      <3>1. FlowNamed(LegacyRun, FALSE) \in SUBSET Nat
        BY IdFacts DEF FlowNamed
      <3>. QED BY <1>5, <2>1, <3>1, MinIsThere
    <2>3. f \in FlowIds /\ flows[f].name = LegacyRun /\ flows[f].template = FALSE /\ flows[f] \in Flow
      BY <2>2 DEF FlowNamed, CatalogueInv, Typed
    <2>4. HasFlow(f)
      BY <2>3, NoFlowFacts, NamesThere DEF HasFlow
    <2>5. PICK flow : flow = [flows[f] EXCEPT !.name = DevRun]
      OBVIOUS
    <2>6. /\ flow \in Flow /\ flow.name = DevRun /\ flow.template = FALSE /\ flow.links = flows[f].links
          /\ flow.uses = flows[f].uses /\ flow.version = flows[f].version /\ flow.saves = flows[f].saves
      BY <2>3, <2>5, NamesThere DEF Flow
    <2>7. flows' = [flows EXCEPT ![f] = flow]
      BY <1>5, <2>1, <2>5
    <2>8. ~overlapped' => FlowNamed(flow.name, flow.template) \subseteq {f} /\ FollowsGraph(flow)
      <3>1. ~overlapped' => FollowsGraph(flows[f])
        BY <1>5, <2>3, <2>4, FreshWrites DEF CatalogueInv, Sound
      <3>2. FollowsGraph(flows[f]) => FollowsGraph(flow)
        BY <2>6 DEF FollowsGraph
      <3>. QED BY <1>5, <2>6, <3>1, <3>2
    <2>9. /\ agents' \in [AgentIds -> Names] /\ flows' \in [FlowIds -> Flow] /\ overlapped' \in BOOLEAN
          /\ (\A g \in FlowIds : HasFlow(g) => flows[g].name # "none")'
          /\ Sound'
      BY <1>3, <1>5, <2>3, <2>6, <2>7, <2>8, NamesThere, FlowWrites
    <2>10. Fresh'
      BY <1>1, <1>2, <1>3, <1>5, IdFacts, WritesOutdate DEF CatalogueInv
    <2>11. Typed' /\ Shaped'
      BY <1>2, <1>3, <2>9 DEF CatalogueInv, Typed, Shaped
    <2>. QED BY <2>9, <2>10, <2>11 DEF CatalogueInv
  <1>. QED BY <1>4, <1>5 DEF Refresh

-----------------------------------------------------------------------------
\* Requests.

LEMMA EditKeeps ==
  ASSUME CatalogueInv, NEW q \in Requests, NEW ask \in Ask, AskShape(ask), FreshAsk(ask), Edit(q, ask)
  PROVE  CatalogueInv'
  <1>1. request' = [request EXCEPT ![q] = ask] /\ UNCHANGED rows /\ UNCHANGED overlapped
        /\ agents' = agents /\ flows' = flows /\ replica' = replica /\ stale' = stale \ {q}
    BY DEF Edit, Read, rows
  <1>2. /\ request' \in [Requests -> Ask] /\ \A p \in Requests : AskShape(request'[p])
        /\ request'[q] = ask /\ \A p \in Requests \ {q} : request'[p] = request[p]
    BY <1>1, AsksMove DEF CatalogueInv
  <1>3. Typed' /\ Shaped'
    BY <1>1, <1>2, RowsStay DEF CatalogueInv, Typed, Shaped
  <1>4. ASSUME NEW r \in Replicas \ stale', replica'[r].at = "write"
        PROVE  FreshReplica(r)'
    <2>1. r \notin stale
      BY <1>1, <1>4, IdFacts
    <2>. QED BY <1>1, <1>4, <2>1, RowsStay DEF CatalogueInv, Fresh, FreshReplica
  <1>5. ASSUME NEW p \in Requests \ stale', request'[p].op # "none"
        PROVE  FreshAsk(request[p])'
    <2>1. FreshAsk(request'[p])
      BY <1>1, <1>2, <1>5 DEF CatalogueInv, Fresh
    <2>2. PICK written : written = request'[p]
      OBVIOUS
    <2>3. FreshAsk(written)
      BY <2>1, <2>2
    <2>4. FreshAsk(written)'
      BY <1>1, <2>3, RowsStay DEF FreshAsk
    <2>. QED BY <2>2, <2>4 DEF FreshAsk
  <1>6. Sound'
    BY <1>1, SoundStays DEF CatalogueInv
  <1>. QED BY <1>3, <1>4, <1>5, <1>6 DEF CatalogueInv, Fresh

LEMMA AskAgentKeeps ==
  ASSUME CatalogueInv, NEW q \in Requests, AskAgent(q)
  PROVE  CatalogueInv'
  <1>1. PICK name \in UserNames, a \in KnownAgents \union {0} :
          /\ NameFree("agent", name, FALSE, a)
          /\ Edit(q, [NoRequest EXCEPT !.op = "agent", !.id = a, !.name = name])
    BY DEF AskAgent
  <1>2. PICK ask : ask = [NoRequest EXCEPT !.op = "agent", !.id = a, !.name = name]
    OBVIOUS
  <1>3. ask \in Ask /\ ask.op = "agent" /\ ask.id = a /\ ask.name = name
    BY <1>2, NoRequestFacts, NamesThere, IdFacts DEF Ask, Ops, NoRequest
  <1>4. AskShape(ask) /\ FreshAsk(ask)
    BY <1>1, <1>3, NamesThere, IdFacts DEF AskShape, FreshAsk
  <1>. QED BY <1>1, <1>2, <1>3, <1>4, EditKeeps

LEMMA AskFlowKeeps ==
  ASSUME CatalogueInv, NEW q \in Requests, AskFlow(q)
  PROVE  CatalogueInv'
  <1>1. PICK name \in {"Mine", DevRun}, f \in KnownFlows \union {0} :
          LET template == f # 0 /\ flows[f].template IN
          /\ NameFree("flow", name, template, f)
          /\ Edit(q, [NoRequest EXCEPT !.op = "flow", !.id = f, !.name = name, !.template = template])
    BY DEF AskFlow
  <1>2. PICK template \in BOOLEAN : template = (f # 0 /\ flows[f].template)
    BY Zenon
  <1>3. PICK ask : ask = [NoRequest EXCEPT !.op = "flow", !.id = f, !.name = name, !.template = template]
    OBVIOUS
  <1>4. ask \in Ask /\ ask.op = "flow" /\ ask.id = f /\ ask.name = name /\ ask.template = template
    BY <1>3, NoRequestFacts, NamesThere, IdFacts DEF Ask, Ops, NoRequest
  <1>5. AskShape(ask)
    BY <1>4, NamesThere, IdFacts DEF AskShape
  <1>6. FreshAsk(ask)
    BY <1>1, <1>2, <1>4 DEF FreshAsk
  <1>7. Edit(q, ask)
    BY <1>1, <1>2, <1>3
  <1>. QED BY <1>4, <1>5, <1>6, <1>7, EditKeeps

LEMMA AskDuplicateKeeps ==
  ASSUME CatalogueInv, NEW q \in Requests, AskDuplicate(q)
  PROVE  CatalogueInv'
  <1>1. PICK f \in KnownFlows, name \in {"Copy", "Copy (2)"} :
          /\ FlowNamed(name, FALSE) = {}
          /\ Edit(q, [NoRequest EXCEPT !.op = "flow", !.name = name, !.uses = {l.agent : l \in flows[f].links}])
    BY Zenon DEF AskDuplicate
  <1>2. name \in Names /\ name # "none"
    BY CopyNamesThere, Zenon
  <1>3. PICK uses \in SUBSET AgentIds : uses = {l.agent : l \in flows[f].links}
    <2>1. flows[f].links \in SUBSET Link
      BY IdFacts DEF CatalogueInv, Typed, Flow
    <2>. QED BY <2>1 DEF Link
  <1>4. PICK ask : ask = [NoRequest EXCEPT !.op = "flow", !.name = name, !.uses = uses]
    OBVIOUS
  <1>5. ask \in Ask /\ ask.op = "flow" /\ ask.id = 0 /\ ask.name = name /\ ask.template = FALSE
    BY <1>2, <1>3, <1>4, NoRequestFacts DEF Ask, Ops, NoRequest
  <1>6. AskShape(ask)
    BY <1>2, <1>5 DEF AskShape
  <1>7. FreshAsk(ask)
    BY <1>1, <1>5 DEF FreshAsk, NameFree, Named
  <1>8. Edit(q, ask)
    BY <1>1, <1>3, <1>4
  <1>. QED BY <1>5, <1>6, <1>7, <1>8, EditKeeps

LEMMA AskSaveKeeps ==
  ASSUME CatalogueInv, NEW q \in Requests, AskSave(q)
  PROVE  CatalogueInv'
  <1>1. PICK f \in KnownFlows, uses \in SUBSET KnownAgents :
          Edit(q, [NoRequest EXCEPT !.op = "save", !.id = f, !.uses = uses,
                     !.version = flows[f].version + 1, !.links = flows[f].links])
    BY DEF AskSave
  <1>2. flows[f] \in Flow
    BY IdFacts DEF CatalogueInv, Typed
  <1>3. PICK ask : ask = [NoRequest EXCEPT !.op = "save", !.id = f, !.uses = uses,
                            !.version = flows[f].version + 1, !.links = flows[f].links]
    OBVIOUS
  <1>4. ask.op = "save" /\ ask.id = f /\ ask.version = flows[f].version + 1 /\ ask.links = flows[f].links
        /\ ask \in Ask
    <2>1. PICK version \in Int, read \in SUBSET Link : version = flows[f].version + 1 /\ read = flows[f].links
      <3>1. flows[f].version \in Int /\ flows[f].links \in SUBSET Link
        BY <1>2 DEF Flow
      <3>2. flows[f].version + 1 \in Int
        BY <3>1
      <3>. QED BY <3>1, <3>2
    <2>2. ask = [op |-> "save", id |-> f, name |-> "none", template |-> FALSE, version |-> version,
                 uses |-> uses, links |-> read]
      BY <1>3, <2>1 DEF NoRequest
    <2>3. f \in Nat /\ uses \in SUBSET AgentIds
      BY IdFacts
    <2>. QED BY <2>1, <2>2, <2>3, NamesThere DEF Ask, Ops
  <1>5. AskShape(ask) /\ FreshAsk(ask)
    BY <1>4, IdFacts DEF AskShape, FreshAsk
  <1>. QED BY <1>1, <1>3, <1>4, <1>5, EditKeeps

LEMMA AskColumnsKeeps ==
  ASSUME CatalogueInv, NEW q \in Requests, AskColumns(q)
  PROVE  CatalogueInv'
  <1>1. PICK f \in KnownFlows \union {0}, template \in BOOLEAN :
          Edit(q, [NoRequest EXCEPT !.op = "columns", !.id = f, !.template = template,
                     !.links = IF f = 0 THEN {} ELSE flows[f].links])
    BY DEF AskColumns
  <1>2. PICK read \in SUBSET Link : read = IF f = 0 THEN {} ELSE flows[f].links
    BY IdFacts DEF CatalogueInv, Typed, Flow
  <1>3. PICK ask : ask = [NoRequest EXCEPT !.op = "columns", !.id = f, !.template = template, !.links = read]
    OBVIOUS
  <1>4. ask \in Ask /\ ask.op = "columns" /\ ask.id = f
    BY <1>3, NoRequestFacts, IdFacts DEF Ask, Ops, NoRequest
  <1>5. AskShape(ask) /\ FreshAsk(ask)
    BY <1>4, IdFacts DEF AskShape, FreshAsk
  <1>6. Edit(q, ask)
    BY <1>1, <1>2, <1>3
  <1>. QED BY <1>4, <1>5, <1>6, EditKeeps

LEMMA RefuseKeeps ==
  ASSUME CatalogueInv, NEW q \in Requests, Refuse(q)
  PROVE  CatalogueInv'
  <1>1. request' = [request EXCEPT ![q] = NoRequest] /\ UNCHANGED <<rows, races>> /\ replica' = replica
    BY DEF Refuse
  <1>2. /\ request' \in [Requests -> Ask] /\ \A p \in Requests : AskShape(request'[p])
        /\ request'[q] = NoRequest /\ \A p \in Requests \ {q} : request'[p] = request[p]
    BY <1>1, NoRequestFacts, AsksMove DEF CatalogueInv
  <1>. QED BY <1>1, <1>2, NoRequestFacts, Harmless DEF CatalogueInv, Typed, Shaped

LEMMA CommitKeeps ==
  ASSUME CatalogueInv, NEW q \in Requests, Commit(q)
  PROVE  CatalogueInv'
  <1>. DEFINE RowsKept ==
         /\ agents' \in [AgentIds -> Names] /\ flows' \in [FlowIds -> Flow] /\ overlapped' \in BOOLEAN
         /\ (\A f \in FlowIds : HasFlow(f) => flows[f].name # "none")'
         /\ Sound'
  <1>1. PICK r \in Ask : r = request[q]
    BY DEF CatalogueInv, Typed
  <1>2. AskShape(r) /\ r.op # "none" /\ ~Refused(r) /\ Wrote(q) /\ replica' = replica
        /\ request' = [request EXCEPT ![q] = NoRequest]
    BY <1>1 DEF Commit, CatalogueInv, Shaped
  <1>3. ~overlapped' => ~overlapped /\ FreshAsk(r) /\ r.op # "columns"
    <2>1. ASSUME ~overlapped'
          PROVE  ~overlapped /\ q \notin stale /\ ~Unchecked(q)
      BY <1>2, <2>1, FreshWrites DEF CatalogueInv
    <2>2. ASSUME ~overlapped'
          PROVE  FreshAsk(r) /\ r.op # "columns"
      BY <1>1, <1>2, <2>1, <2>2 DEF CatalogueInv, Fresh, Unchecked
    <2>. QED BY <2>1, <2>2
  <1>4. ASSUME r.op = "agent"
         PROVE  RowsKept
    <2>1. PICK a \in AgentIds : /\ agents' = [agents EXCEPT ![a] = r.name]
                                /\ (r.id # 0 => a = r.id)
      <3>1. CASE r.id # 0
        BY <1>1, <1>2, <1>4, <3>1 DEF Commit, AskShape
      <3>2. CASE r.id = 0
        <4>1. FreeAgents # {} /\ agents' = [agents EXCEPT ![Min(FreeAgents)] = r.name]
          BY <1>1, <1>4, <3>2 DEF Commit, AddAgent
        <4>. QED BY <3>2, <4>1, FreeRows
      <3>. QED BY <3>1, <3>2
    <2>2. UNCHANGED flows
      BY <1>1, <1>4 DEF Commit
    <2>3. ~overlapped' => AgentNamed(r.name) \subseteq {a}
      <3>1. ~overlapped' => AgentNamed(r.name) \subseteq {r.id}
        BY <1>3, <1>4 DEF FreshAsk, NameFree, Named
      <3>2. 0 \notin AgentNamed(r.name)
        BY IdFacts DEF AgentNamed
      <3>. QED BY <2>1, <3>1, <3>2
    <2>4. r.name \in Names
      BY DEF Ask
    <2>5. RowsKept
      BY <1>2, <2>1, <2>2, <2>3, <2>4, AgentWrites
    <2>. QED BY <2>5
  <1>5. ASSUME UNCHANGED agents, NEW f \in FlowIds, NEW flow \in Flow, flow.name # "none",
               flows' = [flows EXCEPT ![f] = flow],
               ~overlapped' => FlowNamed(flow.name, flow.template) \subseteq {f} /\ FollowsGraph(flow)
        PROVE  RowsKept
    BY <1>2, <1>5, FlowWrites
  <1>. HIDE DEF RowsKept
  <1>6. ASSUME r.id # 0, r.op # "agent"
        PROVE  r.id \in FlowIds /\ HasFlow(r.id) /\ flows[r.id] \in Flow /\ flows[r.id].name # "none"
    <2>1. r.op \in {"flow", "save", "columns"}
      BY <1>2, <1>6 DEF Ask, Ops
    <2>2. r.id \in FlowIds /\ HasFlow(r.id)
      BY <1>2, <1>6, <2>1 DEF AskShape, Refused
    <2>. QED BY <2>2 DEF CatalogueInv, Typed, Shaped
  <1>7. ASSUME r.op = "flow" /\ r.id # 0
         PROVE  RowsKept
    <2>1. PICK f \in FlowIds : f = r.id
      BY <1>6, <1>7
    <2>2. PICK flow : flow = [flows[f] EXCEPT !.name = r.name]
      OBVIOUS
    <2>3. flows' = [flows EXCEPT ![f] = flow] /\ UNCHANGED agents
      BY <1>1, <1>7, <2>1, <2>2 DEF Commit
    <2>4. /\ flow \in Flow /\ flow.name = r.name /\ flow.template = flows[f].template
          /\ flow.links = flows[f].links /\ flow.uses = flows[f].uses
          /\ flow.version = flows[f].version /\ flow.saves = flows[f].saves
      BY <1>6, <1>7, <2>1, <2>2 DEF Flow, Ask
    <2>5. ~overlapped' => FollowsGraph(flow)
      <3>1. ~overlapped' => FollowsGraph(flows[f])
        BY <1>3, <1>6, <1>7, <2>1 DEF CatalogueInv, Sound
      <3>. QED BY <2>4, <3>1 DEF FollowsGraph
    <2>6. ~overlapped' => FlowNamed(flow.name, flow.template) \subseteq {f}
      <3>1. ASSUME ~overlapped'
            PROVE  FlowNamed(r.name, r.template) \subseteq {f} /\ r.template = (r.id # 0 /\ flows[r.id].template)
        BY <1>3, <1>7, <2>1, <3>1 DEF FreshAsk, NameFree, Named
      <3>2. flows[f].template \in BOOLEAN
        BY <1>6, <1>7, <2>1 DEF Flow
      <3>3. ASSUME ~overlapped'
            PROVE  r.template = flows[f].template
        BY <1>7, <2>1, <3>1, <3>2, <3>3
      <3>. QED BY <2>4, <3>1, <3>3
    <2>7. flow.name # "none"
      BY <1>2, <1>7, <2>4 DEF AskShape
    <2>. QED BY <1>5, <2>3, <2>4, <2>5, <2>6, <2>7
  <1>8. ASSUME r.op = "flow" /\ r.id = 0
         PROVE  RowsKept
    <2>1. FreeFlows # {} /\ flows' = [flows EXCEPT ![Min(FreeFlows)] = NewFlow(r.name, FALSE, r.uses)]
          /\ UNCHANGED agents
      BY <1>1, <1>8 DEF Commit, AddFlow
    <2>2. PICK f \in FlowIds : f = Min(FreeFlows)
      BY <2>1, FreeRows
    <2>3. r.name \in Names /\ r.uses \in SUBSET AgentIds /\ r.name # "none"
      BY <1>2, <1>8 DEF Ask, AskShape
    <2>4. PICK flow \in Flow : /\ flow = NewFlow(r.name, FALSE, r.uses) /\ flow.name = r.name
                               /\ flow.template = FALSE /\ FollowsGraph(flow)
      BY <2>3, NewFlows
    <2>5. ~overlapped' => FlowNamed(r.name, FALSE) \subseteq {f}
      <3>1. ASSUME ~overlapped'
            PROVE  NameFree("flow", r.name, r.template, r.id) /\ r.template = (r.id # 0 /\ flows[r.id].template)
        BY <1>3, <1>8, <3>1 DEF FreshAsk
      <3>2. ASSUME ~overlapped'
            PROVE  r.template = FALSE
        BY <1>8, <3>1, <3>2
      <3>3. ~overlapped' => FlowNamed(r.name, FALSE) \subseteq {0}
        BY <1>8, <3>1, <3>2 DEF NameFree, Named
      <3>4. 0 \notin FlowNamed(r.name, FALSE)
        BY IdFacts DEF FlowNamed
      <3>. QED BY <3>3, <3>4
    <2>. QED BY <1>5, <2>1, <2>2, <2>3, <2>4, <2>5
  <1>9. ASSUME r.op = "columns"
         PROVE  RowsKept
    <2>1. PICK uses \in SUBSET KnownAgents, linked \in SUBSET KnownAgents, version \in {1, 2} :
            IF r.id # 0 THEN flows' = [flows EXCEPT ![r.id] = Columns(@, r, uses, linked, version)]
            ELSE FreeFlows # {} /\ AddFlow(Columns(NewFlow("Mine", FALSE, {}), r, uses, linked, version))
      <3>1. WriteColumns(r)
        BY <1>1, <1>9 DEF Commit
      <3>. QED BY <3>1 DEF WriteColumns
    <2>2. ASSUME NEW now \in Flow, now.name # "none"
          PROVE  /\ Columns(now, r, uses, linked, version) \in Flow
                 /\ Columns(now, r, uses, linked, version).name # "none"
      <3>1. PICK l \in SUBSET Link : l = LinksAfter(now.links, r.links, linked, version)
        <4>1. now.links \in SUBSET Link /\ r.links \in SUBSET Link
          BY <2>2 DEF Flow, Ask
        <4>2. linked \in SUBSET AgentIds /\ version \in Int
          BY <2>1, IdFacts
        <4>3. LinksAfter(now.links, r.links, linked, version) \in SUBSET Link
          BY <4>1, <4>2, SavedLinks
        <4>. QED BY <4>3
      <3>2. PICK t \in BOOLEAN : t = r.template
        BY DEF Ask
      <3>3. Columns(now, r, uses, linked, version)
              = [name |-> now.name, template |-> t, version |-> version, saves |-> now.saves,
                 uses |-> uses, links |-> l]
        <4>1. Columns(now, r, uses, linked, version)
                = [now EXCEPT !.template = t, !.version = version, !.uses = uses, !.links = l]
          BY <3>1, <3>2, Zenon DEF Columns
        <4>. QED BY <2>2, <4>1 DEF Flow
      <3>4. uses \in SUBSET AgentIds
        BY IdFacts
      <3>. QED BY <2>2, <3>1, <3>3, <3>4 DEF Flow
    <2>3. UNCHANGED agents
      BY <1>1, <1>9 DEF Commit
    <2>4. PICK f \in FlowIds, flow \in Flow : flow.name # "none" /\ flows' = [flows EXCEPT ![f] = flow]
      <3>1. CASE r.id # 0
        <4>1. PICK flow : flow = Columns(flows[r.id], r, uses, linked, version)
          OBVIOUS
        <4>2. flow \in Flow /\ flow.name # "none"
          BY <1>6, <1>9, <2>2, <3>1, <4>1
        <4>3. flows' = [flows EXCEPT ![r.id] = flow]
          BY <2>1, <3>1, <4>1
        <4>. QED BY <1>6, <1>9, <3>1, <4>2, <4>3
      <3>2. CASE r.id = 0
        <4>1. PICK mine \in Flow : mine = NewFlow("Mine", FALSE, {}) /\ mine.name # "none"
          BY NewFlows, NamesThere
        <4>2. PICK flow : flow = Columns(mine, r, uses, linked, version)
          OBVIOUS
        <4>3. flow \in Flow /\ flow.name # "none"
          BY <2>2, <4>1, <4>2
        <4>4. FreeFlows # {} /\ flows' = [flows EXCEPT ![Min(FreeFlows)] = flow]
          BY <2>1, <3>2, <4>1, <4>2 DEF AddFlow
        <4>. QED BY <4>3, <4>4, FreeRows
      <3>. QED BY <3>1, <3>2
    <2>. QED BY <1>3, <1>5, <1>9, <2>3, <2>4
  <1>10. ASSUME r.op = "save"
         PROVE  RowsKept
    <2>1. PICK f \in FlowIds : f = r.id
      BY <1>2, <1>10 DEF AskShape
    <2>2. HasFlow(f) /\ flows[f] \in Flow /\ flows[f].name # "none"
      BY <1>6, <1>10, <2>1, IdFacts
    <2>3. PICK flow : flow = Saved(flows[f], r)
      OBVIOUS
    <2>4. flows' = [flows EXCEPT ![f] = flow] /\ UNCHANGED agents
      BY <1>1, <1>10, <2>1, <2>3 DEF Commit
    <2>5. PICK l : l = LinksAfter(flows[f].links, r.links, r.uses, r.version)
      OBVIOUS
    <2>6. /\ l \in SUBSET Link
          /\ flows[f].links \subseteq r.links =>
               {k.agent : k \in l} = r.uses /\ \A j, k \in l : j.agent = k.agent => j = k
      BY <2>2, <2>5, SavedLinks DEF Flow, Ask
    <2>7. flow = [name |-> flows[f].name, template |-> flows[f].template, version |-> r.version,
                  saves |-> flows[f].saves + 1, uses |-> r.uses, links |-> l]
      BY <2>2, <2>3, <2>5 DEF Flow, Saved
    <2>8. flow \in Flow /\ flow.name # "none"
      BY <2>2, <2>6, <2>7 DEF Flow, Ask
    <2>9. ~overlapped' => FollowsGraph(flow)
      <3>1. ~overlapped' => /\ r.version = flows[f].version + 1 /\ r.links = flows[f].links
                            /\ flows[f].version = flows[f].saves + 1
        BY <1>3, <1>10, <2>1, <2>2 DEF FreshAsk, CatalogueInv, Sound, FollowsGraph
      <3>. QED BY <2>6, <2>7, <3>1 DEF FollowsGraph
    <2>10. ~overlapped' => FlowNamed(flow.name, flow.template) \subseteq {f}
      <3>1. flow.name = flows[f].name /\ flow.template = flows[f].template
        BY <2>7
      <3>. QED BY <1>3, <2>2, <3>1 DEF CatalogueInv, Sound, UniqueFlows, FlowNamed
    <2>. QED BY <1>5, <2>4, <2>8, <2>9, <2>10
  <1>11. RowsKept
    BY <1>2, <1>4, <1>7, <1>8, <1>9, <1>10 DEF Ask, Ops
  <1>12. /\ request' \in [Requests -> Ask] /\ \A p \in Requests : AskShape(request'[p])
         /\ request'[q] = NoRequest /\ \A p \in Requests \ {q} : request'[p] = request[p]
    BY <1>2, NoRequestFacts, AsksMove DEF CatalogueInv
  <1>13. Fresh'
    BY <1>2, <1>12, NoRequestFacts, IdFacts, WritesOutdate DEF CatalogueInv
  <1>. USE DEF RowsKept
  <1>14. Typed' /\ Shaped'
    BY <1>2, <1>11, <1>12 DEF CatalogueInv, Typed, Shaped
  <1>. QED BY <1>11, <1>13, <1>14 DEF CatalogueInv

-----------------------------------------------------------------------------
\* Deletions.

LEMMA DeleteAgentKeeps ==
  ASSUME CatalogueInv, DeleteAgent
  PROVE  CatalogueInv'
  <1>1. PICK a \in AgentIds :
          /\ Delete /\ agents' = [agents EXCEPT ![a] = "none"]
          /\ flows' = [f \in FlowIds |->
               [flows[f] EXCEPT !.links = {l \in @ : l.agent # a}, !.uses = @ \ {a}]]
    BY IdFacts DEF DeleteAgent
  <1>2. replica' = replica /\ request' = request /\ UNCHANGED overlapped
    BY <1>1 DEF Delete
  <1>3. agents' \in [AgentIds -> Names] /\ (UniqueAgents => UniqueAgents')
    BY <1>1, NamesThere, AgentWritten DEF CatalogueInv
  <1>4. ASSUME NEW f \in FlowIds
        PROVE  /\ flows'[f] \in Flow
               /\ flows'[f].name = flows[f].name /\ flows'[f].template = flows[f].template
               /\ flows'[f].version = flows[f].version /\ flows'[f].saves = flows[f].saves
               /\ flows'[f].links = {l \in flows[f].links : l.agent # a} /\ flows'[f].uses = flows[f].uses \ {a}
               /\ flows[f] = NoFlow => flows'[f] = NoFlow
    <2>1. flows[f] \in Flow
      BY DEF CatalogueInv, Typed
    <2>2. PICK links, uses : links = {l \in flows[f].links : l.agent # a} /\ uses = flows[f].uses \ {a}
      OBVIOUS
    <2>3. links \in SUBSET Link /\ uses \in SUBSET AgentIds
      BY <2>1, <2>2 DEF Flow
    <2>4. flows'[f] = [name |-> flows[f].name, template |-> flows[f].template, version |-> flows[f].version,
                       saves |-> flows[f].saves, uses |-> uses, links |-> links]
      BY <1>1, <2>1, <2>2 DEF Flow
    <2>5. flows[f] = NoFlow => uses = {} /\ links = {}
      BY <2>2 DEF NoFlow
    <2>6. flows[f] = NoFlow => flows'[f] = NoFlow
      <3>1. ASSUME flows[f] = NoFlow
            PROVE  flows'[f] = NoFlow
        <4>1. flows[f].name = "none" /\ flows[f].template = FALSE /\ flows[f].version = 0 /\ flows[f].saves = 0
          BY <3>1 DEF NoFlow
        <4>. QED BY <2>4, <2>5, <3>1, <4>1 DEF NoFlow
      <3>. QED BY <3>1
    <2>. QED BY <2>1, <2>2, <2>3, <2>4, <2>6 DEF Flow
  <1>5. flows' \in [FlowIds -> Flow]
    <2>1. DOMAIN flows' = FlowIds /\ flows' = [f \in FlowIds |-> flows'[f]]
      BY <1>1
    <2>. QED BY <1>4, <2>1
  <1>6. \A f \in FlowIds : HasFlow(f)' => HasFlow(f)
    BY <1>4 DEF HasFlow
  <1>7. Typed' /\ Shaped'
    BY <1>2, <1>3, <1>4, <1>5, <1>6 DEF CatalogueInv, Typed, Shaped
  <1>8. UniqueFlows => UniqueFlows'
    BY <1>4, <1>6 DEF UniqueFlows
  <1>9. ASSUME NEW f \in FlowIds, HasFlow(f)', HasFlow(f) => FollowsGraph(flows[f])
        PROVE  FollowsGraph(flows[f])'
    <2>1. FollowsGraph(flows[f])
      BY <1>6, <1>9
    <2>2. PICK old, new : old = flows[f] /\ new = flows'[f]
      OBVIOUS
    <2>3. FollowsGraph(new)
      BY <1>4, <2>1, <2>2 DEF FollowsGraph
    <2>. QED BY <2>2, <2>3 DEF FollowsGraph
  <1>10. ASSUME ~overlapped'
         PROVE  UniqueAgents' /\ UniqueFlows' /\ (\A f \in FlowIds : HasFlow(f) => FollowsGraph(flows[f]))'
    <2>1. ~overlapped
      BY <1>2, <1>10
    <2>. QED BY <1>3, <1>8, <1>9, <2>1 DEF CatalogueInv, Sound
  <1>11. Sound'
    BY <1>10, Zenon DEF Sound
  <1>12. Fresh'
    BY <1>1, DeletesOutdate
  <1>. QED BY <1>7, <1>11, <1>12 DEF CatalogueInv

LEMMA DeleteFlowKeeps ==
  ASSUME CatalogueInv, DeleteFlow
  PROVE  CatalogueInv'
  <1>1. PICK f \in FlowIds : Delete /\ flows' = [flows EXCEPT ![f] = NoFlow] /\ agents' = agents
    BY IdFacts DEF DeleteFlow
  <1>2. replica' = replica /\ request' = request /\ UNCHANGED overlapped
    BY <1>1 DEF Delete
  <1>3. \A g \in FlowIds : flows'[g] = IF g = f THEN NoFlow ELSE flows[g]
    BY <1>1 DEF CatalogueInv, Typed
  <1>4. flows' \in [FlowIds -> Flow]
    BY <1>1, NoFlowFacts DEF CatalogueInv, Typed
  <1>5. \A g \in FlowIds : HasFlow(g)' => HasFlow(g) /\ flows'[g] = flows[g]
    BY <1>3 DEF HasFlow
  <1>6. Typed' /\ Shaped'
    BY <1>1, <1>2, <1>4, <1>5 DEF CatalogueInv, Typed, Shaped
  <1>7. UniqueFlows => UniqueFlows'
    <2>1. ASSUME UniqueFlows, \A g \in FlowIds : HasFlow(g) => flows[g].name # "none",
                 NEW g \in FlowIds, NEW h \in FlowIds, HasFlow(g)',
                 flows'[g].name = flows'[h].name, flows'[g].template = flows'[h].template
          PROVE  g = h
      BY <1>3, <1>5, <2>1, NoFlowFacts DEF UniqueFlows
    <2>. QED BY <2>1 DEF UniqueFlows, CatalogueInv, Shaped
  <1>8. ASSUME NEW g \in FlowIds, HasFlow(g)', HasFlow(g) => FollowsGraph(flows[g])
        PROVE  FollowsGraph(flows[g])'
    BY <1>5, <1>8 DEF FollowsGraph
  <1>9. ASSUME ~overlapped'
        PROVE  UniqueAgents' /\ UniqueFlows' /\ (\A g \in FlowIds : HasFlow(g) => FollowsGraph(flows[g]))'
    <2>1. ~overlapped
      BY <1>2, <1>9
    <2>. QED BY <1>1, <1>7, <1>8, <2>1, AgentsStay DEF CatalogueInv, Sound
  <1>10. Sound'
    BY <1>9, Zenon DEF Sound
  <1>11. Fresh'
    BY <1>1, DeletesOutdate
  <1>. QED BY <1>6, <1>10, <1>11 DEF CatalogueInv

-----------------------------------------------------------------------------
\* The theorems.

LEMMA InitHolds ==
  ASSUME Init
  PROVE  CatalogueInv
  <1>1. PICK old \in {NoFlow, NewFlow(LegacyRun, FALSE, {})} :
          flows = [f \in FlowIds |-> IF f = MaxFlows THEN old ELSE NoFlow]
    BY DEF Init
  <1>2. old \in Flow /\ (old # NoFlow => old.name # "none" /\ FollowsGraph(old))
    <2>1. PICK left : left = NewFlow(LegacyRun, FALSE, {})
      OBVIOUS
    <2>2. left \in Flow /\ left.name # "none" /\ FollowsGraph(left)
      BY <2>1, NewFlows, NamesThere
    <2>3. old = NoFlow \/ old = left
      BY <2>1
    <2>. QED BY <2>2, <2>3, NoFlowFacts
  <1>3. flows \in [FlowIds -> Flow]
    BY <1>1, <1>2, NoFlowFacts
  <1>4. \A f \in FlowIds : HasFlow(f) => f = MaxFlows /\ flows[f] = old /\ old # NoFlow
    BY <1>1 DEF HasFlow
  <1>5. Off \in Stage /\ StageShape(Off) /\ Off.at # "write"
    BY PackFacts, StagesApart DEF Off
  <1>6. Typed
    BY <1>3, <1>5, NoRequestFacts, NamesThere DEF Init, Typed
  <1>7. Shaped
    BY <1>2, <1>4, <1>5, NoRequestFacts DEF Init, Shaped
  <1>8. Fresh
    BY <1>5, NoRequestFacts DEF Init, Fresh
  <1>9. UniqueAgents
    BY DEF Init, UniqueAgents, HasAgent
  <1>10. UniqueFlows
    <2>1. ASSUME NEW f \in FlowIds, NEW g \in FlowIds, HasFlow(f), flows[f].name = flows[g].name
          PROVE  f = g
      <3>1. HasFlow(g)
        BY <1>2, <1>4, <2>1, NoFlowFacts DEF HasFlow
      <3>. QED BY <1>4, <2>1, <3>1
    <2>. QED BY <2>1 DEF UniqueFlows
  <1>11. \A f \in FlowIds : HasFlow(f) => FollowsGraph(flows[f])
    BY <1>2, <1>4
  <1>. QED BY <1>6, <1>7, <1>8, <1>9, <1>10, <1>11 DEF CatalogueInv, Sound

LEMMA NextKeeps ==
  ASSUME CatalogueInv, [Next]_vars
  PROVE  CatalogueInv'
  <1>1. ASSUME NEW r \in Replicas, ReplicaStep(r) \/ CrashWhileStarting(r)
        PROVE  CatalogueInv'
    BY <1>1, StartKeeps, CheckPackKeeps, CheckNameKeeps, SeedKeeps, RefreshKeeps DEF ReplicaStep
  <1>2. ASSUME NEW q \in Requests, RequestStep(q)
        PROVE  CatalogueInv'
    BY <1>2, AskAgentKeeps, AskFlowKeeps, AskDuplicateKeeps, AskSaveKeeps, AskColumnsKeeps,
       RefuseKeeps, CommitKeeps DEF RequestStep
  <1>3. CASE UNCHANGED vars
    <2>1. UNCHANGED <<rows, races>> /\ replica' = replica /\ request' = request
      BY <1>3 DEF vars
    <2>. QED BY <2>1, Harmless DEF CatalogueInv, Typed, Shaped
  <1>. QED BY <1>1, <1>2, <1>3, DeleteAgentKeeps, DeleteFlowKeeps DEF Next

\* The inductive invariant: what replicas and requests have checked, and nothing has
\* outdated, holds of the rows they are about to write (workflow_service.py:560-572).
THEOREM CatalogueInvariant == Spec => []CatalogueInv
  <1>1. Init => CatalogueInv
    BY InitHolds
  <1>2. CatalogueInv /\ [Next]_vars => CatalogueInv'
    BY NextKeeps
  <1>. QED BY <1>1, <1>2, PTL DEF Spec

\* One agent per name, one workflow and one template, however replicas that seed, requests
\* and crashes interleave, until somebody writes on an outdated check or replaces columns
\* that nothing checks (agent_service.py:524-527, workflow_service.py:560-572).
THEOREM NamesStayUnique == Spec => []NamesUnique
  <1>1. CatalogueInv => NamesUnique
    <2>1. ASSUME Sound
          PROVE  NamesUnique
      BY <2>1 DEF Sound, NamesUnique, UniqueAgents, UniqueFlows
    <2>. QED BY <2>1 DEF CatalogueInv
  <1>. QED BY <1>1, CatalogueInvariant, PTL

\* As many links as agents, if no agent has two.
LEMMA OneLinkEach ==
  ASSUME NEW links \in SUBSET Link, NEW uses \in SUBSET AgentIds,
         {l.agent : l \in links} = uses, \A k, l \in links : k.agent = l.agent => k = l
  PROVE  Cardinality(links) = Cardinality(uses)
  <1>. DEFINE agentOf == [l \in links |-> l.agent]
  <1>1. IsFiniteSet(uses)
    <2>1. IsFiniteSet(AgentIds)
      BY IdFacts, FS_Interval DEF AgentIds
    <2>. QED BY <2>1, FS_Subset
  <1>2. agentOf \in [links -> uses]
    OBVIOUS
  <1>3. agentOf \in Injection(links, uses)
    BY <1>2 DEF Injection, IsInjective
  <1>4. agentOf \in Surjection(links, uses)
    BY <1>2 DEF Surjection
  <1>. HIDE DEF agentOf
  <1>. QED BY <1>1, <1>3, <1>4, FS_Injection

\* A workflow's links are the agents of its drawing that exist, one link each, and its
\* version counts its saves, under the same condition (workflow_service.py:95-108).
THEOREM LinksStayWithTheGraph == Spec => []LinksFollowGraph
  <1>1. ASSUME CatalogueInv, ~overlapped, NEW f \in FlowIds, HasFlow(f)
        PROVE  /\ {l.agent : l \in flows[f].links} = flows[f].uses
               /\ Cardinality(flows[f].links) = Cardinality(flows[f].uses)
               /\ flows[f].version = flows[f].saves + 1
    <2>1. FollowsGraph(flows[f])
      BY <1>1 DEF CatalogueInv, Sound
    <2>2. flows[f].links \in SUBSET Link /\ flows[f].uses \in SUBSET AgentIds
      BY <1>1 DEF CatalogueInv, Typed, Flow
    <2>. QED BY <2>1, <2>2, OneLinkEach DEF FollowsGraph
  <1>2. CatalogueInv => LinksFollowGraph
    BY <1>1, Zenon DEF LinksFollowGraph
  <1>. QED BY <1>2, CatalogueInvariant, PTL

=============================================================================
