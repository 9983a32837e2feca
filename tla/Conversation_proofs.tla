------------------------- MODULE Conversation_proofs -------------------------
(***************************************************************************)
(* What TLAPS proves of Conversation, for any number of chats, agents,     *)
(* workers, requests, links and runs: links have agents that exist; a      *)
(* chat has one agent and a link one conversation, and one more for each   *)
(* write on an outdated read at the worst.                                 *)
(***************************************************************************)
EXTENDS Conversation, FiniteSetTheorems, WellFoundedInduction, TLAPS

Labels == Kinds \union {"idle", "log", "save", "reply", "queue"}
Reading == {"reset", "chat", "log", "save"}

LinkRows == [agent : Agents \union {"none"}, chat : Chats \union {NoChat}, active : BOOLEAN,
             conv : 0 .. MaxRuns]
RunRows == [kind : {"none", "deleted", "conversation", "launched"}, flow : Flows \union {"none"},
            logged : BOOLEAN, queued : BOOLEAN]
HandlerRows == [pc : Labels, link : 0 .. MaxLinks, chat : Chats \union {NoChat},
                conv : 0 .. MaxRuns, run : 0 .. MaxRuns]
RequestRows == [pc : {"idle", "write"}, link : 0 .. MaxLinks, agent : Agents \union {"none"},
                chat : Chats \union {NoChat}, conv : 0 .. MaxRuns, active : BOOLEAN]

Typed ==
  /\ links \in [LinkIds -> LinkRows] /\ runs \in [RunIds -> RunRows]
  /\ handler \in [Workers -> HandlerRows] /\ request \in [Requests -> RequestRows]
  /\ used \in [LinkIds -> SUBSET RunIds] /\ agents \subseteq Agents /\ flows \subseteq Flows
  /\ stale \subseteq Workers \union Requests /\ overwrites \in Nat

\* A link has an agent and a chat, who is about to write one knows which, and no messages
\* are counted for a link there is not.
Shaped ==
  /\ \A l \in LinkIds : Linked(l) => links[l].agent \in agents /\ links[l].chat \in Chats
  /\ \A l \in LinkIds : ~Linked(l) => used[l] = {}
  /\ \A w \in Workers :
       /\ handler[w].pc \in Reading \union Pipelines => handler[w].link \in LinkIds /\ handler[w].chat \in Chats
       /\ handler[w].pc \in {"log", "save", "reply", "queue"} <=> handler[w].run # 0
  /\ \A q \in Requests : request[q].pc = "write" => request[q].agent \in Agents /\ request[q].chat \in Chats

\* A run that somebody names was created, a queued one is there and has its log.
Runs ==
  /\ \A l \in LinkIds : links[l].conv # 0 => runs[links[l].conv] # NoRun
  /\ \A q \in Requests : request[q].conv # 0 => runs[request[q].conv] # NoRun
  /\ \A w \in Workers : handler[w].run # 0 => runs[handler[w].run] # NoRun
  /\ \A r \in RunIds : runs[r].queued => RunExists(r) /\ runs[r].logged

\* What a reading that nothing has outdated says of the links.
FreshHandler(w) ==
  LET h == handler[w] IN
  /\ links[h.link].active /\ links[h.link].chat = h.chat
  /\ h.pc = "chat" => links[h.link].conv = h.conv
  /\ h.pc \in {"log", "save"} => ~Continues(links[h.link].conv)
FreshRequest(q) ==
  LET r == request[q] IN
  /\ MayLink(r.agent, r.chat)
  /\ r.link # 0 => links[r.link].agent = r.agent /\ links[r.link].conv = r.conv
Fresh ==
  /\ \A w \in Workers \ stale : handler[w].pc \in Reading => FreshHandler(w)
  /\ \A q \in Requests \ stale : request[q].pc = "write" => FreshRequest(q)

\* A chat has one agent, and a link's messages went to the run of its configuration; others
\* are the price of the writes on outdated reads.
AgentsCounted == \A c \in Chats : Cardinality(AgentsOfChat(c)) <= 1 + overwrites
RunsCounted ==
  \A l \in LinkIds :
    /\ Cardinality(used[l] \ {links[l].conv}) <= overwrites
    /\ \A r \in used[l] : RunExists(r)
Counted == AgentsCounted /\ RunsCounted

ChatInv == Typed /\ Shaped /\ Runs /\ Fresh /\ Counted

-----------------------------------------------------------------------------
\* Numbers, and the least and the greatest of them.

\* A set of naturals that is not empty has a least element.
LEMMA MinIsThere ==
  ASSUME NEW S \in SUBSET Nat, S # {}
  PROVE  Min(S) \in S /\ \A y \in S : Min(S) <= y
  <1>1. PICK x \in S : \A y \in S : ~(<<y, x>> \in OpToRel(<, Nat))
    BY WFMin, NatLessThanWellFounded
  <1>2. \A y \in S : ~(y < x)
    BY <1>1 DEF OpToRel
  <1>3. x \in S /\ \A y \in S : x =< y
    BY <1>2
  <1>. QED BY <1>3 DEF Min

\* One that has an upper bound has a greatest element.
LEMMA MaxIsThere ==
  ASSUME NEW n \in Nat, NEW S \in SUBSET (1 .. n), S # {}
  PROVE  Max(S) \in S
  <1>. DEFINE T == {n - x : x \in S}
  <1>1. T \in SUBSET Nat /\ T # {}
    <2>1. \A x \in S : x \in Nat /\ x <= n
      OBVIOUS
    <2>2. \A x \in S : n - x \in Nat
      BY <2>1
    <2>3. \A z \in T : z \in Nat
      BY <2>2
    <2>4. PICK x \in S : TRUE
      OBVIOUS
    <2>5. n - x \in T
      OBVIOUS
    <2>. QED BY <2>3, <2>5
  <1>2. PICK m \in T : m = Min(T)
    BY <1>1, MinIsThere
  <1>3. PICK x \in S : m = n - x
    BY <1>2
  <1>4. \A y \in S : m <= n - y
    <2>1. \A z \in T : Min(T) <= z
      BY <1>1, MinIsThere
    <2>. QED BY <1>2, <2>1
  <1>5. \A y \in S : x >= y
    BY <1>3, <1>4
  <1>. QED BY <1>5 DEF Max

\* What the assumption says of the bounds.
LEMMA Numbers == MaxLinks \in Nat \ {0} /\ MaxRuns \in Nat \ {0}
  BY ConversationAssumption

\* There are two pipelines that chats start.
LEMMA PipelineNames == Pipelines \subseteq {"launch", "build"}
  BY ConversationAssumption

\* The link of an agent is one of its own, the next link and the next run are new.
LEMMA Found ==
  /\ \A a : LinkOfAgent(a) = 0 \/ (LinkOfAgent(a) \in ActiveLinks /\ links[LinkOfAgent(a)].agent = a)
  /\ FreeLinks # {} => Min(FreeLinks) \in FreeLinks
  /\ FreeRuns # {} => Min(FreeRuns) \in FreeRuns
  <1>1. ASSUME NEW a, LinkOfAgent(a) # 0
        PROVE  LinkOfAgent(a) \in ActiveLinks /\ links[LinkOfAgent(a)].agent = a
    <2>. DEFINE mine == {l \in ActiveLinks : links[l].agent = a}
    <2>1. mine # {} /\ LinkOfAgent(a) = Max(mine)
      BY <1>1 DEF LinkOfAgent
    <2>2. mine \in SUBSET (1 .. MaxLinks)
      BY DEF ActiveLinks, LinkIds
    <2>3. Max(mine) \in mine
      BY <2>1, <2>2, Numbers, MaxIsThere
    <2>. QED BY <2>1, <2>3
  <1>2. FreeLinks \in SUBSET Nat /\ FreeRuns \in SUBSET Nat
    BY Numbers DEF FreeLinks, FreeRuns, LinkIds, RunIds
  <1>. QED BY <1>1, <1>2, MinIsThere

\* The rows that stand for none.
LEMMA NoRows ==
  /\ NoLink \in LinkRows /\ ~NoLink.active /\ NoLink.conv = 0 /\ NoLink.chat = NoChat
  /\ NoRun \in RunRows /\ NoRun.kind = "none" /\ ~NoRun.queued /\ ~NoRun.logged /\ NoRun.flow = "none"
  /\ Gone \in RunRows /\ Gone.kind = "deleted" /\ ~Gone.queued
  /\ Idle \in HandlerRows /\ Idle.pc = "idle" /\ Idle.run = 0
  /\ NoRequest \in RequestRows /\ NoRequest.pc = "idle" /\ NoRequest.conv = 0
  <1>1. NoLink \in LinkRows /\ ~NoLink.active /\ NoLink.conv = 0 /\ NoLink.chat = NoChat
    BY Numbers DEF NoLink, LinkRows
  <1>2. NoRun \in RunRows /\ NoRun.kind = "none" /\ ~NoRun.queued /\ ~NoRun.logged /\ NoRun.flow = "none"
    BY DEF NoRun, RunRows
  <1>3. Gone \in RunRows /\ Gone.kind = "deleted" /\ ~Gone.queued
    BY <1>2 DEF Gone, RunRows
  <1>4. Idle \in HandlerRows /\ Idle.pc = "idle" /\ Idle.run = 0
    BY Numbers DEF Idle, HandlerRows, Labels
  <1>5. NoRequest \in RequestRows /\ NoRequest.pc = "idle" /\ NoRequest.conv = 0
    BY Numbers DEF NoRequest, RequestRows
  <1>. QED BY <1>1, <1>2, <1>3, <1>4, <1>5

-----------------------------------------------------------------------------
\* Types.

\* Every step is one of a worker, one of a web request, or a deletion.
LEMMA Steps ==
  ASSUME [Next]_vars
  PROVE  \/ \E w \in Workers : HandlerStep(w)
         \/ \E q \in Requests : WriteLink(q)
         \/ \E q \in Requests, a \in Agents, c \in Chats, on \in BOOLEAN : LinkAgent(q, a, c, on)
         \/ \E l \in LinkIds : DeleteLink(l)
         \/ \E a \in Agents : DeleteAgent(a)
         \/ \E f \in Flows : DeleteFlow(f)
         \/ UNCHANGED vars
  BY DEF Next, WebStep

\* A worker replaces what it knows of its own update.
HandlerMoves(w, h) == handler' = [handler EXCEPT ![w] = h]

\* Where a worker goes, and what it knows there.
Moves(w, h) ==
  /\ HandlerMoves(w, h) /\ h \in HandlerRows
  /\ h.pc \in Reading \union Pipelines => h.link \in LinkIds /\ h.chat \in Chats
  /\ h.pc \in {"log", "save", "reply", "queue"} <=> h.run # 0

\* A worker moves to a label, knowing there what the label needs.
LEMMA HandlersMove ==
  ASSUME ChatInv, NEW w \in Workers, HandlerStep(w)
  PROVE  handler' = handler \/ \E h : Moves(w, h)
  <1>. USE DEF ChatInv, Moves, HandlerMoves
  <1>i. Idle \in HandlerRows /\ Idle.pc = "idle" /\ Idle.run = 0
    BY NoRows
  <1>h. PICK h : h = handler[w]
    OBVIOUS
  <1>t. /\ h \in HandlerRows /\ h = handler[w]
        /\ h.pc \in Reading \union Pipelines => h.link \in LinkIds /\ h.chat \in Chats
        /\ h.pc \in {"log", "save", "reply", "queue"} <=> h.run # 0
    BY <1>h DEF Typed, Shaped
  <1>1. ASSUME NEW c \in Chats, NEW kind \in Kinds, TakeUpdate(w, c, kind)
        PROVE  \E n : Moves(w, n)
    <2>1. PICK l \in LinksOfChat(c) :
            HandlerMoves(w, [pc |-> kind, link |-> l, chat |-> c, conv |-> links[l].conv, run |-> 0])
      BY <1>1 DEF TakeUpdate
    <2>2. l \in LinkIds /\ l \in 0 .. MaxLinks /\ links[l].conv \in 0 .. MaxRuns
      BY Numbers DEF LinksOfChat, ActiveLinks, LinkIds, Typed, LinkRows
    <2>n. PICK n : n = [pc |-> kind, link |-> l, chat |-> c, conv |-> links[l].conv, run |-> 0]
      OBVIOUS
    <2>3. n \in HandlerRows /\ n.link \in LinkIds /\ n.chat \in Chats /\ n.pc = kind /\ n.run = 0
      BY <2>n, <2>2, Numbers DEF HandlerRows, Labels
    <2>. QED BY <2>n, <2>1, <2>3, PipelineNames DEF Kinds
  <1>2. CASE Finish(w)
    BY <1>2, <1>i, PipelineNames DEF Finish, Reading
  <1>3. ASSUME NEW r \in RunIds, HandlerMoves(w, Replying(r))
        PROVE  \E n : Moves(w, n)
    <2>n. PICK n : n = Replying(r)
      OBVIOUS
    <2>0. n = [pc |-> "reply", link |-> 0, chat |-> NoChat, conv |-> 0, run |-> r]
      BY <2>n DEF Replying, Idle
    <2>1. n \in HandlerRows /\ n.pc = "reply" /\ n.run = r
      BY <2>0, Numbers DEF HandlerRows, Labels, RunIds
    <2>2. r # 0
      BY Numbers DEF RunIds
    <2>. QED BY <1>3, <2>n, <2>1, <2>2, PipelineNames DEF Reading
  <1>4. ASSUME NEW kind, NEW flow, NEW label \in {"log", "queue"}, NewRun(w, kind, flow, label),
               h.pc \in {"chat"} \union Pipelines
        PROVE  \E n : Moves(w, n)
    <2>n. PICK n : n = [h EXCEPT !.pc = label, !.run = Min(FreeRuns), !.conv = 0]
      OBVIOUS
    <2>1. Min(FreeRuns) \in RunIds /\ HandlerMoves(w, n)
      BY <1>4, <1>t, <2>n, Found DEF NewRun, FreeRuns
    <2>0. n = [pc |-> label, link |-> h.link, chat |-> h.chat, conv |-> 0, run |-> Min(FreeRuns)]
      BY <1>t, <2>n DEF HandlerRows
    <2>2. n.pc = label /\ n.run # 0 /\ n.link = h.link /\ n.chat = h.chat /\ n \in HandlerRows
      BY <1>t, <2>0, <2>1, Numbers DEF HandlerRows, Labels, RunIds
    <2>. QED BY <1>4, <1>t, <2>1, <2>2, PipelineNames DEF Reading
  <1>5. CASE At(w, "log") /\ GoTo(w, "save")
    <2>n. PICK n : n = [h EXCEPT !.pc = "save"]
      OBVIOUS
    <2>1. HandlerMoves(w, n)
      BY <1>5, <1>t, <2>n DEF GoTo, Typed
    <2>2. h.pc = "log" /\ n.pc = "save" /\ n.run = h.run /\ n.link = h.link /\ n.chat = h.chat /\ n \in HandlerRows
      BY <1>5, <1>t, <2>n DEF HandlerRows, Labels, At
    <2>. QED BY <1>t, <2>1, <2>2, PipelineNames DEF Reading
  <1>6. CASE KeepConversation(w)
    <2>1. HandlerMoves(w, Replying(handler[w].conv)) /\ handler[w].conv \in RunIds
      BY <1>6 DEF KeepConversation, Continues, RunExists
    <2>. QED BY <2>1, <1>3
  <1>7. CASE NewConversation(w)
    <2>1. PICK f \in ConversationFlow : NewRun(w, "conversation", f, "log")
      BY <1>7 DEF NewConversation
    <2>. QED BY <1>7, <1>t, <1>4, <2>1 DEF NewConversation, At
  <1>8. CASE SaveConversation(w)
    <2>1. handler[w].run \in RunIds
      BY <1>8, <1>t, Numbers DEF SaveConversation, At, HandlerRows, RunIds
    <2>2. HandlerMoves(w, Replying(handler[w].run)) \/ Finish(w)
      BY <1>8 DEF SaveConversation
    <2>. QED BY <1>2, <1>3, <2>1, <2>2
  <1>9. CASE Launch(w)
    BY <1>2, <1>4, <1>9, <1>t DEF Launch, At
  <1>10. CASE LogConversation(w)
    BY <1>2, <1>5, <1>10 DEF LogConversation
  <1>11. CASE LogLaunch(w)
    BY <1>11 DEF LogLaunch
  <1>12. CASE Reset(w) \/ NoConversation(w) \/ Reply(w) \/ PublishLaunch(w)
    BY <1>2, <1>12 DEF Reset, NoConversation, Reply, PublishLaunch
  <1>. QED BY <1>1, <1>6, <1>7, <1>8, <1>9, <1>10, <1>11, <1>12 DEF HandlerStep

\* A row that is written whole: an agent that exists, a chat, and a run that was created.
Puts(l, row) ==
  /\ links' = [links EXCEPT ![l] = row] /\ l \in LinkIds /\ row \in LinkRows
  /\ row.agent \in agents /\ row.chat \in Chats
  /\ row.conv # 0 => runs[row.conv] # NoRun
  /\ agents' = agents /\ runs' = runs

\* What is written into a link that is there.
LEMMA LinkRow ==
  ASSUME NEW link \in LinkRows, NEW h, h.chat \in Chats
  PROVE  /\ WithoutRun(link, h) = [agent |-> link.agent, chat |-> h.chat, active |-> link.active, conv |-> 0]
         /\ WithRun(link, h) = [agent |-> link.agent, chat |-> h.chat, active |-> link.active, conv |-> h.run]
         /\ LinkedAs(link, h) = [agent |-> link.agent, chat |-> h.chat,
                                 active |-> (link.active /\ h.active), conv |-> h.conv]
  <1>1. PICK row : row = WithoutRun(link, h)
    OBVIOUS
  <1>2. row = [agent |-> link.agent, chat |-> h.chat, active |-> link.active, conv |-> 0]
    BY <1>1 DEF WithoutRun, LinkRows
  <1>3. PICK kept : kept = WithRun(link, h)
    OBVIOUS
  <1>4. kept = [agent |-> link.agent, chat |-> h.chat, active |-> link.active, conv |-> h.run]
    BY <1>3 DEF WithRun, LinkRows
  <1>5. PICK on : on = (link.active /\ h.active)
    OBVIOUS
  <1>6. PICK as : as = [link EXCEPT !.chat = h.chat, !.conv = h.conv, !.active = on]
    OBVIOUS
  <1>7. as = [agent |-> link.agent, chat |-> h.chat, active |-> on, conv |-> h.conv]
    BY <1>6 DEF LinkRows
  <1>8. LinkedAs(link, h) = as
    BY <1>5, <1>6 DEF LinkedAs
  <1>. QED BY <1>1, <1>2, <1>3, <1>4, <1>5, <1>7, <1>8

\* The writes of a worker and of a request.
LEMMA LinksArePut ==
  ASSUME ChatInv,
         \/ \E w \in Workers : Reset(w) \/ SaveConversation(w)
         \/ \E q \in Requests : WriteLink(q)
  PROVE  \/ links' = links /\ agents' = agents /\ runs' = runs
         \/ \E l, row : Puts(l, row)
  <1>. USE DEF ChatInv
  <1>1. ASSUME NEW w \in Workers, Reset(w), Linked(handler[w].link)
        PROVE  \E l, row : Puts(l, row)
    <2>h. PICK h : h = handler[w]
      OBVIOUS
    <2>1. h.link \in LinkIds /\ h.chat \in Chats /\ links[h.link] \in LinkRows /\ links[h.link].agent \in agents
      BY <1>1, <2>h DEF Reset, At, Typed, Shaped, Reading
    <2>r. PICK row : row = WithoutRun(links[h.link], h)
      OBVIOUS
    <2>a. row = [agent |-> links[h.link].agent, chat |-> h.chat, active |-> links[h.link].active, conv |-> 0]
      BY <2>1, <2>r, LinkRow
    <2>2. row \in LinkRows /\ row.agent = links[h.link].agent /\ row.chat = h.chat /\ row.conv = 0
      BY <2>1, <2>a, Numbers DEF LinkRows
    <2>3. links' = [links EXCEPT ![h.link] = row] /\ agents' = agents /\ runs' = runs
      BY <1>1, <2>1, <2>h, <2>r DEF Reset, Typed
    <2>4. Puts(h.link, row)
      BY <2>1, <2>2, <2>3 DEF Puts
    <2>. QED BY <2>4
  <1>2. ASSUME NEW w \in Workers, SaveConversation(w), Linked(handler[w].link)
        PROVE  \E l, row : Puts(l, row)
    <2>h. PICK h : h = handler[w]
      OBVIOUS
    <2>1. /\ h.link \in LinkIds /\ h.chat \in Chats /\ links[h.link] \in LinkRows /\ links[h.link].agent \in agents
          /\ h \in HandlerRows /\ runs[h.run] # NoRun
      BY <1>2, <2>h DEF SaveConversation, At, Typed, Shaped, Reading, Runs
    <2>r. PICK row : row = WithRun(links[h.link], h)
      OBVIOUS
    <2>a. row = [agent |-> links[h.link].agent, chat |-> h.chat, active |-> links[h.link].active, conv |-> h.run]
      BY <2>1, <2>r, LinkRow
    <2>2. row \in LinkRows /\ row.agent = links[h.link].agent /\ row.chat = h.chat /\ row.conv = h.run
      BY <2>1, <2>a DEF LinkRows, HandlerRows
    <2>3. links' = [links EXCEPT ![h.link] = row] /\ agents' = agents /\ runs' = runs
      BY <1>2, <2>1, <2>h, <2>r DEF SaveConversation, Typed
    <2>4. Puts(h.link, row)
      BY <2>1, <2>2, <2>3 DEF Puts
    <2>. QED BY <2>4
  <1>3. ASSUME NEW q \in Requests, WriteLink(q)
        PROVE  \/ links' = links /\ agents' = agents /\ runs' = runs
               \/ \E l, row : Puts(l, row)
    <2>h. PICK r : r = request[q]
      OBVIOUS
    <2>1. r \in RequestRows /\ r.chat \in Chats
      BY <1>3, <2>h DEF WriteLink, Typed, Shaped
    <2>2. CASE links' = links
      BY <1>3, <2>2 DEF WriteLink
    <2>3. CASE r.link # 0 /\ Linked(r.link) /\ links' = [links EXCEPT ![r.link] = LinkedAs(@, r)]
      <3>1. r.link \in LinkIds /\ links[r.link] \in LinkRows /\ links[r.link].agent \in agents
        BY <2>1, <2>3, Numbers DEF Typed, Shaped, LinkIds, RequestRows
      <3>r. PICK row : row = LinkedAs(links[r.link], r)
        OBVIOUS
      <3>2. row \in LinkRows /\ row.agent = links[r.link].agent /\ row.chat = r.chat /\ row.conv = r.conv
        <4>1. row = [agent |-> links[r.link].agent, chat |-> r.chat,
                     active |-> (links[r.link].active /\ r.active), conv |-> r.conv]
          BY <2>1, <3>1, <3>r, LinkRow
        <4>2. (links[r.link].active /\ r.active) \in BOOLEAN
          BY <2>1, <3>1 DEF LinkRows, RequestRows
        <4>. QED BY <2>1, <3>1, <4>1, <4>2 DEF LinkRows, RequestRows
      <3>3. links' = [links EXCEPT ![r.link] = row] /\ agents' = agents /\ runs' = runs
        BY <1>3, <2>3, <3>1, <3>r DEF WriteLink, Typed
      <3>4. r.conv # 0 => runs[r.conv] # NoRun
        BY <2>h DEF Runs
      <3>5. Puts(r.link, row)
        BY <2>1, <3>1, <3>2, <3>3, <3>4 DEF Puts
      <3>. QED BY <3>5
    <2>4. CASE /\ r.agent \in agents /\ FreeLinks # {}
               /\ links' = [links EXCEPT ![Min(FreeLinks)] =
                    [agent |-> r.agent, chat |-> r.chat, active |-> r.active, conv |-> 0]]
      <3>1. Min(FreeLinks) \in LinkIds
        BY <2>4, Found DEF FreeLinks
      <3>r. PICK row : row = [agent |-> r.agent, chat |-> r.chat, active |-> r.active, conv |-> 0]
        OBVIOUS
      <3>2. row \in LinkRows /\ row.agent = r.agent /\ row.chat = r.chat /\ row.conv = 0
        BY <2>1, <2>4, <3>r, Numbers DEF LinkRows, RequestRows, Typed
      <3>3. links' = [links EXCEPT ![Min(FreeLinks)] = row] /\ agents' = agents /\ runs' = runs
        BY <1>3, <2>4, <3>r DEF WriteLink
      <3>5. Puts(Min(FreeLinks), row)
        BY <2>1, <2>4, <3>1, <3>2, <3>3 DEF Puts
      <3>. QED BY <3>5
    <2>. QED BY <1>3, <2>h, <2>2, <2>3, <2>4 DEF WriteLink
  <1>4. ASSUME NEW w \in Workers, Reset(w), ~Linked(handler[w].link)
        PROVE  links' = links /\ agents' = agents /\ runs' = runs
    BY <1>4 DEF Reset
  <1>5. ASSUME NEW w \in Workers, SaveConversation(w), ~Linked(handler[w].link)
        PROVE  links' = links /\ agents' = agents /\ runs' = runs
    BY <1>5 DEF SaveConversation
  <1>. QED BY <1>1, <1>2, <1>3, <1>4, <1>5

\* Runs come and go: new ones, logs and queueing, and those that go with their workflow.
LEMMA RunsMove ==
  ASSUME ChatInv, [Next]_vars
  PROVE  /\ runs' \in [RunIds -> RunRows]
         /\ \A r \in RunIds : runs[r] # NoRun => runs'[r] # NoRun
         /\ \A r \in RunIds : RunExists(r)' => RunExists(r) \/ runs[r] = NoRun
         /\ \A r \in RunIds : runs'[r].queued => RunExists(r)' /\ runs'[r].logged
  <1>. USE DEF ChatInv
  <1>t. /\ runs \in [RunIds -> RunRows] /\ flows \subseteq Flows
        /\ \A r \in RunIds : runs[r].queued => RunExists(r) /\ runs[r].logged
    BY DEF Typed, Runs
  <1>1. CASE runs' = runs
    BY <1>t, <1>1 DEF RunExists
  <1>2. ASSUME NEW w \in Workers, NEW kind \in {"conversation", "launched"}, NEW flow \in Flows,
               NEW label, NewRun(w, kind, flow, label)
        PROVE  /\ runs' \in [RunIds -> RunRows]
               /\ \A r \in RunIds : runs[r] # NoRun => runs'[r] # NoRun
               /\ \A r \in RunIds : RunExists(r)' => RunExists(r) \/ runs[r] = NoRun
               /\ \A r \in RunIds : runs'[r].queued => RunExists(r)' /\ runs'[r].logged
    <2>n. PICK row : row = [NoRun EXCEPT !.kind = kind, !.flow = flow]
      OBVIOUS
    <2>1. row = [kind |-> kind, flow |-> flow, logged |-> FALSE, queued |-> FALSE]
      BY <2>n DEF NoRun
    <2>2. row \in RunRows /\ ~row.queued /\ row # NoRun
      BY <2>1, NoRows DEF RunRows
    <2>3. PICK n \in RunIds : runs[n] = NoRun /\ runs' = [runs EXCEPT ![n] = row]
      BY <1>2, <2>n, Found DEF NewRun, FreeRuns
    <2>. QED BY <1>t, <2>2, <2>3 DEF RunExists
  <1>3. ASSUME NEW w \in Workers, LogLaunch(w) \/ PublishLaunch(w), runs' # runs
        PROVE  /\ runs' \in [RunIds -> RunRows]
               /\ \A r \in RunIds : runs[r] # NoRun => runs'[r] # NoRun
               /\ \A r \in RunIds : RunExists(r)' => RunExists(r) \/ runs[r] = NoRun
               /\ \A r \in RunIds : runs'[r].queued => RunExists(r)' /\ runs'[r].logged
    <2>1. PICK n \in RunIds : /\ RunExists(n)
                              /\ \/ runs' = [runs EXCEPT ![n].logged = TRUE]
                                 \/ runs[n].logged /\ runs' = [runs EXCEPT ![n].queued = TRUE]
      BY <1>3 DEF LogLaunch, PublishLaunch, RunExists
    <2>2. PICK old \in RunRows : old = runs[n]
      BY <1>t
    <2>3. PICK row : /\ runs' = [runs EXCEPT ![n] = row]
                     /\ \/ row = [old EXCEPT !.logged = TRUE]
                        \/ old.logged /\ row = [old EXCEPT !.queued = TRUE]
      BY <2>1, <2>2
    <2>4. row \in RunRows /\ row.kind = old.kind /\ (row.queued => row.logged)
      BY <2>3 DEF RunRows
    <2>5. row # NoRun
      BY <2>1, <2>2, <2>4, NoRows DEF RunExists
    <2>. QED BY <1>t, <2>1, <2>2, <2>3, <2>4, <2>5 DEF RunExists
  <1>4. ASSUME NEW f \in Flows, DeleteFlow(f)
        PROVE  /\ runs' \in [RunIds -> RunRows]
               /\ \A r \in RunIds : runs[r] # NoRun => runs'[r] # NoRun
               /\ \A r \in RunIds : RunExists(r)' => RunExists(r) \/ runs[r] = NoRun
               /\ \A r \in RunIds : runs'[r].queued => RunExists(r)' /\ runs'[r].logged
    <2>1. runs' = [r \in RunIds |-> IF runs[r].flow = f THEN Gone ELSE runs[r]]
      BY <1>4 DEF DeleteFlow
    <2>2. Gone # NoRun
      BY NoRows
    <2>. QED BY <1>t, <2>1, <2>2, NoRows DEF RunExists
  <1>5. ASSUME NEW w \in Workers, HandlerStep(w), runs' # runs
        PROVE  \/ LogLaunch(w) \/ PublishLaunch(w)
               \/ \E kind \in {"conversation", "launched"}, flow \in Flows : \E label :
                    NewRun(w, kind, flow, label)
    <2>1. \/ LogLaunch(w) \/ PublishLaunch(w) \/ NewConversation(w) \/ Launch(w)
      BY <1>5 DEF HandlerStep, TakeUpdate, Reset, KeepConversation, NoConversation, LogConversation,
                  SaveConversation, Reply, rows
    <2>2. CASE NewConversation(w)
      BY <2>2, <1>t DEF NewConversation, ConversationFlow
    <2>3. CASE Launch(w)
      <3>1. handler[w].pc \in Flows
        BY <2>3 DEF Launch, Flows
      <3>. QED BY <1>5, <2>3, <3>1 DEF Launch
    <2>. QED BY <2>1, <2>2, <2>3
  <1>6. ASSUME runs' # runs
        PROVE  \/ \E w \in Workers : HandlerStep(w)
               \/ \E f \in Flows : DeleteFlow(f)
    BY <1>6, Steps DEF WriteLink, LinkAgent, DeleteLink, DeleteAgent, vars, rows
  <1>. QED BY <1>1, <1>2, <1>3, <1>4, <1>5, <1>6

\* Links: some are put or deleted, and an agent that goes has none.
LEMMA LinksMove ==
  ASSUME ChatInv, [Next]_vars
  PROVE  \/ links' = links /\ agents' = agents
         \/ \E l, row : Puts(l, row)
         \/ \E l \in LinkIds : links' = [links EXCEPT ![l] = NoLink] /\ agents' = agents /\ used' = [used EXCEPT ![l] = {}]
         \/ \E a \in Agents : agents' = agents \ {a} /\ links' = links /\ Deletable(a)
  <1>1. ASSUME NEW w \in Workers, HandlerStep(w)
        PROVE  (links' = links /\ agents' = agents) \/ \E l, row : Puts(l, row)
    <2>1. Reset(w) \/ SaveConversation(w) \/ (links' = links /\ agents' = agents)
      BY <1>1 DEF HandlerStep, TakeUpdate, KeepConversation, NewConversation, NoConversation,
                  LogConversation, Reply, Launch, LogLaunch, PublishLaunch, rows
    <2>. QED BY <2>1, LinksArePut
  <1>2. ASSUME NEW q \in Requests, WriteLink(q)
        PROVE  (links' = links /\ agents' = agents) \/ \E l, row : Puts(l, row)
    BY <1>2, LinksArePut
  <1>3. ASSUME NEW l \in LinkIds, DeleteLink(l)
        PROVE  links' = [links EXCEPT ![l] = NoLink] /\ agents' = agents /\ used' = [used EXCEPT ![l] = {}]
    BY <1>3 DEF DeleteLink
  <1>4. ASSUME NEW a \in Agents, DeleteAgent(a)
        PROVE  agents' = agents \ {a} /\ links' = links /\ Deletable(a)
    BY <1>4 DEF DeleteAgent
  <1>5. ASSUME \/ \E q \in Requests, a \in Agents, c \in Chats, on \in BOOLEAN : LinkAgent(q, a, c, on)
               \/ \E f \in Flows : DeleteFlow(f)
               \/ UNCHANGED vars
        PROVE  links' = links /\ agents' = agents
    BY <1>5 DEF LinkAgent, DeleteFlow, vars, rows
  <1>. QED BY <1>1, <1>2, <1>3, <1>4, <1>5, Steps

\* The runs a link's messages went to: they grow with a message, and shrink otherwise.
LEMMA UsedMove ==
  ASSUME ChatInv, [Next]_vars
  PROVE  /\ used' \in [LinkIds -> SUBSET RunIds]
         /\ \A l \in LinkIds :
              \/ used'[l] \subseteq used[l]
              \/ \E w \in Workers : handler[w].link = l /\ KeepConversation(w) /\ w \notin stale
              \/ \E w \in Workers : handler[w].link = l /\ SaveConversation(w) /\ Linked(l)
  <1>. USE DEF ChatInv
  <1>t. used \in [LinkIds -> SUBSET RunIds]
    BY DEF Typed
  <1>1. CASE used' = used
    BY <1>t, <1>1
  <1>2. ASSUME NEW l \in LinkIds, used' = [used EXCEPT ![l] = {}]
        PROVE  used' \in [LinkIds -> SUBSET RunIds] /\ \A k \in LinkIds : used'[k] \subseteq used[k]
    BY <1>t, <1>2
  <1>3. ASSUME NEW w \in Workers, Reset(w), Linked(handler[w].link)
        PROVE  used' \in [LinkIds -> SUBSET RunIds] /\ \A k \in LinkIds : used'[k] \subseteq used[k]
    <2>1. handler[w].link \in LinkIds /\ used' = [used EXCEPT ![handler[w].link] = {}]
      BY <1>3 DEF Reset, At, Shaped, Reading
    <2>. QED BY <1>2, <2>1
  <1>4. ASSUME NEW w \in Workers, KeepConversation(w), w \notin stale
        PROVE  /\ used' \in [LinkIds -> SUBSET RunIds]
               /\ \A k \in LinkIds : k # handler[w].link => used'[k] = used[k]
    <2>1. /\ used' = [used EXCEPT ![handler[w].link] = @ \union {handler[w].conv}]
          /\ handler[w].conv \in RunIds
      BY <1>4 DEF KeepConversation, Continues, RunExists
    <2>. QED BY <1>t, <2>1
  <1>5. ASSUME NEW w \in Workers, SaveConversation(w), Linked(handler[w].link)
        PROVE  /\ used' \in [LinkIds -> SUBSET RunIds]
               /\ \A k \in LinkIds : k # handler[w].link => used'[k] = used[k]
    <2>1. used' = [used EXCEPT ![handler[w].link] = @ \union ({handler[w].run} \cap {r \in RunIds : RunExists(r)})]
      BY <1>5 DEF SaveConversation
    <2>. QED BY <1>t, <2>1
  <1>6. ASSUME NEW f \in Flows, DeleteFlow(f)
        PROVE  used' \in [LinkIds -> SUBSET RunIds] /\ \A k \in LinkIds : used'[k] \subseteq used[k]
    BY <1>t, <1>6 DEF DeleteFlow
  <1>8. ASSUME NEW l \in LinkIds, DeleteLink(l)
        PROVE  used' = [used EXCEPT ![l] = {}]
    BY <1>8 DEF DeleteLink
  <1>9. ASSUME NEW w \in Workers, HandlerStep(w)
        PROVE  \/ used' = used
               \/ Reset(w) /\ Linked(handler[w].link)
               \/ KeepConversation(w) /\ w \notin stale
               \/ SaveConversation(w) /\ Linked(handler[w].link)
    BY <1>9 DEF HandlerStep, TakeUpdate, Reset, KeepConversation, NewConversation, NoConversation,
                LogConversation, SaveConversation, Reply, Launch, LogLaunch, PublishLaunch
  <1>10. ASSUME \/ \E q \in Requests : WriteLink(q)
                \/ \E q \in Requests, a \in Agents, c \in Chats, on \in BOOLEAN : LinkAgent(q, a, c, on)
                \/ \E a \in Agents : DeleteAgent(a)
                \/ UNCHANGED vars
         PROVE  used' = used
    BY <1>10 DEF WriteLink, LinkAgent, DeleteAgent, vars
  <1>11. ASSUME NEW w \in Workers, HandlerStep(w)
         PROVE  /\ used' \in [LinkIds -> SUBSET RunIds]
                /\ \A l \in LinkIds :
                     \/ used'[l] \subseteq used[l]
                     \/ handler[w].link = l /\ KeepConversation(w) /\ w \notin stale
                     \/ handler[w].link = l /\ SaveConversation(w) /\ Linked(l)
    <2>. HIDE DEF ChatInv
    <2>. QED BY <1>1, <1>3, <1>4, <1>5, <1>9, <1>11
  <1>. HIDE DEF ChatInv
  <1>. QED BY <1>1, <1>2, <1>6, <1>8, <1>10, <1>11, Steps

\* What a request is about to write.
LEMMA RequestsMove ==
  ASSUME ChatInv, [Next]_vars
  PROVE  \/ request' = request
         \/ \E q \in Requests : request' = [request EXCEPT ![q] = NoRequest]
         \/ \E q \in Requests, a \in Agents, c \in Chats, on \in BOOLEAN : LinkAgent(q, a, c, on)
  BY Steps DEF HandlerStep, TakeUpdate, Reset, KeepConversation, NewConversation, NoConversation,
       LogConversation, SaveConversation, Reply, Launch, LogLaunch, PublishLaunch, WriteLink,
       DeleteLink, DeleteAgent, DeleteFlow, vars

\* A link that is to be written is one of the agent's own.
LEMMA LinkIsRead ==
  ASSUME ChatInv, NEW q \in Requests, NEW a \in Agents, NEW c \in Chats, NEW on \in BOOLEAN, LinkAgent(q, a, c, on)
  PROVE  \E r \in RequestRows :
           /\ request' = [request EXCEPT ![q] = r]
           /\ r.agent = a /\ r.chat = c
           /\ r.conv # 0 => r.link \in LinkIds
           /\ r.link \in LinkIds => links[r.link].agent = a /\ r.conv = links[r.link].conv
  <1>l. PICK l : l = LinkOfAgent(a)
    OBVIOUS
  <1>r. PICK r : r = [pc |-> "write", link |-> l, agent |-> a, chat |-> c,
                      conv |-> IF l = 0 THEN 0 ELSE links[l].conv, active |-> on]
    OBVIOUS
  <1>1. request' = [request EXCEPT ![q] = r]
    BY <1>l, <1>r DEF LinkAgent
  <1>2. l = 0 \/ (l \in LinkIds /\ links[l].agent = a)
    BY <1>l, Found DEF ActiveLinks
  <1>3. l = 0 \/ links[l].conv \in 0 .. MaxRuns
    BY <1>2 DEF ChatInv, Typed, LinkRows
  <1>4. r \in RequestRows
    BY <1>r, <1>2, <1>3, Numbers DEF RequestRows, LinkIds
  <1>5. 0 \notin LinkIds
    BY Numbers DEF LinkIds
  <1>. QED BY <1>r, <1>1, <1>2, <1>4, <1>5

\* The readings that are outdated.
LEMMA StaleMove ==
  ASSUME ChatInv, [Next]_vars
  PROVE  /\ stale' \subseteq Workers \union Requests
         /\ overwrites' = overwrites \/ overwrites' = overwrites + 1
  <1>t. stale \subseteq Workers \union Requests /\ overwrites \in Nat /\ Readers \subseteq Workers \union Requests
    BY DEF ChatInv, Typed, Readers
  <1>1. \/ UNCHANGED reads
        \/ PlainWrite
        \/ \E me : Read(me) \/ Write(me)
    BY Steps DEF HandlerStep, TakeUpdate, Reset, KeepConversation, NewConversation, NoConversation,
       LogConversation, SaveConversation, Reply, Launch, LogLaunch, PublishLaunch, WriteLink,
       LinkAgent, DeleteLink, DeleteAgent, DeleteFlow, vars
  <1>2. /\ stale' = stale \/ stale' \subseteq Readers \/ stale' \subseteq stale
        /\ overwrites' = overwrites \/ overwrites' = overwrites + 1
    BY <1>t, <1>1 DEF reads, PlainWrite, Read, Write
  <1>. QED BY <1>t, <1>2

\* Every step keeps the types.
LEMMA TypedKept ==
  ASSUME ChatInv, [Next]_vars
  PROVE  Typed'
  <1>t. Typed
    BY DEF ChatInv
  <1>1. links' \in [LinkIds -> LinkRows] /\ agents' \subseteq Agents
    <2>1. ASSUME NEW l, NEW row, Puts(l, row) PROVE links' \in [LinkIds -> LinkRows] /\ agents' \subseteq Agents
      BY <1>t, <2>1 DEF Puts, Typed
    <2>. QED BY <1>t, <2>1, LinksMove, NoRows DEF Typed
  <1>2. handler' \in [Workers -> HandlerRows]
    <2>1. handler' = handler \/ \E w \in Workers : \E h : Moves(w, h)
      BY Steps, HandlersMove DEF WriteLink, LinkAgent, DeleteLink, DeleteAgent, DeleteFlow, vars
    <2>. QED BY <1>t, <2>1 DEF Moves, HandlerMoves, Typed
  <1>3. request' \in [Requests -> RequestRows]
    <2>1. ASSUME NEW q \in Requests, NEW a \in Agents, NEW c \in Chats, NEW on \in BOOLEAN, LinkAgent(q, a, c, on)
          PROVE  request' \in [Requests -> RequestRows]
      BY <1>t, <2>1, LinkIsRead DEF Typed
    <2>. QED BY <1>t, <2>1, RequestsMove, NoRows DEF Typed
  <1>4. flows' \subseteq Flows
    BY <1>t, Steps DEF Typed, HandlerStep, TakeUpdate, Reset, KeepConversation, NewConversation, NoConversation,
       LogConversation, SaveConversation, Reply, Launch, LogLaunch, PublishLaunch, WriteLink,
       LinkAgent, DeleteLink, DeleteAgent, DeleteFlow, vars, rows
  <1>5. overwrites' \in Nat
    BY <1>t, StaleMove DEF Typed
  <1>. QED BY <1>1, <1>2, <1>3, <1>4, <1>5, RunsMove, UsedMove, StaleMove DEF Typed

\* The runs that links, requests and workers name stay created.
LEMMA RunsKept ==
  ASSUME ChatInv, [Next]_vars
  PROVE  Runs'
  <1>t. Typed /\ Runs
    BY DEF ChatInv
  <1>r. /\ \A r \in RunIds : runs[r] # NoRun => runs'[r] # NoRun
        /\ \A r \in RunIds : runs'[r].queued => RunExists(r)' /\ runs'[r].logged
    BY RunsMove
  <1>n. \A n \in 0 .. MaxRuns : n # 0 => n \in RunIds
    BY Numbers DEF RunIds
  <1>1. \A l \in LinkIds : links'[l].conv # 0 => links'[l].conv \in RunIds /\ runs[links'[l].conv] # NoRun
    <2>0. \A l \in LinkIds : links[l].conv # 0 => links[l].conv \in RunIds /\ runs[links[l].conv] # NoRun
      BY <1>t, <1>n DEF Typed, LinkRows, Runs
    <2>1. ASSUME NEW l, NEW row, Puts(l, row) 
          PROVE  \A k \in LinkIds : links'[k].conv # 0 => links'[k].conv \in RunIds /\ runs[links'[k].conv] # NoRun
      <3>1. row.conv # 0 => row.conv \in RunIds /\ runs[row.conv] # NoRun
        BY <1>n, <2>1 DEF Puts, LinkRows
      <3>2. \A k \in LinkIds : links'[k] = IF k = l THEN row ELSE links[k]
        BY <1>t, <2>1 DEF Puts, Typed
      <3>. QED BY <2>0, <3>1, <3>2
    <2>. QED BY <1>t, <2>0, <2>1, LinksMove, NoRows DEF Typed
  <1>2. \A q \in Requests : request'[q].conv # 0 => request'[q].conv \in RunIds /\ runs[request'[q].conv] # NoRun
    <2>0. \A q \in Requests : request[q].conv # 0 => request[q].conv \in RunIds /\ runs[request[q].conv] # NoRun
      BY <1>t, <1>n DEF Typed, RequestRows, Runs
    <2>1. ASSUME NEW q \in Requests, NEW a \in Agents, NEW c \in Chats, NEW on \in BOOLEAN, LinkAgent(q, a, c, on)
          PROVE  \A p \in Requests : request'[p].conv # 0 => request'[p].conv \in RunIds /\ runs[request'[p].conv] # NoRun
      <3>1. PICK r \in RequestRows :
              /\ request' = [request EXCEPT ![q] = r]
              /\ r.conv # 0 => r.link \in LinkIds
              /\ r.link \in LinkIds => r.conv = links[r.link].conv
        BY <2>1, LinkIsRead
      <3>2. r.conv # 0 => r.conv \in RunIds /\ runs[r.conv] # NoRun
        BY <1>t, <1>n, <3>1 DEF Runs, RequestRows
      <3>. QED BY <1>t, <2>0, <3>1, <3>2 DEF Typed
    <2>. QED BY <1>t, <2>0, <2>1, RequestsMove, NoRows DEF Typed
  <1>3. \A w \in Workers : handler'[w].run # 0 => handler'[w].run \in RunIds /\ runs'[handler'[w].run] # NoRun
    <2>0. \A w \in Workers : handler[w].run # 0 => handler[w].run \in RunIds /\ runs'[handler[w].run] # NoRun
      BY <1>t, <1>r, <1>n DEF Typed, HandlerRows, Runs
    <2>1. ASSUME NEW w \in Workers, HandlerStep(w)
          PROVE  handler'[w].run # 0 => handler'[w].run \in RunIds /\ runs'[handler'[w].run] # NoRun
      <3>0. Idle.run = 0
        BY NoRows
      <3>a. \A row \in HandlerRows : \A l : [row EXCEPT !.pc = l].run = row.run
        BY DEF HandlerRows
      <3>1. ASSUME NEW r \in RunIds, runs'[r] # NoRun, handler' = [handler EXCEPT ![w] = Replying(r)]
            PROVE  handler'[w].run # 0 => handler'[w].run \in RunIds /\ runs'[handler'[w].run] # NoRun
        <4>1. Replying(r).run = r
          BY DEF Replying, Idle
        <4>. QED BY <1>t, <3>1, <4>1 DEF Typed
      <3>2. CASE Finish(w)
        BY <1>t, <3>0, <3>2 DEF Finish, Typed
      <3>3. ASSUME NEW kind \in {"conversation", "launched"}, NEW flow, NEW label, NewRun(w, kind, flow, label)
            PROVE  handler'[w].run # 0 => handler'[w].run \in RunIds /\ runs'[handler'[w].run] # NoRun
        <4>r. PICK r \in RunIds : r = Min(FreeRuns)
          BY <3>3, Found DEF NewRun, FreeRuns
        <4>n. PICK row : row = [NoRun EXCEPT !.kind = kind, !.flow = flow]
          OBVIOUS
        <4>h. PICK h : h = [handler[w] EXCEPT !.pc = label, !.run = r, !.conv = 0]
          OBVIOUS
        <4>1. row.kind = kind /\ row # NoRun
          BY <4>n, NoRows DEF NoRun
        <4>2. runs' = [runs EXCEPT ![r] = row] /\ handler' = [handler EXCEPT ![w] = h]
          BY <3>3, <4>r, <4>n, <4>h, <1>t DEF NewRun, Typed
        <4>3. h.run = r
          BY <1>t, <4>h DEF Typed, HandlerRows
        <4>. QED BY <1>t, <4>1, <4>2, <4>3 DEF Typed
      <3>4. CASE \E l : GoTo(w, l)
        BY <1>t, <2>0, <3>4, <3>a DEF GoTo, Typed
      <3>5. ASSUME NEW c \in Chats, NEW kind \in Kinds, TakeUpdate(w, c, kind)
            PROVE  handler'[w].run = 0
        BY <1>t, <3>5 DEF TakeUpdate, Typed
      <3>6. CASE KeepConversation(w)
        <4>1. handler[w].conv \in RunIds /\ runs'[handler[w].conv] # NoRun
          BY <1>r, <3>6, NoRows DEF KeepConversation, Continues, RunExists
        <4>. QED BY <3>1, <3>6, <4>1 DEF KeepConversation
      <3>7. CASE SaveConversation(w)
        <4>1. handler[w].run # 0
          BY <3>7 DEF ChatInv, Shaped, SaveConversation, At
        <4>. QED BY <2>0, <3>1, <3>2, <3>7, <4>1 DEF SaveConversation
      <3>8. CASE LogLaunch(w)
        BY <2>0, <3>8 DEF LogLaunch
      <3>9. CASE Launch(w) \/ NewConversation(w)
        BY <3>2, <3>3, <3>9 DEF Launch, NewConversation
      <3>10. CASE LogConversation(w)
        BY <3>2, <3>4, <3>10 DEF LogConversation
      <3>11. CASE Reset(w) \/ NoConversation(w) \/ Reply(w) \/ PublishLaunch(w)
        BY <3>2, <3>11 DEF Reset, NoConversation, Reply, PublishLaunch
      <3>. QED BY <2>1, <3>5, <3>6, <3>7, <3>8, <3>9, <3>10, <3>11 DEF HandlerStep
    <2>2. ASSUME NEW w \in Workers, HandlerStep(w)
          PROVE  \A p \in Workers : p # w => handler'[p] = handler[p]
      BY <1>t, <2>2, HandlersMove DEF Moves, HandlerMoves, Typed
    <2>3. \/ handler' = handler
          \/ \E w \in Workers : HandlerStep(w)
      BY Steps DEF WriteLink, LinkAgent, DeleteLink, DeleteAgent, DeleteFlow, vars
    <2>. QED BY <2>0, <2>1, <2>2, <2>3
  <1>. QED BY <1>r, <1>1, <1>2, <1>3 DEF Runs

\* Links keep their agent and chat, and those that are gone their empty counts.
LEMMA ShapedKept ==
  ASSUME ChatInv, [Next]_vars
  PROVE  Shaped'
  <1>t. Typed /\ Shaped
    BY DEF ChatInv
  <1>c. NoChat \notin Chats
    BY ConversationAssumption
  <1>1. \A l \in LinkIds : Linked(l)' => links'[l].agent \in agents' /\ links'[l].chat \in Chats
    <2>1. ASSUME NEW l, NEW row, Puts(l, row)
          PROVE  \A k \in LinkIds : Linked(k)' => links'[k].agent \in agents' /\ links'[k].chat \in Chats
      BY <1>t, <2>1 DEF Puts, Typed, Shaped, Linked
    <2>2. ASSUME NEW l \in LinkIds, links' = [links EXCEPT ![l] = NoLink], agents' = agents
          PROVE  \A k \in LinkIds : Linked(k)' => links'[k].agent \in agents' /\ links'[k].chat \in Chats
      BY <1>t, <2>2 DEF Typed, Shaped, Linked
    <2>3. ASSUME NEW a \in Agents, agents' = agents \ {a}, links' = links, Deletable(a)
          PROVE  \A k \in LinkIds : Linked(k)' => links'[k].agent \in agents' /\ links'[k].chat \in Chats
      BY <1>t, <2>3 DEF Shaped, Linked, Deletable
    <2>4. ASSUME links' = links, agents' = agents
          PROVE  \A k \in LinkIds : Linked(k)' => links'[k].agent \in agents' /\ links'[k].chat \in Chats
      BY <1>t, <2>4 DEF Shaped, Linked
    <2>. QED BY <2>1, <2>2, <2>3, <2>4, LinksMove
  <1>2. \A l \in LinkIds : ~Linked(l)' => used'[l] = {}
    <2>0. used \in [LinkIds -> SUBSET RunIds]
      BY <1>t DEF Typed
    <2>1. \A l \in LinkIds : ~Linked(l) => used'[l] = {}
      <3>1. ASSUME NEW w \in Workers, KeepConversation(w), w \notin stale
            PROVE  Linked(handler[w].link)
        <4>1. FreshHandler(w)
          BY <3>1 DEF ChatInv, Fresh, KeepConversation, At, Reading
        <4>. QED BY <4>1, NoRows DEF FreshHandler, Linked
      <3>. QED BY <1>t, <3>1, UsedMove DEF Shaped
    <2>2. ASSUME NEW l, NEW row, Puts(l, row)
          PROVE  \A k \in LinkIds : Linked(k) => Linked(k)'
      <3>1. row # NoLink
        BY <1>c, <2>2, NoRows DEF Puts
      <3>. QED BY <1>t, <2>2, <3>1 DEF Puts, Typed, Linked
    <2>3. CASE links' = links
      BY <2>1, <2>3 DEF Linked
    <2>4. ASSUME NEW l \in LinkIds, links' = [links EXCEPT ![l] = NoLink], used' = [used EXCEPT ![l] = {}]
          PROVE  \A k \in LinkIds : ~Linked(k)' => used'[k] = {}
      BY <1>t, <2>0, <2>1, <2>4 DEF Linked, Typed
    <2>. QED BY <2>1, <2>2, <2>3, <2>4, LinksMove
  <1>3. \A w \in Workers :
          /\ handler'[w].pc \in Reading \union Pipelines => handler'[w].link \in LinkIds /\ handler'[w].chat \in Chats
          /\ handler'[w].pc \in {"log", "save", "reply", "queue"} <=> handler'[w].run # 0
    <2>1. handler' = handler \/ \E w \in Workers : \E h : Moves(w, h)
      BY Steps, HandlersMove DEF WriteLink, LinkAgent, DeleteLink, DeleteAgent, DeleteFlow, vars
    <2>2. ASSUME NEW w \in Workers, NEW h, Moves(w, h)
          PROVE  \A p \in Workers : handler'[p] = IF p = w THEN h ELSE handler[p]
      BY <1>t, <2>2 DEF Moves, HandlerMoves, Typed
    <2>. QED BY <1>t, <2>1, <2>2 DEF Shaped, Moves
  <1>4. \A q \in Requests : request'[q].pc = "write" => request'[q].agent \in Agents /\ request'[q].chat \in Chats
    <2>1. ASSUME NEW q \in Requests, NEW a \in Agents, NEW c \in Chats, NEW on \in BOOLEAN, LinkAgent(q, a, c, on)
          PROVE  \A p \in Requests : request'[p].pc = "write" => request'[p].agent \in Agents /\ request'[p].chat \in Chats
      BY <1>t, <2>1, LinkIsRead DEF Typed, Shaped
    <2>. QED BY <1>t, <2>1, RequestsMove, NoRows DEF Typed, Shaped
  <1>. QED BY <1>1, <1>2, <1>3, <1>4 DEF Shaped

-----------------------------------------------------------------------------
\* What a reading says of the links holds until somebody writes one.

\* A run that is not there any more does not come back, unless it never was.
LEMMA GoneStaysGone ==
  ASSUME ChatInv, [Next]_vars, NEW l \in LinkIds, ~Continues(links[l].conv)
  PROVE  ~Continues(links[l].conv)'  \/ links' # links
  <1>1. SUFFICES ASSUME links' = links, RunExists(links[l].conv)' PROVE FALSE
    BY DEF Continues
  <1>2. links[l].conv \in RunIds /\ runs'[links[l].conv].kind \notin {"none", "deleted"}
    BY <1>1 DEF RunExists
  <1>3. links[l].conv # 0
    BY <1>2, Numbers DEF RunIds
  <1>4. runs[links[l].conv] # NoRun
    BY <1>3 DEF ChatInv, Runs
  <1>5. RunExists(links[l].conv)
    <2>1. \A r \in RunIds : runs'[r].kind \notin {"none", "deleted"} => RunExists(r) \/ runs[r] = NoRun
      BY RunsMove DEF RunExists
    <2>. QED BY <1>2, <1>4, <2>1
  <1>. QED BY <1>5 DEF Continues

\* While no link is written, a worker that does not move reads what it has read.
LEMMA HandlerStaysFresh ==
  ASSUME ChatInv, [Next]_vars, links' = links, NEW w \in Workers, w \notin stale, handler'[w] = handler[w],
         handler[w].pc \in Reading
  PROVE  FreshHandler(w)'
  <1>1. FreshHandler(w) /\ handler[w].link \in LinkIds
    BY DEF ChatInv, Fresh, Shaped
  <1>2. \A l \in LinkIds : ~Continues(links[l].conv) => ~Continues(links[l].conv)'
    BY GoneStaysGone
  <1>3. ~Continues(links[handler[w].link].conv) => ~Continues(links[handler[w].link].conv)'
    <2>1. PICK l \in LinkIds : l = handler[w].link
      BY <1>1
    <2>2. l = handler'[w].link
      BY <2>1
    <2>. QED BY <1>2, <2>1, <2>2 DEF Continues, RunExists
  <1>. QED BY <1>1, <1>3 DEF FreshHandler

\* So does a request.
LEMMA RequestStaysFresh ==
  ASSUME ChatInv, [Next]_vars, links' = links, NEW q \in Requests, q \notin stale, request'[q] = request[q],
         request[q].pc = "write"
  PROVE  FreshRequest(q)'
  <1>1. FreshRequest(q)
    BY DEF ChatInv, Fresh
  <1>2. \A c : LinksOfChat(c)' = LinksOfChat(c)
    BY DEF LinksOfChat, ActiveLinks
  <1>. QED BY <1>1, <1>2 DEF FreshRequest, MayLink, LinksOfChat, ActiveLinks

\* A step that writes no link leaves the others' readings fresh.
LEMMA OthersStayFresh ==
  ASSUME ChatInv, [Next]_vars, links' = links, NEW me, stale \ {me} \subseteq stale',
         \A w \in Workers : w # me => handler'[w] = handler[w],
         \A q \in Requests : q # me => request'[q] = request[q],
         me \in Workers \ stale' /\ handler'[me].pc \in Reading => FreshHandler(me)',
         me \in Requests \ stale' /\ request'[me].pc = "write" => FreshRequest(me)'
  PROVE  Fresh'
  <1>1. ASSUME NEW w \in Workers, w \notin stale', handler'[w].pc \in Reading, w # me
        PROVE  FreshHandler(w)'
    BY <1>1, HandlerStaysFresh
  <1>2. ASSUME NEW w \in Workers, w \notin stale', handler'[w].pc \in Reading, w = me
        PROVE  FreshHandler(w)'
    BY <1>2
  <1>3. ASSUME NEW q \in Requests, q \notin stale', request'[q].pc = "write", q # me
        PROVE  FreshRequest(q)'
    BY <1>3, RequestStaysFresh
  <1>4. ASSUME NEW q \in Requests, q \notin stale', request'[q].pc = "write", q = me
        PROVE  FreshRequest(q)'
    BY <1>4
  <1>. QED BY <1>1, <1>2, <1>3, <1>4 DEF Fresh

\* A write leaves nobody with a fresh reading.
LEMMA WritesOutdate ==
  ASSUME ChatInv, NEW me, Readers \ {me} \subseteq stale',
         \A w \in Workers : w # me => handler'[w] = handler[w],
         \A q \in Requests : q # me => request'[q] = request[q],
         me \in Workers => handler'[me].pc \notin Reading,
         me \in Requests => request'[me].pc # "write"
  PROVE  Fresh'
  <1>1. \A w \in Workers \ stale' : handler'[w].pc \notin Reading
    BY DEF Readers, Reading
  <1>2. \A q \in Requests \ stale' : request'[q].pc # "write"
    BY DEF Readers
  <1>. QED BY <1>1, <1>2 DEF Fresh

\* Nobody's reading, nor any link, changes, or every reading is outdated.
LEMMA DeletionsKeepFresh ==
  ASSUME ChatInv, [Next]_vars, UNCHANGED <<handler, request>>,
         PlainWrite \/ UNCHANGED <<links, stale>>
  PROVE  Fresh'
  <1>1. CASE PlainWrite
    <2>1. \A w \in Workers \ stale' : handler'[w].pc \notin Reading
      BY <1>1 DEF PlainWrite, Readers, Reading
    <2>2. \A q \in Requests \ stale' : request'[q].pc # "write"
      BY <1>1 DEF PlainWrite, Readers
    <2>. QED BY <2>1, <2>2 DEF Fresh
  <1>2. CASE UNCHANGED <<links, stale>>
    <2>1. ASSUME NEW w \in Workers, w \notin stale', handler'[w].pc \in Reading
          PROVE  FreshHandler(w)'
      BY <1>2, <2>1, HandlerStaysFresh
    <2>2. ASSUME NEW q \in Requests, q \notin stale', request'[q].pc = "write"
          PROVE  FreshRequest(q)'
      BY <1>2, <2>2, RequestStaysFresh
    <2>. QED BY <2>1, <2>2 DEF Fresh
  <1>. QED BY <1>1, <1>2

\* A worker's step changes its own update only.
LEMMA OthersWait ==
  ASSUME ChatInv, NEW w \in Workers, HandlerStep(w)
  PROVE  /\ \A p \in Workers : p # w => handler'[p] = handler[p]
         /\ request' = request /\ w \notin Requests
  <1>1. \A p \in Workers : p # w => handler'[p] = handler[p]
    BY HandlersMove DEF Moves, HandlerMoves, ChatInv, Typed
  <1>2. request' = request
    BY DEF HandlerStep, TakeUpdate, Reset, KeepConversation, NewConversation, NoConversation,
       LogConversation, SaveConversation, Reply, Launch, LogLaunch, PublishLaunch
  <1>. QED BY <1>1, <1>2, ConversationAssumption

\* The steps of a worker.
LEMMA HandlersKeepFresh ==
  ASSUME ChatInv, NEW w \in Workers, HandlerStep(w), [Next]_vars
  PROVE  Fresh'
  <1>t. Typed
    BY DEF ChatInv
  <1>o. /\ \A p \in Workers : p # w => handler'[p] = handler[p]
        /\ request' = request /\ w \notin Requests
    BY OthersWait
  <1>f. \A h : handler' = [handler EXCEPT ![w] = h] => handler'[w] = h
    BY <1>t DEF Typed
  <1>i. Idle.pc = "idle" /\ \A r : Replying(r).pc = "reply"
    BY NoRows DEF Replying, Idle
  <1>s. CASE /\ links' = links /\ stale \ {w} \subseteq stale'
             /\ handler'[w].pc \notin Reading
    BY <1>o, <1>s, OthersStayFresh
  <1>w. CASE Write(w) /\ handler'[w].pc \notin Reading
    BY <1>o, <1>w, WritesOutdate DEF Write
  <1>1. ASSUME NEW c \in Chats, NEW kind \in Kinds, TakeUpdate(w, c, kind)
        PROVE  Fresh'
    <2>1. PICK l \in LinksOfChat(c) : handler' = [handler EXCEPT ![w] =
             [pc |-> kind, link |-> l, chat |-> c, conv |-> links[l].conv, run |-> 0]]
      BY <1>1 DEF TakeUpdate
    <2>2. links' = links /\ stale' = stale \ {w} /\ links[l].active /\ links[l].chat = c
      BY <1>1, <2>1 DEF TakeUpdate, Read, rows, LinksOfChat, ActiveLinks
    <2>3. handler'[w] = [pc |-> kind, link |-> l, chat |-> c, conv |-> links[l].conv, run |-> 0]
      BY <2>1, <1>f
    <2>4. FreshHandler(w)'
      BY <2>2, <2>3, PipelineNames DEF FreshHandler, Kinds
    <2>. QED BY <1>o, <2>2, <2>4, OthersStayFresh
  <1>2. CASE NewConversation(w)
    <2>1. PICK f \in ConversationFlow : NewRun(w, "conversation", f, "log")
      BY <1>2 DEF NewConversation
    <2>h. PICK h : h = [handler[w] EXCEPT !.pc = "log", !.run = Min(FreeRuns), !.conv = 0]
      OBVIOUS
    <2>2. /\ handler' = [handler EXCEPT ![w] = h]
          /\ links' = links /\ stale' = stale /\ handler[w].pc = "chat" /\ ~Continues(handler[w].conv)
      BY <1>2, <1>t, <2>1, <2>h DEF NewConversation, NewRun, reads, At, Typed
    <2>3. handler'[w] = h
      BY <2>2, <1>f
    <2>4. h.pc = "log" /\ h.link = handler[w].link /\ h.chat = handler[w].chat
      BY <1>t, <2>h DEF Typed, HandlerRows
    <2>5. ASSUME w \notin stale' PROVE FreshHandler(w)'
      <3>1. FreshHandler(w) /\ handler[w].link \in LinkIds
        BY <2>2, <2>5 DEF ChatInv, Fresh, Shaped, Reading
      <3>2. PICK l \in LinkIds : l = handler[w].link
        BY <3>1
      <3>3. links[l].active /\ links[l].chat = handler[w].chat /\ ~Continues(links[l].conv)
        BY <2>2, <3>1, <3>2 DEF FreshHandler
      <3>4. ~Continues(links[l].conv)'
        BY <2>2, <3>3, GoneStaysGone
      <3>5. handler'[w].link = l /\ handler'[w].chat = handler[w].chat /\ handler'[w].pc = "log"
        BY <2>3, <2>4, <3>2
      <3>. QED BY <2>2, <3>3, <3>4, <3>5 DEF FreshHandler, Continues, RunExists
    <2>. QED BY <1>o, <2>2, <2>5, OthersStayFresh
  <1>3. CASE LogConversation(w)
    <2>1. links' = links /\ stale' = stale /\ runs' = runs /\ handler[w].pc = "log"
      BY <1>3 DEF LogConversation, rows, reads, At
    <2>2. CASE Finish(w)
      BY <1>f, <1>i, <1>s, <2>1, <2>2 DEF Finish, Reading
    <2>3. CASE GoTo(w, "save")
      <3>h. PICK h : h = [handler[w] EXCEPT !.pc = "save"]
        OBVIOUS
      <3>1. handler' = [handler EXCEPT ![w] = h]
        BY <1>t, <2>3, <3>h DEF GoTo, Typed
      <3>2. handler'[w] = h
        BY <3>1, <1>f
      <3>3. h.pc = "save" /\ h.link = handler[w].link /\ h.chat = handler[w].chat
        BY <1>t, <3>h DEF Typed, HandlerRows
      <3>4. ASSUME w \notin stale' PROVE FreshHandler(w)'
        <4>1. FreshHandler(w)
          BY <2>1, <3>4 DEF ChatInv, Fresh, Reading
        <4>. QED BY <2>1, <3>2, <3>3, <4>1 DEF FreshHandler, Continues, RunExists
      <3>. QED BY <1>o, <2>1, <3>4, OthersStayFresh
    <2>. QED BY <1>3, <2>2, <2>3 DEF LogConversation
  <1>4. CASE Reset(w)
    <2>1. handler'[w].pc \notin Reading
      BY <1>4, <1>f, <1>i DEF Reset, Finish, Reading
    <2>. QED BY <1>4, <2>1, <1>s, <1>w DEF Reset, reads
  <1>5. CASE SaveConversation(w)
    <2>1. handler'[w].pc \notin Reading
      BY <1>5, <1>f, <1>i DEF SaveConversation, Finish, Reading
    <2>. QED BY <1>5, <2>1, <1>s, <1>w DEF SaveConversation, reads
  <1>6. CASE KeepConversation(w)
    <2>1. handler'[w].pc \notin Reading
      BY <1>6, <1>f, <1>i DEF KeepConversation, Reading
    <2>. QED BY <1>6, <2>1, <1>s DEF KeepConversation, Read, rows
  <1>7. CASE Launch(w)
    <2>1. CASE Finish(w)
      BY <1>7, <2>1, <1>f, <1>i, <1>s DEF Launch, Finish, Reading, reads
    <2>2. CASE NewRun(w, "launched", handler[w].pc, "queue")
      <3>h. PICK h : h = [handler[w] EXCEPT !.pc = "queue", !.run = Min(FreeRuns), !.conv = 0]
        OBVIOUS
      <3>1. handler' = [handler EXCEPT ![w] = h]
        BY <1>t, <2>2, <3>h DEF NewRun, Typed
      <3>2. h.pc = "queue"
        BY <1>t, <3>h DEF Typed, HandlerRows
      <3>3. handler'[w].pc \notin Reading
        BY <1>f, <3>1, <3>2 DEF Reading
      <3>. QED BY <1>7, <1>s, <3>3 DEF Launch, reads
    <2>. QED BY <1>7, <2>1, <2>2 DEF Launch
  <1>8. CASE LogLaunch(w)
    BY <1>8, <1>s DEF LogLaunch, At, Reading, reads
  <1>9. CASE NoConversation(w) \/ Reply(w) \/ PublishLaunch(w)
    <2>1. handler'[w].pc \notin Reading /\ links' = links /\ stale' = stale
      BY <1>9, <1>f, <1>i DEF NoConversation, Reply, PublishLaunch, Finish, Reading, rows, reads
    <2>. QED BY <2>1, <1>s
  <1>. QED BY <1>1, <1>2, <1>3, <1>4, <1>5, <1>6, <1>7, <1>8, <1>9 DEF HandlerStep

\* Every step keeps the readings that nothing has outdated.
LEMMA FreshKept ==
  ASSUME ChatInv, [Next]_vars
  PROVE  Fresh'
  <1>t. Typed
    BY DEF ChatInv
  <1>1. ASSUME NEW q \in Requests, WriteLink(q) PROVE Fresh'
    <2>1. /\ handler' = handler /\ q \notin Workers
          /\ \A p \in Requests : request'[p] = IF p = q THEN NoRequest ELSE request[p]
      BY <1>t, <1>1, ConversationAssumption DEF WriteLink, Typed
    <2>2. request'[q].pc # "write"
      BY <2>1, NoRows
    <2>3. CASE Write(q)
      BY <2>1, <2>2, <2>3, WritesOutdate DEF Write
    <2>4. CASE UNCHANGED <<links, reads>>
      BY <2>1, <2>2, <2>4, OthersStayFresh DEF reads
    <2>. QED BY <1>1, <2>3, <2>4 DEF WriteLink
  <1>2. ASSUME NEW q \in Requests, NEW a \in Agents, NEW c \in Chats, NEW on \in BOOLEAN, LinkAgent(q, a, c, on)
        PROVE  Fresh'
    <2>1. PICK r \in RequestRows :
              /\ request' = [request EXCEPT ![q] = r]
              /\ r.agent = a /\ r.chat = c
              /\ r.link \in LinkIds => links[r.link].agent = a /\ r.conv = links[r.link].conv
      BY <1>2, LinkIsRead
    <2>2. /\ handler' = handler /\ links' = links /\ stale' = stale \ {q} /\ MayLink(a, c) /\ q \notin Workers
          /\ \A p \in Requests : request'[p] = IF p = q THEN r ELSE request[p]
      BY <1>t, <1>2, <2>1, ConversationAssumption DEF LinkAgent, Read, Typed, rows
    <2>3. r.link # 0 => r.link \in LinkIds
      BY Numbers DEF RequestRows, LinkIds
    <2>4. \A x, y : MayLink(x, y)' <=> MayLink(x, y)
      BY <2>2 DEF MayLink, LinksOfChat, ActiveLinks
    <2>5. FreshRequest(q)'
      BY <2>1, <2>2, <2>3, <2>4 DEF FreshRequest, MayLink, LinksOfChat, ActiveLinks
    <2>. QED BY <2>2, <2>5, OthersStayFresh
  <1>3. CASE \/ \E l \in LinkIds : DeleteLink(l)
             \/ \E a \in Agents : DeleteAgent(a)
             \/ \E f \in Flows : DeleteFlow(f)
             \/ UNCHANGED vars
    <2>1. UNCHANGED <<handler, request>> /\ (PlainWrite \/ UNCHANGED <<links, stale>>)
      BY <1>3 DEF DeleteLink, DeleteAgent, DeleteFlow, vars, rows, reads
    <2>. QED BY <2>1, DeletionsKeepFresh
  <1>. QED BY <1>1, <1>2, <1>3, Steps, HandlersKeepFresh

-----------------------------------------------------------------------------
\* Agents and conversations are counted.

\* A run that goes is forgotten by every link.
LEMMA GoneRunsAreForgotten ==
  ASSUME ChatInv, [Next]_vars, NEW r \in RunIds, RunExists(r), NEW l \in LinkIds, r \in used'[l]
  PROVE  RunExists(r)'
  <1>t. Typed
    BY DEF ChatInv
  <1>1. ASSUME NEW f \in Flows, DeleteFlow(f) PROVE RunExists(r)'
    <2>1. /\ used'[l] = used[l] \ {k \in RunIds : runs[k].flow = f}
          /\ runs' = [k \in RunIds |-> IF runs[k].flow = f THEN Gone ELSE runs[k]]
      BY <1>1 DEF DeleteFlow
    <2>. QED BY <2>1 DEF RunExists
  <1>2. ASSUME NEW w \in Workers, NEW kind, NEW flow, NEW label, NewRun(w, kind, flow, label)
        PROVE  RunExists(r)'
    <2>1. runs[Min(FreeRuns)] = NoRun /\ Min(FreeRuns) \in RunIds
      BY <1>2, Found DEF NewRun, FreeRuns
    <2>2. runs'[r] = runs[r]
      BY <1>t, <1>2, <2>1, NoRows DEF NewRun, RunExists, Typed
    <2>. QED BY <2>2 DEF RunExists
  <1>3. ASSUME NEW w \in Workers, HandlerStep(w), LogLaunch(w) \/ PublishLaunch(w)
        PROVE  RunExists(r)'
    <2>1. \/ runs' = runs
          \/ runs' = [runs EXCEPT ![handler[w].run].logged = TRUE]
          \/ runs' = [runs EXCEPT ![handler[w].run].queued = TRUE]
      BY <1>3 DEF LogLaunch, PublishLaunch
    <2>2. PICK row \in RunRows : row = runs[r]
      BY <1>t DEF Typed
    <2>a. PICK one : one = [row EXCEPT !.logged = TRUE]
      OBVIOUS
    <2>b. PICK two : two = [row EXCEPT !.queued = TRUE]
      OBVIOUS
    <2>c. one.kind = row.kind /\ two.kind = row.kind
      BY <2>a, <2>b DEF RunRows
    <2>d. runs'[r] \in {row, one, two}
      BY <1>t, <2>1, <2>2, <2>a, <2>b DEF Typed
    <2>3. runs'[r].kind = runs[r].kind
      BY <2>2, <2>c, <2>d
    <2>. QED BY <2>3 DEF RunExists
  <1>4. ASSUME NEW w \in Workers, HandlerStep(w)
        PROVE  \/ runs' = runs \/ LogLaunch(w) \/ PublishLaunch(w)
               \/ \E kind, flow, label : NewRun(w, kind, flow, label)
    BY <1>4 DEF HandlerStep, TakeUpdate, Reset, KeepConversation, NewConversation, NoConversation, LogConversation,
                  SaveConversation, Reply, Launch, LogLaunch, PublishLaunch, rows
  <1>5. \/ runs' = runs \/ (\E w \in Workers : HandlerStep(w))
        \/ (\E f \in Flows : DeleteFlow(f))
    BY Steps DEF WriteLink, LinkAgent, DeleteLink, DeleteAgent, vars, rows
  <1>6. runs' = runs => RunExists(r)'
    BY DEF RunExists
  <1>. QED BY <1>1, <1>2, <1>3, <1>4, <1>5, <1>6

\* The count of the writes on outdated reads never falls.
LEMMA OverwritesMove ==
  ASSUME ChatInv, [Next]_vars
  PROVE  overwrites \in Nat /\ overwrites' \in Nat /\ overwrites <= overwrites'
  <1>1. overwrites \in Nat
    BY DEF ChatInv, Typed
  <1>. QED BY <1>1, StaleMove

\* A part of a set counts no more, and one more element counts one more.
LEMMA Fewer ==
  ASSUME NEW S, IsFiniteSet(S), NEW T \in SUBSET S, NEW n \in Nat, Cardinality(S) <= n, NEW m \in Nat, n <= m
  PROVE  Cardinality(T) <= m
  <1>1. Cardinality(S) \in Nat /\ Cardinality(T) <= Cardinality(S)
    BY FS_Subset, FS_CardinalityType
  <1>2. Cardinality(T) \in Nat
    BY FS_Subset, FS_CardinalityType
  <1>. QED BY <1>1, <1>2

LEMMA OneMore ==
  ASSUME NEW S, IsFiniteSet(S), NEW x, NEW T \in SUBSET (S \union {x}), NEW n \in Nat, Cardinality(S) <= n
  PROVE  Cardinality(T) <= n + 1
  <1>1. IsFiniteSet(S \union {x}) /\ Cardinality(S) \in Nat
    BY FS_AddElement, FS_CardinalityType
  <1>2. Cardinality(S \union {x}) <= n + 1
    BY <1>1, FS_AddElement
  <1>. QED BY <1>1, <1>2, Fewer

\* A chat has finitely many agents, a link finitely many runs.
LEMMA FiniteCounts ==
  ASSUME ChatInv
  PROVE  /\ \A c : IsFiniteSet(AgentsOfChat(c))
         /\ \A l \in LinkIds : IsFiniteSet(used[l])
  <1>1. ASSUME NEW c PROVE IsFiniteSet(AgentsOfChat(c))
    <2>. DEFINE f == [l \in LinksOfChat(c) |-> links[l].agent]
    <2>1. IsFiniteSet(LinksOfChat(c))
      <3>1. IsFiniteSet(1 .. MaxLinks) /\ LinksOfChat(c) \in SUBSET (1 .. MaxLinks)
        BY Numbers, FS_Interval DEF LinksOfChat, ActiveLinks, LinkIds
      <3>. QED BY <3>1, FS_Subset
    <2>2. f \in Surjection(LinksOfChat(c), AgentsOfChat(c))
      BY DEF Surjection, AgentsOfChat
    <2>. QED BY <2>1, <2>2, FS_Surjection
  <1>2. ASSUME NEW l \in LinkIds PROVE IsFiniteSet(used[l])
    <2>1. IsFiniteSet(1 .. MaxRuns) /\ used[l] \in SUBSET (1 .. MaxRuns)
      BY Numbers, FS_Interval DEF ChatInv, Typed, RunIds
    <2>. QED BY <2>1, FS_Subset
  <1>. QED BY <1>1, <1>2

\* Links that keep their chat, agent and whether they are active.
LEMMA AgentsStay ==
  ASSUME ChatInv, [Next]_vars,
         \A l \in LinkIds : links'[l].active => /\ links[l].active
                                                /\ links'[l].chat = links[l].chat
                                                /\ links'[l].agent = links[l].agent
  PROVE  AgentsCounted'
  <1>1. ASSUME NEW c \in Chats PROVE Cardinality(AgentsOfChat(c)') <= 1 + overwrites'
    <2>1. AgentsOfChat(c)' \in SUBSET AgentsOfChat(c)
      BY DEF AgentsOfChat, LinksOfChat, ActiveLinks
    <2>2. Cardinality(AgentsOfChat(c)) <= 1 + overwrites
      BY DEF ChatInv, Counted, AgentsCounted
    <2>3. 1 + overwrites \in Nat /\ 1 + overwrites' \in Nat /\ 1 + overwrites <= 1 + overwrites'
      BY OverwritesMove
    <2>. QED BY <2>1, <2>2, <2>3, FiniteCounts, Fewer
  <1>. QED BY <1>1 DEF AgentsCounted

\* A link that is written: with an agent that its chat has already, for a chat that has
\* none, or on an outdated read.
LEMMA AgentsOfRow ==
  ASSUME ChatInv, [Next]_vars, NEW k \in LinkIds, NEW row \in LinkRows, links' = [links EXCEPT ![k] = row],
         \/ overwrites' = overwrites + 1
         \/ row.active => LinksOfChat(row.chat) = {} \/ row.agent \in AgentsOfChat(row.chat)
  PROVE  AgentsCounted'
  <1>l. \A l \in LinkIds : links'[l] = IF l = k THEN row ELSE links[l]
    BY DEF ChatInv, Typed
  <1>1. ASSUME NEW c \in Chats PROVE Cardinality(AgentsOfChat(c)') <= 1 + overwrites'
    <2>n. /\ 1 + overwrites \in Nat /\ 1 + overwrites' \in Nat /\ 1 + overwrites <= 1 + overwrites'
          /\ overwrites \in Nat /\ overwrites' \in Nat
      BY OverwritesMove
    <2>f. IsFiniteSet(AgentsOfChat(c)) /\ Cardinality(AgentsOfChat(c)) <= 1 + overwrites
      BY FiniteCounts DEF ChatInv, Counted, AgentsCounted
    <2>1. AgentsOfChat(c)' \in SUBSET (AgentsOfChat(c) \union {row.agent})
      BY <1>l DEF AgentsOfChat, LinksOfChat, ActiveLinks
    <2>2. CASE overwrites' = overwrites + 1
      <3>1. Cardinality(AgentsOfChat(c)') <= (1 + overwrites) + 1
        BY <2>1, <2>n, <2>f, OneMore
      <3>. QED BY <2>2, <2>n, <3>1
    <2>3. CASE ~row.active \/ row.chat # c \/ row.agent \in AgentsOfChat(c)
      <3>1. AgentsOfChat(c)' \in SUBSET AgentsOfChat(c)
        <4>1. CASE row.agent \in AgentsOfChat(c)
          BY <2>1, <4>1
        <4>2. CASE ~row.active \/ row.chat # c
          BY <1>l, <4>2 DEF AgentsOfChat, LinksOfChat, ActiveLinks
        <4>. QED BY <2>3, <4>1, <4>2
      <3>. QED BY <2>n, <2>f, <3>1, Fewer
    <2>4. CASE row.chat = c /\ LinksOfChat(c) = {}
      <3>1. AgentsOfChat(c) = {}
        BY <2>4 DEF AgentsOfChat
      <3>2. Cardinality(AgentsOfChat(c)) <= 0
        BY <3>1, FS_EmptySet
      <3>3. Cardinality(AgentsOfChat(c)') <= 0 + 1
        BY <2>1, <2>f, <3>2, OneMore
      <3>4. Cardinality(AgentsOfChat(c)') \in Nat
        BY <2>1, <2>f, FS_AddElement, FS_Subset, FS_CardinalityType
      <3>. QED BY <2>n, <3>3, <3>4
    <2>. QED BY <2>2, <2>3, <2>4
  <1>. QED BY <1>1 DEF AgentsCounted

\* The messages of a link went to no other run than before, or one run has become another
\* one on an outdated read.
LEMMA ConversationsCounted ==
  ASSUME ChatInv, [Next]_vars,
         \A l \in LinkIds : \A r \in used'[l] : RunExists(r)',
         \A l \in LinkIds :
           \/ used'[l] \ {links'[l].conv} \subseteq used[l] \ {links[l].conv}
           \/ overwrites' = overwrites + 1 /\ used'[l] \ {links'[l].conv} \subseteq used[l]
  PROVE  RunsCounted'
  <1>1. ASSUME NEW l \in LinkIds PROVE Cardinality(used'[l] \ {links'[l].conv}) <= overwrites'
    <2>. DEFINE S == used[l] \ {links[l].conv}
                T == used'[l] \ {links'[l].conv}
    <2>n. overwrites \in Nat /\ overwrites' \in Nat /\ overwrites <= overwrites'
      BY OverwritesMove
    <2>f. IsFiniteSet(S) /\ Cardinality(S) <= overwrites
      BY FiniteCounts, FS_RemoveElement DEF ChatInv, Counted, RunsCounted
    <2>1. CASE T \subseteq S
      <3>. HIDE DEF S, T
      <3>1. Cardinality(T) <= overwrites'
        BY <2>1, <2>n, <2>f, Fewer
      <3>. QED BY <3>1 DEF T
    <2>2. CASE overwrites' = overwrites + 1 /\ T \subseteq used[l]
      <3>1. T \in SUBSET (S \union {links[l].conv})
        BY <2>2
      <3>. HIDE DEF S, T
      <3>2. Cardinality(T) <= overwrites + 1
        BY <2>n, <2>f, <3>1, OneMore
      <3>. QED BY <2>2, <3>2 DEF T
    <2>. QED BY <2>1, <2>2
  <1>. QED BY <1>1 DEF RunsCounted, RunExists

\* The conversations of links that keep their run, or have no messages.
LEMMA ConversationsStay ==
  ASSUME ChatInv, [Next]_vars,
         \A l \in LinkIds :
           \/ used'[l] = {}
           \/ used'[l] \subseteq used[l] /\ (links'[l].conv = links[l].conv \/ overwrites' = overwrites + 1)
  PROVE  RunsCounted'
  <1>1. \A l \in LinkIds : used[l] \subseteq RunIds
    BY DEF ChatInv, Typed
  <1>2. ASSUME NEW l \in LinkIds, NEW r \in used'[l] PROVE RunExists(r)'
    <2>1. r \in used[l]
      BY <1>2
    <2>2. r \in RunIds /\ RunExists(r)
      BY <1>1, <2>1 DEF ChatInv, Counted, RunsCounted
    <2>. QED BY <1>2, <2>2, GoneRunsAreForgotten
  <1>. QED BY <1>2, ConversationsCounted

\* What a write on a fresh read, and one on an outdated read, does to the count.
LEMMA WritesCount ==
  ASSUME ChatInv, NEW me, Write(me), me \in stale
  PROVE  overwrites' = overwrites + 1
  BY DEF Write

\* A reset forgets the run, and writes the chat that it has read.
LEMMA ResetCounts ==
  ASSUME ChatInv, [Next]_vars, NEW w \in Workers, Reset(w)
  PROVE  Counted'
  <1>t. Typed
    BY DEF ChatInv
  <1>1. CASE ~Linked(handler[w].link)
    <2>1. links' = links /\ used' = used
      BY <1>1 DEF Reset
    <2>. QED BY <2>1, AgentsStay, ConversationsStay DEF Counted
  <1>2. CASE Linked(handler[w].link)
    <2>h. PICK l \in LinkIds : l = handler[w].link
      BY DEF ChatInv, Shaped, Reset, At, Reading
    <2>1. /\ links' = [links EXCEPT ![l] = WithoutRun(links[l], handler[w])]
          /\ used' = [used EXCEPT ![l] = {}] /\ handler[w].chat \in Chats /\ Write(w)
      BY <1>2, <2>h, <1>t DEF Reset, Typed, ChatInv, Shaped, At, Reading
    <2>r. PICK row : row = WithoutRun(links[l], handler[w])
      OBVIOUS
    <2>2. row = [agent |-> links[l].agent, chat |-> handler[w].chat, active |-> links[l].active, conv |-> 0]
      BY <1>t, <2>1, <2>r, LinkRow DEF Typed
    <2>3. row \in LinkRows /\ row.agent = links[l].agent /\ row.chat = handler[w].chat
      BY <1>t, <2>1, <2>2, Numbers DEF Typed, LinkRows
    <2>4. links' = [links EXCEPT ![l] = row]
      BY <2>1, <2>r
    <2>5. w \notin stale => row.agent \in AgentsOfChat(row.chat)
      <3>1. w \notin stale => links[l].active /\ links[l].chat = handler[w].chat
        BY <2>h DEF ChatInv, Fresh, FreshHandler, Reset, At, Reading
      <3>. QED BY <2>3, <3>1 DEF AgentsOfChat, LinksOfChat, ActiveLinks
    <2>6. AgentsCounted'
      BY <2>1, <2>3, <2>4, <2>5, WritesCount, AgentsOfRow
    <2>7. \A k \in LinkIds : used'[k] = {} \/ (used'[k] = used[k] /\ links'[k] = links[k])
      BY <1>t, <2>1 DEF Typed
    <2>8. RunsCounted'
      BY <2>7, ConversationsStay
    <2>. QED BY <2>6, <2>8 DEF Counted
  <1>. QED BY <1>1, <1>2

\* A new conversation is saved where the last one is gone, unless the read is outdated.
LEMMA SaveCounts ==
  ASSUME ChatInv, [Next]_vars, NEW w \in Workers, SaveConversation(w)
  PROVE  Counted'
  <1>t. Typed
    BY DEF ChatInv
  <1>1. CASE ~Linked(handler[w].link)
    <2>1. links' = links /\ used' = used
      BY <1>1 DEF SaveConversation
    <2>. QED BY <2>1, AgentsStay, ConversationsStay DEF Counted
  <1>2. CASE Linked(handler[w].link)
    <2>h. PICK l \in LinkIds : l = handler[w].link
      BY DEF ChatInv, Shaped, SaveConversation, At, Reading
    <2>1. /\ links' = [links EXCEPT ![l] = WithRun(links[l], handler[w])]
          /\ used' = [used EXCEPT ![l] = @ \union ({handler[w].run} \cap {r \in RunIds : RunExists(r)})]
          /\ handler[w].chat \in Chats /\ runs' = runs /\ Write(w)
      BY <1>2, <2>h, <1>t DEF SaveConversation, Typed, ChatInv, Shaped, At, Reading
    <2>r. PICK row : row = WithRun(links[l], handler[w])
      OBVIOUS
    <2>2. row = [agent |-> links[l].agent, chat |-> handler[w].chat, active |-> links[l].active,
                 conv |-> handler[w].run]
      BY <1>t, <2>1, <2>r, LinkRow DEF Typed
    <2>3. row \in LinkRows /\ row.agent = links[l].agent /\ row.chat = handler[w].chat /\ row.conv = handler[w].run
      BY <1>t, <2>1, <2>2 DEF Typed, LinkRows, HandlerRows
    <2>4. links' = [links EXCEPT ![l] = row]
      BY <2>1, <2>r
    <2>5. w \notin stale => /\ links[l].active /\ links[l].chat = handler[w].chat
                            /\ ~RunExists(links[l].conv)
      BY <2>h DEF ChatInv, Fresh, FreshHandler, SaveConversation, At, Reading, Continues
    <2>6. w \notin stale => row.agent \in AgentsOfChat(row.chat)
      BY <2>3, <2>5 DEF AgentsOfChat, LinksOfChat, ActiveLinks
    <2>7. AgentsCounted'
      BY <2>1, <2>3, <2>4, <2>6, WritesCount, AgentsOfRow
    <2>8. \A k \in LinkIds : k # l => used'[k] = used[k] /\ links'[k] = links[k]
      BY <1>t, <2>1 DEF Typed
    <2>9. \A r \in used'[l] : r \in used[l] \/ (r = handler[w].run /\ RunExists(r))
      BY <1>t, <2>1 DEF Typed
    <2>10. \A k \in LinkIds : \A r \in used[k] : RunExists(r)
      BY DEF ChatInv, Counted, RunsCounted
    <2>11. \A k \in LinkIds : \A r \in used'[k] : RunExists(r)'
      BY <2>1, <2>8, <2>9, <2>10 DEF RunExists
    <2>12. links'[l].conv = handler[w].run
      BY <1>t, <2>3, <2>4 DEF Typed
    <2>13. w \notin stale => used'[l] \ {links'[l].conv} \subseteq used[l] \ {links[l].conv}
      BY <2>5, <2>9, <2>10, <2>12
    <2>14. used'[l] \ {links'[l].conv} \subseteq used[l]
      BY <2>9, <2>12
    <2>15. RunsCounted'
      BY <2>1, <2>8, <2>11, <2>13, <2>14, WritesCount, ConversationsCounted
    <2>. QED BY <2>7, <2>15 DEF Counted
  <1>. QED BY <1>1, <1>2

\* A request that links a chat found no other agent linked to it, unless its read is outdated.
LEMMA WriteCounts ==
  ASSUME ChatInv, [Next]_vars, NEW q \in Requests, WriteLink(q)
  PROVE  Counted'
  <1>t. Typed /\ used' = used
    BY DEF ChatInv, WriteLink
  <1>1. CASE links' = links
    BY <1>t, <1>1, AgentsStay, ConversationsStay DEF Counted
  <1>r. PICK r \in RequestRows : r = request[q] /\ r.chat \in Chats
    BY <1>t DEF Typed, ChatInv, Shaped, WriteLink
  <1>2. ASSUME q \notin stale
        PROVE  /\ LinksOfChat(r.chat) = {} \/ r.agent \in AgentsOfChat(r.chat)
               /\ r.link # 0 => links[r.link].agent = r.agent /\ links[r.link].conv = r.conv
    <2>1. FreshRequest(q)
      BY <1>2 DEF ChatInv, Fresh, WriteLink
    <2>2. MayLink(r.agent, r.chat) /\ (r.link # 0 => links[r.link].agent = r.agent /\ links[r.link].conv = r.conv)
      BY <1>r, <2>1 DEF FreshRequest
    <2>3. LinksOfChat(r.chat) = {} \/ r.agent \in AgentsOfChat(r.chat)
      BY <2>2 DEF MayLink, AgentsOfChat
    <2>. QED BY <2>2, <2>3
  <1>3. CASE r.link # 0 /\ Linked(r.link) /\ links' = [links EXCEPT ![r.link] = LinkedAs(@, r)] /\ Write(q)
    <2>l. PICK l \in LinkIds : l = r.link
      BY <1>r, <1>3, Numbers DEF RequestRows, LinkIds
    <2>w. PICK row : row = LinkedAs(links[l], r)
      OBVIOUS
    <2>o. PICK on \in BOOLEAN : on = (links[l].active /\ r.active)
      BY <1>t, <1>r DEF Typed, LinkRows, RequestRows
    <2>1. row = [agent |-> links[l].agent, chat |-> r.chat, active |-> on, conv |-> r.conv]
      BY <1>t, <1>r, <2>w, <2>o, LinkRow DEF Typed
    <2>2. row \in LinkRows /\ row.agent = links[l].agent /\ row.chat = r.chat /\ row.conv = r.conv
      BY <1>t, <1>r, <2>1 DEF Typed, LinkRows, RequestRows
    <2>3. links' = [links EXCEPT ![l] = row]
      BY <1>t, <1>3, <2>l, <2>w DEF Typed
    <2>4. AgentsCounted'
      BY <1>2, <1>3, <2>l, <2>2, <2>3, WritesCount, AgentsOfRow
    <2>5. \A k \in LinkIds : links'[k] = IF k = l THEN row ELSE links[k]
      BY <1>t, <2>3 DEF Typed
    <2>6. links'[l].conv = links[l].conv \/ overwrites' = overwrites + 1
      BY <1>2, <1>3, <2>l, <2>2, <2>5, WritesCount
    <2>7. RunsCounted'
      BY <1>t, <2>5, <2>6, ConversationsStay
    <2>. QED BY <2>4, <2>7 DEF Counted
  <1>4. CASE /\ FreeLinks # {} /\ Write(q)
             /\ r.agent \in agents
             /\ links' = [links EXCEPT ![Min(FreeLinks)] =
                  [agent |-> r.agent, chat |-> r.chat, active |-> r.active, conv |-> 0]]
    <2>l. PICK l \in LinkIds : l = Min(FreeLinks) /\ ~Linked(l)
      BY <1>4, Found DEF FreeLinks
    <2>w. PICK row : row = [agent |-> r.agent, chat |-> r.chat, active |-> r.active, conv |-> 0]
      OBVIOUS
    <2>1. row \in LinkRows /\ row.agent = r.agent /\ row.chat = r.chat
      BY <1>r, <2>w, Numbers DEF LinkRows, RequestRows
    <2>2. links' = [links EXCEPT ![l] = row]
      BY <1>4, <2>l, <2>w
    <2>3. AgentsCounted'
      BY <1>2, <1>4, <2>1, <2>2, WritesCount, AgentsOfRow
    <2>4. used'[l] = {} /\ \A k \in LinkIds : k # l => links'[k] = links[k]
      BY <1>t, <2>l, <2>2 DEF ChatInv, Shaped, Typed
    <2>5. RunsCounted'
      BY <1>t, <2>4, ConversationsStay
    <2>. QED BY <2>3, <2>5 DEF Counted
  <1>. QED BY <1>1, <1>3, <1>4, <1>r DEF WriteLink

\* A conversation that is kept is the one of the link, unless the read is outdated: then
\* the message is not counted.
LEMMA KeepCounts ==
  ASSUME ChatInv, [Next]_vars, NEW w \in Workers, KeepConversation(w)
  PROVE  Counted'
  <1>t. Typed
    BY DEF ChatInv
  <1>1. links' = links /\ runs' = runs
    BY DEF KeepConversation, rows
  <1>2. AgentsCounted'
    BY <1>1, AgentsStay
  <1>3. CASE w \in stale
    <2>1. used' = used
      BY <1>3 DEF KeepConversation
    <2>. QED BY <1>1, <1>2, <2>1, ConversationsStay DEF Counted
  <1>4. CASE w \notin stale
    <2>1. PICK l \in LinkIds : l = handler[w].link
      BY DEF ChatInv, Shaped, KeepConversation, At, Reading
    <2>2. links[l].conv = handler[w].conv
      BY <1>4, <2>1 DEF ChatInv, Fresh, FreshHandler, KeepConversation, At, Reading
    <2>3. RunExists(handler[w].conv) /\ used' = [used EXCEPT ![l] = @ \union {handler[w].conv}]
      BY <1>4, <2>1 DEF KeepConversation, Continues
    <2>4. \A k \in LinkIds : \A r \in used'[k] : r \in used[k] \/ (k = l /\ r = handler[w].conv)
      BY <1>t, <2>3 DEF Typed
    <2>5. \A k \in LinkIds : \A r \in used'[k] : RunExists(r)'
      BY <1>1, <2>3, <2>4 DEF ChatInv, Counted, RunsCounted, RunExists
    <2>6. \A k \in LinkIds : used'[k] \ {links'[k].conv} \subseteq used[k] \ {links[k].conv}
      BY <1>1, <2>2, <2>4
    <2>7. RunsCounted'
      BY <2>5, <2>6, ConversationsCounted
    <2>. QED BY <1>2, <2>7 DEF Counted
  <1>. QED BY <1>3, <1>4

\* Every step keeps the counts.
LEMMA CountedKept ==
  ASSUME ChatInv, [Next]_vars
  PROVE  Counted'
  <1>t. Typed
    BY DEF ChatInv
  <1>1. CASE links' = links /\ \A l \in LinkIds : used'[l] \subseteq used[l]
    BY <1>1, AgentsStay, ConversationsStay DEF Counted
  <1>2. ASSUME NEW w \in Workers, HandlerStep(w) PROVE Counted'
    <2>1. \/ Reset(w) \/ SaveConversation(w) \/ KeepConversation(w) \/ (links' = links /\ used' = used)
      BY <1>2 DEF HandlerStep, TakeUpdate, NewConversation, NoConversation, LogConversation, Reply, Launch,
                  LogLaunch, PublishLaunch, rows
    <2>. QED BY <1>1, <2>1, ResetCounts, SaveCounts, KeepCounts
  <1>3. ASSUME NEW l \in LinkIds, DeleteLink(l) PROVE Counted'
    <2>1. links' = [links EXCEPT ![l] = NoLink] /\ used' = [used EXCEPT ![l] = {}]
      BY <1>3 DEF DeleteLink
    <2>2. \A k \in LinkIds : links'[k] = IF k = l THEN NoLink ELSE links[k]
      BY <1>t, <2>1 DEF Typed
    <2>3. \A k \in LinkIds : used'[k] = IF k = l THEN {} ELSE used[k]
      BY <1>t, <2>1 DEF Typed
    <2>4. AgentsCounted'
      BY <2>2, NoRows, AgentsStay
    <2>5. RunsCounted'
      BY <2>2, <2>3, ConversationsStay
    <2>. QED BY <2>4, <2>5 DEF Counted
  <1>4. ASSUME NEW f \in Flows, DeleteFlow(f) PROVE Counted'
    BY <1>1, <1>4 DEF DeleteFlow
  <1>5. CASE \/ \E q \in Requests, a \in Agents, c \in Chats, on \in BOOLEAN : LinkAgent(q, a, c, on)
             \/ \E a \in Agents : DeleteAgent(a)
             \/ UNCHANGED vars
    BY <1>1, <1>5 DEF LinkAgent, DeleteAgent, vars, rows
  <1>. QED BY <1>2, <1>3, <1>4, <1>5, Steps, WriteCounts

-----------------------------------------------------------------------------
\* The specification.

\* There are no links and no runs at first.
LEMMA InitInv == Init => ChatInv
  <1>1. SUFFICES ASSUME Init PROVE ChatInv
    OBVIOUS
  <1>2. /\ \A l \in LinkIds : links[l] = NoLink /\ used[l] = {}
        /\ \A r \in RunIds : runs[r] = NoRun
        /\ \A w \in Workers : handler[w] = Idle
        /\ \A q \in Requests : request[q] = NoRequest
    BY <1>1 DEF Init
  <1>3. Typed
    <2>1. /\ links \in [LinkIds -> LinkRows] /\ runs \in [RunIds -> RunRows]
          /\ handler \in [Workers -> HandlerRows] /\ request \in [Requests -> RequestRows]
      BY <1>1, NoRows DEF Init
    <2>2. overwrites \in Nat
      BY <1>1 DEF Init
    <2>3. used \in [LinkIds -> SUBSET RunIds] /\ agents \subseteq Agents /\ flows \subseteq Flows /\ stale = {}
      BY <1>1 DEF Init
    <2>. QED BY <2>1, <2>2, <2>3 DEF Typed
  <1>4. Shaped
    BY <1>2, NoRows, PipelineNames DEF Shaped, Linked, Reading
  <1>5. Runs
    BY <1>2, NoRows DEF Runs
  <1>6. Fresh
    BY <1>2, NoRows DEF Fresh, Reading
  <1>7. Counted
    <2>1. \A c \in Chats : AgentsOfChat(c) = {}
      BY <1>2, NoRows DEF AgentsOfChat, LinksOfChat, ActiveLinks
    <2>2. \A l \in LinkIds : used[l] \ {links[l].conv} = {}
      BY <1>2
    <2>3. overwrites = 0 /\ Cardinality({}) = 0
      BY <1>1, FS_EmptySet DEF Init
    <2>4. AgentsCounted
      BY <2>1, <2>3 DEF AgentsCounted
    <2>5. RunsCounted
      BY <1>2, <2>2, <2>3 DEF RunsCounted
    <2>. QED BY <2>4, <2>5 DEF Counted
  <1>. QED BY <1>3, <1>4, <1>5, <1>6, <1>7 DEF ChatInv

\* The invariant: links and runs are well-formed, a reading that nothing has outdated holds,
\* and the agents of a chat and the runs of a link beside its own are counted.
THEOREM ChatInvariant == Spec => []ChatInv
  <1>1. Init => ChatInv
    BY InitInv
  <1>2. ChatInv /\ [Next]_vars => ChatInv'
    BY TypedKept, ShapedKept, RunsKept, FreshKept, CountedKept DEF ChatInv
  <1>. QED BY <1>1, <1>2, PTL DEF Spec

\* Types; a link has an agent that exists, for the database refuses to delete one that has
\* links (AgentRepository.delete), and a handler past its first commit has a run.
THEOREM TypesAreKept == Spec => []TypeOK
  <1>1. ChatInv => TypeOK
    <2>1. SUFFICES ASSUME ChatInv PROVE TypeOK
      OBVIOUS
    <2>. USE <2>1 DEF ChatInv
    <2>2. \A l \in LinkIds : links[l].conv \in 0 .. MaxRuns /\ used[l] \subseteq RunIds
      BY DEF Typed, LinkRows
    <2>3. \A w \in Workers : handler[w].pc \in Kinds \union {"idle", "log", "save", "reply", "queue"}
      BY DEF Typed, HandlerRows, Labels
    <2>. QED BY <2>2, <2>3 DEF Typed, Shaped, Runs, TypeOK
  <1>. QED BY <1>1, ChatInvariant, PTL

\* A chat is linked to one agent, and to one more for each link that was written on the
\* strength of an outdated read, at the worst (link_agent, update_config).
THEOREM OverwritesAddAgents == Spec => []EachOverwriteAddsOneAgent
  <1>1. ChatInv => EachOverwriteAddsOneAgent
    BY DEF ChatInv, Counted, AgentsCounted, EachOverwriteAddsOneAgent
  <1>. QED BY <1>1, ChatInvariant, PTL

\* Between two resets the messages taken up for a link are recorded in one run, and in one
\* more for each such write (_ensure_conversation_run).
THEOREM OverwritesSplitConversations == Spec => []EachOverwriteSplitsOnce
  <1>1. ChatInv => EachOverwriteSplitsOnce
    <2>1. SUFFICES ASSUME ChatInv, NEW l \in LinkIds
          PROVE  Cardinality(used[l]) <= 1 + overwrites
      BY DEF EachOverwriteSplitsOnce
    <2>. DEFINE S == used[l] \ {links[l].conv}
    <2>2. IsFiniteSet(S) /\ Cardinality(S) <= overwrites /\ overwrites \in Nat
      BY <2>1, FiniteCounts, FS_RemoveElement DEF ChatInv, Counted, RunsCounted, Typed
    <2>3. used[l] \in SUBSET (S \union {links[l].conv})
      OBVIOUS
    <2>4. Cardinality(used[l]) <= overwrites + 1
      <3>. HIDE DEF S
      <3>. QED BY <2>2, <2>3, OneMore
    <2>5. overwrites + 1 = 1 + overwrites
      BY <2>2
    <2>. QED BY <2>4, <2>5
  <1>. QED BY <1>1, ChatInvariant, PTL
=============================================================================
