---------------------------- MODULE Conversation ----------------------------
(***************************************************************************)
(* Chats linked to agents (services/channel_service.py,                    *)
(* services/agent_chat_service.py, repositories/channel_repository.py,     *)
(* api/web/channels.py): links edited by web requests while workers handle *)
(* updates, each of them reading a link's configuration first and writing  *)
(* it back whole, commits later.                                           *)
(***************************************************************************)
EXTENDS Integers, FiniteSets, FiniteSetsExt

CONSTANTS
  Chats, Agents, Workers, Requests, NoChat,
  Pipelines,            \* the pipelines that chats start
  MaxLinks, MaxRuns,    \* bounds on the rows ever created
  MaxChanges            \* bound on deletions and on links switched off

ASSUME ConversationAssumption ==
  /\ Pipelines \subseteq {"launch", "build"} /\ NoChat \notin Chats
  /\ Workers \intersect Requests = {}
  /\ MaxLinks \in Nat \ {0} /\ MaxRuns \in Nat \ {0} /\ MaxChanges \in Nat

VARIABLES
  agents,     \* the agents there are
  flows,      \* the workflows there are
  links,      \* channel_links by id
  runs,       \* the workflow_runs that conversations and launches are about
  handler,    \* per worker: the update it handles
  request,    \* per web request: the link it is about to write
  changes,    \* of those, so far
  \* history, read by properties only
  used,       \* per link: the runs its messages went to since the last reset
  stale,      \* workers and requests whose reading of the links is outdated
  overwrites  \* how often one of them wrote a link nevertheless

rows == <<agents, flows, links, runs>>
reads == <<stale, overwrites>>
vars == <<rows, handler, request, used, reads, changes>>

LinkIds == 1 .. MaxLinks
RunIds == 1 .. MaxRuns
Flows == Pipelines \union {"demo"}
Kinds == Pipelines \union {"other", "help", "reset", "chat"}

NoLink == [agent |-> "none", chat |-> NoChat, active |-> FALSE, conv |-> 0]
NoRun == [kind |-> "none", flow |-> "none", logged |-> FALSE, queued |-> FALSE]
Gone == [NoRun EXCEPT !.kind = "deleted"]
Idle == [pc |-> "idle", link |-> 0, chat |-> NoChat, conv |-> 0, run |-> 0]
NoRequest == [pc |-> "idle", link |-> 0, agent |-> "none", chat |-> NoChat, conv |-> 0,
              active |-> FALSE]

Linked(l) == links[l] # NoLink
ActiveLinks == {l \in LinkIds : links[l].active}
RunExists(r) == r \in RunIds /\ runs[r].kind \notin {"none", "deleted"}
FreeLinks == {l \in LinkIds : ~Linked(l)}
FreeRuns == {r \in RunIds : runs[r] = NoRun}

\* get_telegram_by_chat_id: the first active link that the database happens to list.
LinksOfChat(c) == {l \in ActiveLinks : links[l].chat = c}

\* get_active_telegram_for_agent: the newest, 0 if there is none.
LinkOfAgent(a) ==
  LET mine == {l \in ActiveLinks : links[l].agent = a} IN IF mine = {} THEN 0 ELSE Max(mine)

\* link_agent refuses a chat whose link belongs to another agent.
MayLink_Always(a, c) == a \in Agents /\ c \in Chats
MayLink(a, c) == LinksOfChat(c) = {} \/ \E l \in LinksOfChat(c) : links[l].agent = a

\* The workflow a conversation run is created for.
ConversationFlow == IF "demo" \in flows THEN {"demo"} ELSE flows

\* The run _ensure_conversation_run finds in the configuration and keeps.
Continues(conv) == RunExists(conv)

\* The configuration after a conversation run was created, and after a reset.
WithRun_Unsaved(link, h) == [link EXCEPT !.chat = h.chat]
WithRun(link, h) == [link EXCEPT !.chat = h.chat, !.conv = h.run]
WithoutRun(link, h) == [link EXCEPT !.chat = h.chat, !.conv = 0]

\* The rows of agents that the database lets go: the ORM first takes the agent off its
\* links, switched off or not, and that column does not allow NULL.
Deletable_Always(a) == TRUE
Deletable(a) == \A l \in LinkIds : links[l].agent # a

\* Users may have deleted workflows before.
Init ==
  /\ agents = Agents /\ flows \in SUBSET Flows
  /\ links = [l \in LinkIds |-> NoLink] /\ runs = [r \in RunIds |-> NoRun]
  /\ handler = [w \in Workers |-> Idle] /\ request = [q \in Requests |-> NoRequest]
  /\ changes = 0 /\ used = [l \in LinkIds |-> {}] /\ stale = {} /\ overwrites = 0

-----------------------------------------------------------------------------
\* Who has read a link, or that there is none, and has not written yet.
Readers ==
  {w \in Workers : handler[w].pc \in {"reset", "chat", "log", "save"}}
    \union {q \in Requests : request[q].pc # "idle"}

Read(me) == stale' = stale \ {me} /\ UNCHANGED overwrites

\* A write makes every other reading an outdated one.
Write(me) ==
  /\ stale' = Readers \ {me}
  /\ overwrites' = overwrites + (IF me \in stale THEN 1 ELSE 0)

\* A write that depends on nothing read before.
PlainWrite == stale' = Readers /\ UNCHANGED overwrites

Replying(r) == [Idle EXCEPT !.pc = "reply", !.run = r]

\* Worker w goes on at label l; done with its update, it forgets it.
GoTo(w, l) == handler' = [handler EXCEPT ![w].pc = l]
Finish(w) == handler' = [handler EXCEPT ![w] = Idle]
At(w, l) == handler[w].pc = l

NewRun(w, kind, flow, label) ==
  /\ FreeRuns # {}
  /\ LET r == Min(FreeRuns) IN
       /\ runs' = [runs EXCEPT ![r] = [NoRun EXCEPT !.kind = kind, !.flow = flow]]
       /\ handler' = [handler EXCEPT ![w] = [@ EXCEPT !.pc = label, !.run = r, !.conv = 0]]

-----------------------------------------------------------------------------
\* handle_telegram_update: any update, at any time, as often as the queue delivers it.

\* Nothing else happens when there is no text, no active link or no active agent; an
\* agent that is switched off is one whose updates are not taken.
TakeUpdate(w, c, kind) ==
  /\ At(w, "idle") /\ kind \notin {"other", "help"}
  /\ \E l \in LinksOfChat(c) :
       handler' = [handler EXCEPT ![w] =
         [pc |-> kind, link |-> l, chat |-> c, conv |-> links[l].conv, run |-> 0]]
  /\ Read(w)
  /\ UNCHANGED <<rows, request, used, changes>>

\* _reset_conversation; a link deleted meanwhile makes the write an error.
Reset(w) ==
  LET h == handler[w] IN
  /\ At(w, "reset")
  /\ IF Linked(h.link)
     THEN /\ links' = [links EXCEPT ![h.link] = WithoutRun(@, h)]
          /\ used' = [used EXCEPT ![h.link] = {}]
          /\ Write(w)
     ELSE UNCHANGED <<links, used, reads>>
  /\ Finish(w)
  /\ UNCHANGED <<agents, flows, runs, request, changes>>

\* _ensure_conversation_run: the run of the configuration, a new one, or an error when
\* there is no workflow to create it for.
KeepConversation(w) ==
  /\ At(w, "chat") /\ Continues(handler[w].conv)
  /\ handler' = [handler EXCEPT ![w] = Replying(handler[w].conv)]
  /\ used' = IF w \in stale THEN used
             ELSE [used EXCEPT ![handler[w].link] = @ \union {handler[w].conv}]
  /\ Read(w)
  /\ UNCHANGED <<rows, request, changes>>

NewConversation(w) ==
  /\ At(w, "chat") /\ ~Continues(handler[w].conv)
  /\ \E f \in ConversationFlow : NewRun(w, "conversation", f, "log")
  /\ UNCHANGED <<agents, flows, links, request, used, reads, changes>>

NoConversation(w) ==
  /\ At(w, "chat") /\ ~Continues(handler[w].conv) /\ ConversationFlow = {}
  /\ Finish(w)
  /\ UNCHANGED <<rows, request, used, reads, changes>>

\* add_log reads the link again, and needs the run.
LogConversation(w) ==
  /\ At(w, "log")
  /\ IF Linked(handler[w].link) /\ RunExists(handler[w].run) THEN GoTo(w, "save") ELSE Finish(w)
  /\ UNCHANGED <<rows, request, used, reads, changes>>

\* update_config writes the whole configuration, chat included, as read at the start.
SaveConversation(w) ==
  LET h == handler[w] IN
  /\ At(w, "save")
  /\ IF Linked(h.link)
     THEN /\ links' = [links EXCEPT ![h.link] = WithRun(@, h)]
          /\ used' = [used EXCEPT ![h.link] = @ \union ({h.run} \cap {r \in RunIds : RunExists(r)})]
          /\ Write(w)
          /\ handler' = [handler EXCEPT ![w] = Replying(h.run)]
     ELSE UNCHANGED <<links, used, reads>> /\ Finish(w)
  /\ UNCHANGED <<agents, flows, runs, request, changes>>

\* generate_reply and the answer that is sent, if the run, the agent and the model allow
\* it: no state of this module depends on which it is.
Reply(w) ==
  /\ At(w, "reply")
  /\ Finish(w)
  /\ UNCHANGED <<rows, request, used, reads, changes>>

\* _trigger_launch_pipeline and _trigger_build_pipeline: enqueue_run in its three
\* commits, then the acknowledgement; without the workflow only a message.
Launch(w) ==
  /\ handler[w].pc \in Pipelines
  /\ IF handler[w].pc \in flows
     THEN NewRun(w, "launched", handler[w].pc, "queue")
     ELSE Finish(w) /\ UNCHANGED runs
  /\ UNCHANGED <<agents, flows, links, request, used, reads, changes>>

LogLaunch(w) ==
  /\ At(w, "queue") /\ RunExists(handler[w].run) /\ ~runs[handler[w].run].logged
  /\ runs' = [runs EXCEPT ![handler[w].run].logged = TRUE]
  /\ UNCHANGED <<agents, flows, links, handler, request, used, reads, changes>>

PublishLaunch(w) ==
  /\ At(w, "queue")
  /\ IF RunExists(handler[w].run)
     THEN /\ runs[handler[w].run].logged
          /\ runs' = [runs EXCEPT ![handler[w].run].queued = TRUE]
     ELSE UNCHANGED runs
  /\ Finish(w)
  /\ UNCHANGED <<agents, flows, links, request, used, reads, changes>>

-----------------------------------------------------------------------------
\* The web: links, agents, workflows and runs.

Change == changes < MaxChanges /\ changes' = changes + 1

\* channels_create up to the reads of link_agent; a link that is to be switched off
\* counts as a change.
LinkAgent(q, a, c, on) ==
  /\ request[q].pc = "idle" /\ a \in agents
  /\ MayLink(a, c)
  /\ LET l == LinkOfAgent(a) IN
       request' = [request EXCEPT ![q] =
         [pc |-> "write", link |-> l, agent |-> a, chat |-> c,
          conv |-> IF l = 0 THEN 0 ELSE links[l].conv, active |-> on]]
  /\ IF on THEN UNCHANGED changes ELSE Change
  /\ Read(q)
  /\ UNCHANGED <<rows, handler, used>>

\* Its write: the link read before, if it is still there, or a new one.  is_active is
\* written only where it changes what was read.
LinkedAs(link, q) ==
  [link EXCEPT !.chat = q.chat, !.conv = q.conv, !.active = @ /\ q.active]

WriteLink(q) ==
  LET r == request[q] IN
  /\ r.pc = "write"
  /\ \/ /\ r.link # 0 /\ Linked(r.link)
        /\ links' = [links EXCEPT ![r.link] = LinkedAs(@, r)]
        /\ Write(q)
     \/ /\ r.link # 0 /\ ~Linked(r.link)
        /\ UNCHANGED <<links, reads>>
     \/ /\ r.link = 0 /\ r.agent \in agents /\ FreeLinks # {}
        /\ links' = [links EXCEPT ![Min(FreeLinks)] =
             [agent |-> r.agent, chat |-> r.chat, active |-> r.active, conv |-> 0]]
        /\ Write(q)
     \/ /\ r.link = 0 /\ r.agent \notin agents
        /\ UNCHANGED <<links, reads>>
  /\ request' = [request EXCEPT ![q] = NoRequest]
  /\ UNCHANGED <<agents, flows, runs, handler, used, changes>>

DeleteLink(l) ==
  /\ Linked(l) /\ Change
  /\ links' = [links EXCEPT ![l] = NoLink]
  /\ used' = [used EXCEPT ![l] = {}]
  /\ PlainWrite
  /\ UNCHANGED <<agents, flows, runs, handler, request>>

\* delete_agent; an error that changes nothing while the agent has a link.
DeleteAgent(a) ==
  /\ a \in agents /\ Deletable(a) /\ Change
  /\ agents' = agents \ {a}
  /\ UNCHANGED <<flows, links, runs, handler, request, used, reads>>

\* The runs of a deleted workflow go with it.
DeleteFlow(f) ==
  LET its == {r \in RunIds : runs[r].flow = f} IN
  /\ f \in flows /\ Change
  /\ flows' = flows \ {f}
  /\ runs' = [r \in RunIds |-> IF r \in its THEN Gone ELSE runs[r]]
  /\ used' = [l \in LinkIds |-> used[l] \ its]
  /\ UNCHANGED <<agents, links, handler, request, reads>>

HandlerStep(w) ==
  \/ \E c \in Chats, kind \in Kinds : TakeUpdate(w, c, kind)
  \/ Reset(w) \/ KeepConversation(w) \/ NewConversation(w) \/ NoConversation(w)
  \/ LogConversation(w) \/ SaveConversation(w) \/ Reply(w)
  \/ Launch(w) \/ LogLaunch(w) \/ PublishLaunch(w)

WebStep ==
  \/ \E q \in Requests :
       \/ WriteLink(q)
       \/ \E a \in Agents, c \in Chats, on \in BOOLEAN : LinkAgent(q, a, c, on)
  \/ \E l \in LinkIds : DeleteLink(l)
  \/ \E a \in Agents : DeleteAgent(a)
  \/ \E f \in Flows : DeleteFlow(f)

Next ==
  \/ \E w \in Workers : HandlerStep(w)
  \/ WebStep

Spec == Init /\ [][Next]_vars

-----------------------------------------------------------------------------
\* Types; a link, switched off or not, has an agent that exists, and a handler past its
\* first commit has a run.
TypeOK ==
  /\ agents \subseteq Agents /\ flows \subseteq Flows
  /\ \A l \in LinkIds : Linked(l) => links[l].agent \in agents /\ links[l].chat \in Chats
  /\ \A l \in LinkIds : links[l].conv \in 0 .. MaxRuns /\ used[l] \subseteq RunIds
  /\ \A r \in RunIds : runs[r].queued => RunExists(r)
  /\ \A w \in Workers :
       /\ handler[w].pc \in Kinds \union {"idle", "log", "save", "reply", "queue"}
       /\ handler[w].pc \in {"log", "save", "reply", "queue"} <=> handler[w].run # 0
  /\ stale \subseteq Workers \union Requests /\ overwrites \in Nat

\* channel_service.py:97: a chat is linked to one agent at a time ("This chat is already
\* linked to another agent.").  Whatever is written in between, each write that rests on
\* an outdated read gives a chat one agent more at the worst.
AgentsOfChat(c) == {links[l].agent : l \in LinksOfChat(c)}
EachOverwriteAddsOneAgent == \A c \in Chats : Cardinality(AgentsOfChat(c)) <= 1 + overwrites

\* Between two resets the messages taken up for a link are recorded in one run
\* (channel_service.py:409-444); each write on an outdated read costs one more.
EachOverwriteSplitsOnce == \A l \in LinkIds : Cardinality(used[l]) <= 1 + overwrites

=============================================================================
