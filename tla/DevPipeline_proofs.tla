------------------------- MODULE DevPipeline_proofs -------------------------
(***************************************************************************)
(* What the pipeline announces is there, what it pays for has a source,    *)
(* and what it publishes is whole, for any number of executions of the     *)
(* run, names, crashes and droplets.                                       *)
(***************************************************************************)
EXTENDS DevPipeline, TLAPS

Repo == [exists : BOOLEAN, public : BOOLEAN, pushed : BOOLEAN,
         holds : {"nothing", "canonical", "site", "broken"}]
Droplet == [repo : Names \union {"none"}, state : {"none", "building", "up", "down"}]
Labels == {"off", "done", "ask", "calls", "copy", "create", "push", "public", "record",
           "order", "wait"}
Execution == [pc : Labels, agent : Team \union {"none"}, round : 0 .. MaxRounds,
              name : Names \union {"none"}, droplet : 0 .. MaxDroplets]

\* The labels at which an execution relies on something it did before.
Relying == {"create", "push", "public", "record", "order", "wait"}

Shape ==
  /\ project \in Trees /\ crashes \in 0 .. MaxCrashes
  /\ repos \in [Names -> Repo]
  /\ droplets \in [DropletIds -> Droplet]
  /\ exec \in [Executors -> Execution]

Public(n) == n \in Names /\ repos[n].pushed /\ repos[n].public
Up(d) == d \in DropletIds /\ droplets[d].state = "up"

\* What an execution at a label knows.
Knows(x) ==
  /\ x.pc \in {"create", "push", "public", "record", "order"} => x.name \in Names
  /\ x.pc \in {"push", "public", "record", "order"} => repos[x.name].exists
  /\ x.pc \in {"public", "record"} => repos[x.name].pushed
  /\ x.pc = "record" => repos[x.name].public
  /\ x.pc = "wait" => x.droplet \in DropletIds

\* What the recorded files and the last notification say.
Records ==
  /\ published = "none" \/ Public(published)
  /\ deployed = 0 \/ Up(deployed)
  /\ sent.repo = "none" \/ Public(sent.repo)
  /\ sent.live = 0 \/ Up(sent.live)
  /\ sent.claim => sent.live # 0 \/ sent.repo # "none"

RemoteOK ==
  /\ \A n \in Names : repos[n].pushed => repos[n].exists
  /\ DropletHasSource

Inv ==
  /\ Shape
  /\ \A e \in Executors : Knows(exec[e])
  /\ Records
  /\ RemoteOK

-----------------------------------------------------------------------------
\* The constants and the helpers that build records keep the shape.
LEMMA EnforcedKeepsShape == \A t \in Trees : Enforced(t) \in Trees
  BY DEF Trees, Enforced, Mains, Pages, Dockers

LEMMA ContentKeepsShape ==
  \A t \in Trees : Content(t) \in {"nothing", "canonical", "site", "broken"}
  BY DEF Content

LEMMA InvInit == Init => Inv
<1> SUFFICES ASSUME Init PROVE Inv
  OBVIOUS
<1>1. Shape
  <2>1. project \in Trees /\ crashes \in 0 .. MaxCrashes
    BY DevPipelineAssumption DEF Init, Trees, Mains, Pages, Dockers, Empty
  <2>2. repos \in [Names -> Repo]
    BY DEF Init, Repo, NoRepo
  <2>3. droplets \in [DropletIds -> Droplet]
    BY DEF Init, Droplet, NoDroplet
  <2>4. exec \in [Executors -> Execution]
    BY DevPipelineAssumption DEF Init, Execution, Idle, Labels
  <2> QED
    BY <2>1, <2>2, <2>3, <2>4 DEF Shape
<1>2. \A e \in Executors : Knows(exec[e])
  BY DEF Init, Knows, Idle
<1>3. Records
  BY DEF Init, Records, NoNotice
<1>4. RemoteOK
  BY DEF Init, RemoteOK, DropletHasSource, NoRepo
<1> QED
  BY <1>1, <1>2, <1>3, <1>4 DEF Inv

-----------------------------------------------------------------------------
\* Nobody's knowledge is lost while repositories only gain: what exists, was pushed or is
\* public stays so.
Gained ==
  \A n \in Names : /\ repos[n].exists => repos'[n].exists
                   /\ repos[n].pushed => repos'[n].pushed
                   /\ repos[n].public => repos'[n].public

\* One execution moves to y, repositories gain, and droplets that are up stay up.
LEMMA MoveKeepsKnowledge ==
  ASSUME Inv, Gained, NEW e \in Executors, NEW y \in Execution,
         exec' = [exec EXCEPT ![e] = y], Knows(y)'
  PROVE  /\ exec' \in [Executors -> Execution]
         /\ \A f \in Executors : Knows(exec[f])'
<1>1. exec \in [Executors -> Execution] /\ \A f \in Executors : Knows(exec[f])
  BY DEF Inv, Shape
<1>2. exec' \in [Executors -> Execution]
  BY <1>1
<1>3. ASSUME NEW f \in Executors PROVE Knows(exec[f])'
  <2>1. CASE f = e
    <3>1. exec'[f] = y
      BY <1>1, <2>1
    <3> QED
      BY <3>1 DEF Knows
  <2>2. CASE f # e
    <3>1. exec'[f] = exec[f]
      BY <1>1, <2>2
    <3> QED
      BY <3>1, <1>1 DEF Knows, Gained
  <2> QED
    BY <2>1, <2>2
<1> QED
  BY <1>2, <1>3

\* A step that leaves everything remote and recorded alone, to a label that relies on
\* nothing.
LEMMA QuietStep ==
  ASSUME Inv, NEW e \in Executors, NEW y \in Execution, y.pc \notin Relying,
         exec' = [exec EXCEPT ![e] = y],
         project' \in Trees, crashes' \in 0 .. MaxCrashes,
         UNCHANGED <<repos, droplets, published, deployed, sent>>
  PROVE  Inv'
<1>1. Gained
  BY DEF Gained
<1>2. Knows(y)'
  BY DEF Knows, Relying
<1>3. /\ exec' \in [Executors -> Execution]
      /\ \A f \in Executors : Knows(exec[f])'
  BY <1>1, <1>2, MoveKeepsKnowledge
<1>4. Shape'
  BY <1>3 DEF Inv, Shape
<1>5. Records'
  BY DEF Inv, Records, Public, Up
<1>6. RemoteOK'
  BY DEF Inv, RemoteOK, DropletHasSource, Exists
<1> QED
  BY <1>3, <1>4, <1>5, <1>6 DEF Inv

\* An execution that starts or ends, and records that differ from one in some fields.
LEMMA WithAgent ==
  ASSUME NEW x \in Execution, NEW l \in Labels, NEW a \in Team \union {"none"}
  PROVE  [x EXCEPT !.pc = l, !.agent = a] \in Execution
  BY DEF Execution

LEMMA Fresh ==
  ASSUME NEW l \in Labels, NEW a \in Team \union {"none"}
  PROVE  [Idle EXCEPT !.pc = l, !.agent = a] \in Execution
<1>1. Idle \in Execution
  BY DevPipelineAssumption DEF Execution, Idle, Labels
<1> QED
  BY <1>1, WithAgent

LEMMA WithPc ==
  ASSUME NEW x \in Execution, NEW l \in Labels
  PROVE  [x EXCEPT !.pc = l] \in Execution
  BY DEF Execution

LEMMA WithName ==
  ASSUME NEW x \in Execution, NEW l \in Labels, NEW n \in Names \union {"none"}
  PROVE  [x EXCEPT !.pc = l, !.name = n] \in Execution
  BY DEF Execution

LEMMA WithDroplet ==
  ASSUME NEW x \in Execution, NEW l \in Labels, NEW d \in 0 .. MaxDroplets
  PROVE  [x EXCEPT !.pc = l, !.droplet = d] \in Execution
  BY DEF Execution

LEMMA WithBoth ==
  ASSUME NEW x \in Execution, NEW l \in Labels, NEW n \in Names \union {"none"},
         NEW d \in 0 .. MaxDroplets
  PROVE  [x EXCEPT !.pc = l, !.name = n, !.droplet = d] \in Execution
  BY DEF Execution

LEMMA WithNothing ==
  ASSUME NEW x \in Execution, NEW l \in Labels
  PROVE  [x EXCEPT !.pc = l, !.name = "none", !.droplet = 0] \in Execution
<1>1. 0 \in 0 .. MaxDroplets
  BY DevPipelineAssumption
<1> QED
  BY <1>1, WithBoth

\* After a call has returned the execution relies on nothing.
LEMMA ReturnLetsGo ==
  ASSUME Inv, NEW e \in Executors, Returned(e)
  PROVE  \E y \in Execution : y.pc \notin Relying /\ exec' = [exec EXCEPT ![e] = y]
<1>1. PICK label \in {"calls", "ask"} :
        exec' = [exec EXCEPT ![e] = [exec[e] EXCEPT !.pc = label, !.name = "none", !.droplet = 0]]
  BY DEF Returned, Inv, Shape
<1>2. exec[e] \in Execution
  BY DEF Inv, Shape
<1>3. label \in Labels \ Relying
  BY DEF Labels, Relying
<1>4. PICK y : y = [exec[e] EXCEPT !.pc = label, !.name = "none", !.droplet = 0]
  OBVIOUS
<1>5. y \in Execution
  BY <1>2, <1>3, <1>4, WithNothing
<1>6. y.pc = label
  BY <1>2, <1>4 DEF Execution
<1> QED
  BY <1>1, <1>3, <1>4, <1>5, <1>6

LEMMA QuietReturn ==
  ASSUME Inv, NEW e \in Executors, Returned(e),
         project' \in Trees, UNCHANGED <<repos, droplets, published, deployed, sent, crashes>>
  PROVE  Inv'
<1>1. PICK y \in Execution : y.pc \notin Relying /\ exec' = [exec EXCEPT ![e] = y]
  BY ReturnLetsGo
<1>2. crashes' \in 0 .. MaxCrashes
  BY DEF Inv, Shape
<1> QED
  BY <1>1, <1>2, QuietStep

\* A return keeps what the others know, whatever else the step does.
LEMMA ReturnKnows ==
  ASSUME Inv, Gained, NEW e \in Executors, Returned(e)
  PROVE  /\ exec' \in [Executors -> Execution]
         /\ \A f \in Executors : Knows(exec[f])'
<1>1. PICK y \in Execution : y.pc \notin Relying /\ exec' = [exec EXCEPT ![e] = y]
  BY ReturnLetsGo
<1>2. Knows(y)'
  BY <1>1 DEF Knows, Relying
<1> QED
  BY <1>1, <1>2, MoveKeepsKnowledge

-----------------------------------------------------------------------------
(* One lemma per action that touches what is remote or recorded. *)

LEMMA AllOf == ASSUME Shape', \A f \in Executors : Knows(exec[f])', Records', RemoteOK'
               PROVE  Inv'
  BY DEF Inv

LEMMA QuietActions ==
  ASSUME Inv, NEW e \in Executors,
         \/ Begin(e) \/ Ask(e) \/ Answer(e) \/ Crash(e) \/ BeginCopy(e)
  PROVE  Inv'
<1>1. exec[e] \in Execution /\ crashes \in 0 .. MaxCrashes /\ project \in Trees
  BY DEF Inv, Shape
<1>2. CASE Begin(e)
  <2>1. PICK y : y = [Idle EXCEPT !.pc = "ask", !.agent = "planner"]
    OBVIOUS
  <2>2. y \in Execution /\ y.pc \notin Relying
    <3>1. "ask" \in Labels /\ "planner" \in Team
      BY DEF Labels, Team
    <3>2. y.pc = "ask"
      BY <2>1 DEF Idle
    <3> QED
      BY <2>1, <3>1, <3>2, Fresh DEF Relying
  <2> QED
    BY <1>1, <1>2, <2>1, <2>2, QuietStep DEF Begin, files
<1>3. CASE Ask(e)
  <2>1. PICK y : y = [exec[e] EXCEPT !.pc = "calls", !.round = @ + 1]
    OBVIOUS
  <2>2. y \in Execution /\ y.pc \notin Relying
    <3>1. exec[e].round + 1 \in 0 .. MaxRounds
      BY <1>1, <1>3, DevPipelineAssumption DEF Execution, Ask, MoreRounds
    <3> QED
      BY <1>1, <2>1, <3>1 DEF Execution, Labels, Relying
  <2>3. exec' = [exec EXCEPT ![e] = y]
    BY <1>3, <2>1 DEF Ask, Inv, Shape
  <2> QED
    BY <1>1, <1>3, <2>2, <2>3, QuietStep DEF Ask, files
<1>4. CASE Answer(e)
  <2>1. PICK a \in After(exec[e].agent) :
          exec' = [exec EXCEPT ![e] = IF a = "end" THEN [Idle EXCEPT !.pc = "done"]
                                      ELSE [Idle EXCEPT !.pc = "ask", !.agent = a]]
    BY <1>4 DEF Answer
  <2>2. a \in Team \union {"end"}
    BY <2>1 DEF After, Team
  <2>3. PICK y : y = IF a = "end" THEN [Idle EXCEPT !.pc = "done"]
                     ELSE [Idle EXCEPT !.pc = "ask", !.agent = a]
    OBVIOUS
  <2>4. y \in Execution /\ y.pc \notin Relying
    <3>1. CASE a = "end"
      BY <2>3, <3>1, DevPipelineAssumption DEF Execution, Idle, Labels, Relying
    <3>2. CASE a # "end"
      <4>1. y = [Idle EXCEPT !.pc = "ask", !.agent = a] /\ a \in Team
        BY <2>2, <2>3, <3>2
      <4>2. "ask" \in Labels /\ y.pc = "ask"
        BY <4>1 DEF Labels, Idle
      <4> QED
        BY <4>1, <4>2, Fresh DEF Relying
    <3> QED
      BY <3>1, <3>2
  <2> QED
    BY <1>1, <1>4, <2>1, <2>3, <2>4, QuietStep DEF Answer, files
<1>5. CASE Crash(e)
  <2>1. PICK y : y = [Idle EXCEPT !.pc = "done"]
    OBVIOUS
  <2>2. y \in Execution /\ y.pc \notin Relying
    BY <2>1, DevPipelineAssumption DEF Execution, Idle, Labels, Relying
  <2>3. crashes' \in 0 .. MaxCrashes
    BY <1>1, <1>5, DevPipelineAssumption DEF Crash
  <2> QED
    BY <1>1, <1>5, <2>1, <2>2, <2>3, QuietStep DEF Crash, files
<1>6. CASE BeginCopy(e)
  <2>1. PICK y : y = [exec[e] EXCEPT !.pc = "copy"]
    OBVIOUS
  <2>2. y \in Execution /\ y.pc \notin Relying
    BY <1>1, <2>1 DEF Execution, Labels, Relying
  <2>3. exec' = [exec EXCEPT ![e] = y]
    BY <1>6, <2>1 DEF BeginCopy, GoTo, Inv, Shape
  <2>4. project' \in Trees
    BY <1>6 DEF BeginCopy, Partial
  <2> QED
    BY <1>1, <1>6, <2>2, <2>3, <2>4, QuietStep DEF BeginCopy
<1> QED
  BY <1>2, <1>3, <1>4, <1>5, <1>6

LEMMA QuietCalls ==
  ASSUME Inv, NEW e \in Executors,
         \/ FinishCopy(e) \/ Look(e) \/ WriteFile(e) \/ PublishFails(e)
         \/ OrderFails(e) \/ WaitFails(e)
  PROVE  Inv'
<1>1. Starter \in Trees /\ project \in Trees
  BY DEF Inv, Shape, Starter, Trees, Mains, Pages, Dockers
<1>2. CASE FinishCopy(e)
  BY <1>1, <1>2, QuietReturn DEF FinishCopy
<1>3. CASE Look(e)
  BY <1>1, <1>3, QuietReturn DEF Look, files
<1>4. CASE WriteFile(e)
  <2>1. project' \in Trees
    BY <1>1, <1>4 DEF WriteFile, Trees, Mains, Pages, Dockers
  <2> QED
    BY <2>1, <1>4, QuietReturn DEF WriteFile
<1>5. CASE PublishFails(e)
  BY <1>1, <1>5, QuietReturn DEF PublishFails, files
<1>6. CASE OrderFails(e)
  BY <1>1, <1>6, QuietReturn DEF OrderFails, files
<1>7. CASE WaitFails(e)
  BY <1>1, <1>7, QuietReturn DEF WaitFails, files
<1> QED
  BY <1>2, <1>3, <1>4, <1>5, <1>6, <1>7

\* Publish: prepare, create, push, make public, record.
LEMMA PrepareKeepsInv == ASSUME Inv, NEW e \in Executors, Prepare(e) PROVE Inv'
<1>1. exec[e] \in Execution /\ project \in Trees
  BY DEF Inv, Shape
<1>2. PICK n \in Names : exec' = [exec EXCEPT ![e].pc = "create", ![e].name = n]
  BY DEF Prepare
<1>3. PICK y : y = [exec[e] EXCEPT !.pc = "create", !.name = n]
  OBVIOUS
<1>4. y \in Execution
  BY <1>1, <1>3, WithName DEF Labels
<1>5. exec' = [exec EXCEPT ![e] = y]
  BY <1>2, <1>3 DEF Inv, Shape
<1>6. Knows(y)'
  BY <1>1, <1>3 DEF Knows, Execution
<1>7. Gained
  BY DEF Gained, Prepare
<1>8. exec' \in [Executors -> Execution] /\ \A f \in Executors : Knows(exec[f])'
  BY <1>4, <1>5, <1>6, <1>7, MoveKeepsKnowledge
<1>9. Shape'
  BY <1>1, <1>8, EnforcedKeepsShape DEF Inv, Shape, Prepare
<1>10. Records' /\ RemoteOK'
  BY DEF Inv, Prepare, Records, Public, Up, RemoteOK, DropletHasSource, Exists
<1> QED
  BY <1>8, <1>9, <1>10, AllOf

\* One repository is changed into v, which has at least what it had, and the execution
\* moves to the label l.
LEMMA RepoStep ==
  ASSUME Inv, NEW e \in Executors, NEW n \in Names, NEW v \in Repo, NEW l \in Labels,
         exec[e].name = n,
         repos' = [repos EXCEPT ![n] = v], exec' = [exec EXCEPT ![e].pc = l],
         repos[n].exists => v.exists, repos[n].pushed => v.pushed,
         repos[n].public => v.public, v.pushed => v.exists,
         l \in {"push", "public", "record"}, v.exists,
         l \in {"public", "record"} => v.pushed, l = "record" => v.public,
         UNCHANGED <<files, droplets, crashes, sent>>
  PROVE  Inv'
<1>1. exec[e] \in Execution /\ repos \in [Names -> Repo]
  BY DEF Inv, Shape
<1>2. repos'[n] = v /\ \A m \in Names \ {n} : repos'[m] = repos[m]
  BY <1>1
<1>3. Gained
  BY <1>1, <1>2 DEF Gained
<1>4. PICK y : y = [exec[e] EXCEPT !.pc = l]
  OBVIOUS
<1>5. y \in Execution /\ y.pc = l /\ y.name = n
  BY <1>1, <1>4, WithPc DEF Execution
<1>6. exec' = [exec EXCEPT ![e] = y]
  BY <1>4 DEF Inv, Shape
<1>7. Knows(y)'
  BY <1>2, <1>5 DEF Knows
<1>8. exec' \in [Executors -> Execution] /\ \A f \in Executors : Knows(exec[f])'
  BY <1>3, <1>5, <1>6, <1>7, MoveKeepsKnowledge
<1>9. Shape'
  BY <1>1, <1>8 DEF Inv, Shape, files
<1>10. Records'
  BY <1>3 DEF Inv, Records, Public, Up, Gained, files
<1>11. RemoteOK'
  BY <1>2, <1>3 DEF Inv, RemoteOK, DropletHasSource, Exists, Gained
<1> QED
  BY <1>8, <1>9, <1>10, <1>11, AllOf

LEMMA CreateKeepsInv == ASSUME Inv, NEW e \in Executors, CreateRepo(e) PROVE Inv'
<1> DEFINE n == exec[e].name
<1>1. n \in Names /\ repos[n] \in Repo
  BY DEF Inv, Shape, Knows, CreateRepo, At
<1>2. PICK v : v = IF repos[n].exists THEN repos[n]
                   ELSE [NoRepo EXCEPT !.exists = TRUE, !.public = TRUE]
  OBVIOUS
<1>3. v \in Repo
  BY <1>1, <1>2 DEF Repo, NoRepo
<1>4. /\ v.exists
      /\ repos[n].pushed => v.pushed
      /\ repos[n].public \/ ~repos[n].exists => v.public \/ v = repos[n]
  BY <1>1, <1>2 DEF Inv, RemoteOK, NoRepo
<1>5. repos[n].public => v.public
  BY <1>1, <1>2 DEF NoRepo
<1>6. repos' = [repos EXCEPT ![n] = v] /\ exec' = [exec EXCEPT ![e].pc = "push"]
  BY <1>2 DEF CreateRepo, GoTo
<1> QED
  BY <1>1, <1>3, <1>4, <1>5, <1>6, RepoStep DEF CreateRepo, Labels

LEMMA PushKeepsInv == ASSUME Inv, NEW e \in Executors, Push(e) PROVE Inv'
<1> DEFINE n == exec[e].name
<1>1. n \in Names /\ repos[n] \in Repo /\ repos[n].exists
  BY DEF Inv, Shape, Knows, Push, At
<1>2. PICK v : v = [repos[n] EXCEPT !.pushed = TRUE, !.holds = Content(project)]
  OBVIOUS
<1>3. v \in Repo /\ v.exists /\ v.pushed /\ v.public = repos[n].public
  BY <1>1, <1>2, ContentKeepsShape DEF Repo, Inv, Shape
<1>4. repos' = [repos EXCEPT ![n] = v] /\ exec' = [exec EXCEPT ![e].pc = "public"]
  BY <1>2 DEF Push, GoTo
<1> QED
  BY <1>1, <1>3, <1>4, RepoStep DEF Push, Labels

LEMMA PublicKeepsInv == ASSUME Inv, NEW e \in Executors, MakePublic(e) PROVE Inv'
<1> DEFINE n == exec[e].name
<1>1. n \in Names /\ repos[n] \in Repo /\ repos[n].exists /\ repos[n].pushed
  BY DEF Inv, Shape, Knows, MakePublic, At
<1>2. PICK v : v = [repos[n] EXCEPT !.public = TRUE]
  OBVIOUS
<1>3. v \in Repo /\ v.exists /\ v.pushed /\ v.public
  BY <1>1, <1>2 DEF Repo
<1>4. repos' = [repos EXCEPT ![n] = v] /\ exec' = [exec EXCEPT ![e].pc = "record"]
  BY <1>2 DEF MakePublic, GoTo, Inv, Shape
<1> QED
  BY <1>1, <1>3, <1>4, RepoStep DEF MakePublic, Labels

LEMMA RecordKeepsInv == ASSUME Inv, NEW e \in Executors, RecordPublish(e) PROVE Inv'
<1>1. Gained
  BY DEF Gained, RecordPublish
<1>2. exec' \in [Executors -> Execution] /\ \A f \in Executors : Knows(exec[f])'
  BY <1>1, ReturnKnows DEF RecordPublish
<1>3. Public(exec[e].name)
  BY DEF Inv, Knows, RecordPublish, At, Public
<1>4. Shape'
  BY <1>2 DEF Inv, Shape, RecordPublish
<1>5. Records'
  BY <1>3 DEF Inv, Records, RecordPublish, Public, Up
<1>6. RemoteOK'
  BY DEF Inv, RemoteOK, DropletHasSource, Exists, RecordPublish
<1> QED
  BY <1>2, <1>4, <1>5, <1>6, AllOf

-----------------------------------------------------------------------------
\* Deploy: preflight, order, build, record; and the notification.
LEMMA PreflightKeepsInv == ASSUME Inv, NEW e \in Executors, Preflight(e) PROVE Inv'
<1>1. exec[e] \in Execution /\ project \in Trees
  BY DEF Inv, Shape
<1>2. CASE Returned(e)
  BY <1>1, <1>2, QuietReturn DEF Preflight, files
<1>3. ASSUME NEW m \in Names \union {"none"}, Source(m) # "none",
             exec' = [exec EXCEPT ![e].pc = "order", ![e].name = Source(m)]
      PROVE  Inv'
  <2>1. PICK n : n = Source(m)
    OBVIOUS
  <2>2. n \in Names /\ repos[n].exists
    BY <1>3, <2>1 DEF Source, Readable, Exists
  <2>3. PICK y : y = [exec[e] EXCEPT !.pc = "order", !.name = n]
    OBVIOUS
  <2>4. y \in Execution /\ y.pc = "order" /\ y.name = n
    <3>1. "order" \in Labels /\ n \in Names \union {"none"}
      BY <2>2 DEF Labels
    <3> QED
      BY <1>1, <2>3, <3>1, WithName DEF Execution
  <2>5. exec' = [exec EXCEPT ![e] = y]
    BY <1>3, <2>1, <2>3 DEF Inv, Shape
  <2>6. Gained
    BY DEF Gained, Preflight
  <2>7. Knows(y)'
    BY <2>2, <2>4 DEF Knows, Preflight
  <2>8. exec' \in [Executors -> Execution] /\ \A f \in Executors : Knows(exec[f])'
    BY <2>4, <2>5, <2>6, <2>7, MoveKeepsKnowledge
  <2>9. Shape'
    BY <2>8 DEF Inv, Shape, Preflight, files
  <2>10. Records' /\ RemoteOK'
    BY DEF Inv, Preflight, files, Records, Public, Up, RemoteOK, DropletHasSource, Exists
  <2> QED
    BY <2>8, <2>9, <2>10, AllOf
<1> QED
  BY <1>2, <1>3 DEF Preflight

\* A new droplet has the source its execution checked, and one that is up stays.
LEMMA OrderKeepsInv == ASSUME Inv, NEW e \in Executors, Order(e) PROVE Inv'
<1>1. exec[e] \in Execution /\ exec[e].name \in Names /\ repos[exec[e].name].exists
  BY DEF Inv, Shape, Knows, Order, At
<1>2. PICK c \in FreeDroplets :
        /\ droplets' = [droplets EXCEPT ![c] = [repo |-> exec[e].name, state |-> "building"]]
        /\ \/ exec' = [exec EXCEPT ![e].pc = "wait", ![e].droplet = c]
           \/ Returned(e)
  BY DEF Order
<1>4. c \in DropletIds /\ droplets[c].state = "none"
  BY DEF FreeDroplets, NoDroplet
<1>5. droplets' = [droplets EXCEPT ![c] = [repo |-> exec[e].name, state |-> "building"]]
  BY <1>2
<1>6. droplets \in [DropletIds -> Droplet]
  BY DEF Inv, Shape
<1>7. /\ droplets' \in [DropletIds -> Droplet]
      /\ droplets'[c] = [repo |-> exec[e].name, state |-> "building"]
      /\ \A b \in DropletIds \ {c} : droplets'[b] = droplets[b]
  BY <1>1, <1>4, <1>5, <1>6 DEF Droplet
<1>8. Gained
  BY DEF Gained, Order
<1>9. exec' \in [Executors -> Execution] /\ \A f \in Executors : Knows(exec[f])'
  <2>1. CASE Returned(e)
    BY <2>1, <1>8, ReturnKnows
  <2>2. CASE exec' = [exec EXCEPT ![e].pc = "wait", ![e].droplet = c]
    <3>1. PICK y : y = [exec[e] EXCEPT !.pc = "wait", !.droplet = c]
      OBVIOUS
    <3>2. "wait" \in Labels /\ c \in 0 .. MaxDroplets
      BY <1>4, DevPipelineAssumption DEF Labels, DropletIds
    <3>3. y \in Execution /\ y.pc = "wait" /\ y.droplet = c
      BY <1>1, <3>1, <3>2, WithDroplet DEF Execution
    <3>4. exec' = [exec EXCEPT ![e] = y]
      BY <2>2, <3>1 DEF Inv, Shape
    <3>5. Knows(y)'
      BY <1>4, <3>3 DEF Knows
    <3> QED
      BY <1>8, <3>3, <3>4, <3>5, MoveKeepsKnowledge
  <2> QED
    BY <1>2, <2>1, <2>2
<1>10. Shape'
  BY <1>7, <1>9 DEF Inv, Shape, Order, files
<1>11. Records'
  <2>1. \A b \in DropletIds : droplets[b].state = "up" => droplets'[b].state = "up"
    BY <1>4, <1>7
  <2> QED
    BY <2>1 DEF Inv, Records, Public, Up, Order, files
<1>12. RemoteOK'
  BY <1>1, <1>4, <1>7 DEF Inv, RemoteOK, DropletHasSource, Exists, Order
<1> QED
  BY <1>9, <1>10, <1>11, <1>12, AllOf

LEMMA BuildKeepsInv == ASSUME Inv, NEW d \in DropletIds, Build(d) PROVE Inv'
<1>1. droplets \in [DropletIds -> Droplet]
  BY DEF Inv, Shape
<1>2. PICK st \in {"up", "down"} : droplets' = [droplets EXCEPT ![d].state = st]
  BY DEF Build
<1>3. /\ droplets' \in [DropletIds -> Droplet]
      /\ droplets'[d].repo = droplets[d].repo
      /\ \A b \in DropletIds \ {d} : droplets'[b] = droplets[b]
  BY <1>1, <1>2 DEF Droplet
<1>4. Shape'
  BY <1>3 DEF Inv, Shape, Build, files
<1>5. \A f \in Executors : Knows(exec[f])'
  BY DEF Inv, Knows, Build
<1>6. Records'
  <2>1. \A b \in DropletIds : droplets[b].state = "up" => droplets'[b].state = "up"
    BY <1>3 DEF Build
  <2> QED
    BY <2>1 DEF Inv, Records, Public, Up, Build, files
<1>7. RemoteOK'
  <2>1. droplets[d] # NoDroplet
    BY DEF Build, NoDroplet
  <2> QED
    BY <1>3, <2>1 DEF Inv, RemoteOK, DropletHasSource, Exists, Build
<1> QED
  BY <1>4, <1>5, <1>6, <1>7, AllOf

LEMMA DeployedKeepsInv == ASSUME Inv, NEW e \in Executors, RecordDeploy(e) PROVE Inv'
<1>1. Gained
  BY DEF Gained, RecordDeploy
<1>2. exec' \in [Executors -> Execution] /\ \A f \in Executors : Knows(exec[f])'
  BY <1>1, ReturnKnows DEF RecordDeploy
<1>3. Up(exec[e].droplet)
  BY DEF Inv, Knows, RecordDeploy, At, Up, MayRecord
<1>4. Shape'
  BY <1>2 DEF Inv, Shape, RecordDeploy
<1>5. Records'
  BY <1>3 DEF Inv, Records, RecordDeploy, Public, Up
<1>6. RemoteOK'
  BY DEF Inv, RemoteOK, DropletHasSource, Exists, RecordDeploy
<1> QED
  BY <1>2, <1>4, <1>5, <1>6, AllOf

LEMMA NotifyKeepsInv == ASSUME Inv, NEW e \in Executors, Notify(e) PROVE Inv'
<1>1. Gained
  BY DEF Gained, Notify, files
<1>2. exec' \in [Executors -> Execution] /\ \A f \in Executors : Knows(exec[f])'
  BY <1>1, ReturnKnows DEF Notify
<1>3. Shape'
  BY <1>2 DEF Inv, Shape, Notify, files
<1>4. Records'
  BY DEF Inv, Records, Notify, Notice, Public, Up, files
<1>5. RemoteOK'
  BY DEF Inv, RemoteOK, DropletHasSource, Exists, Notify
<1> QED
  BY <1>2, <1>3, <1>4, <1>5, AllOf

-----------------------------------------------------------------------------
LEMMA InvNext == Inv /\ [Next]_vars => Inv'
<1> SUFFICES ASSUME Inv, [Next]_vars PROVE Inv'
  OBVIOUS
<1>1. CASE UNCHANGED vars
  BY <1>1 DEF vars, files, Inv, Shape, Knows, Records, Public, Up, RemoteOK,
              DropletHasSource, Exists
<1>2. ASSUME NEW d \in DropletIds, Build(d) PROVE Inv'
  BY <1>2, BuildKeepsInv
<1>3. ASSUME NEW e \in Executors, Step(e) PROVE Inv'
  <2>1. CASE Begin(e) \/ Ask(e) \/ Answer(e) \/ Crash(e) \/ BeginCopy(e)
    BY <2>1, QuietActions
  <2>2. CASE \/ FinishCopy(e) \/ Look(e) \/ WriteFile(e) \/ PublishFails(e)
             \/ OrderFails(e) \/ WaitFails(e)
    BY <2>2, QuietCalls
  <2>3. CASE Prepare(e)
    BY <2>3, PrepareKeepsInv
  <2>4. CASE CreateRepo(e)
    BY <2>4, CreateKeepsInv
  <2>5. CASE Push(e)
    BY <2>5, PushKeepsInv
  <2>6. CASE MakePublic(e)
    BY <2>6, PublicKeepsInv
  <2>7. CASE RecordPublish(e)
    BY <2>7, RecordKeepsInv
  <2>8. CASE Preflight(e)
    BY <2>8, PreflightKeepsInv
  <2>9. CASE Order(e)
    BY <2>9, OrderKeepsInv
  <2>10. CASE RecordDeploy(e)
    BY <2>10, DeployedKeepsInv
  <2>11. CASE Notify(e)
    BY <2>11, NotifyKeepsInv
  <2> QED
    BY <1>3, <2>1, <2>2, <2>3, <2>4, <2>5, <2>6, <2>7, <2>8, <2>9, <2>10, <2>11 DEF Step
<1> QED
  BY <1>1, <1>2, <1>3 DEF Next

\* The inductive invariant: every execution knows what its label says, the recorded files
\* are right, and remote resources only gain.
THEOREM PipelineInvariant == Spec => []Inv
  BY InvInit, InvNext, PTL DEF Spec

\* A notification names a site only if it came up and a repository only if it was pushed
\* and is public (tools.py:165-201), however executions of the run interleave and die.
THEOREM PipelineNoticesAreTrue == Spec => []NoticeIsTrue
<1>1. Inv => NoticeIsTrue
  BY DEF Inv, Records, Public, Up, NoticeIsTrue
<1> QED
  BY <1>1, PipelineInvariant, PTL

\* No droplet is paid for whose repository does not exist (dev_tools.py:602-606).
THEOREM DropletsHaveSources == Spec => []DropletHasSource
<1>1. Inv => DropletHasSource
  BY DEF Inv, RemoteOK
<1> QED
  BY <1>1, PipelineInvariant, PTL

\* No agent gets more rounds of tool calls than it may (tool_runner.py:63), and who
\* publishes or waits knows what for.
THEOREM TypesAreKept == Spec => []TypeOK
<1>1. ASSUME Inv PROVE project \in Trees /\ crashes \in 0 .. MaxCrashes
  BY <1>1 DEF Inv, Shape
<1>2. ASSUME Inv PROVE published \in Names \union {"none"} /\ deployed \in 0 .. MaxDroplets
  BY <1>2, DevPipelineAssumption DEF Inv, Records, Public, Up, DropletIds
<1>3. ASSUME Inv PROVE
        /\ \A n \in Names : repos[n].pushed => repos[n].exists
        /\ \A d \in DropletIds : droplets[d].state \in {"none", "building", "up", "down"}
  BY <1>3 DEF Inv, RemoteOK, Shape, Droplet
<1>4. ASSUME Inv, NEW e \in Executors PROVE
        /\ exec[e].pc \in {"create", "push", "public", "record", "order"} => exec[e].name \in Names
        /\ At(e, "wait") => exec[e].droplet \in DropletIds
        /\ exec[e].round \in 0 .. MaxRounds
  BY <1>4 DEF Inv, Shape, Knows, Execution, At
<1>5. Inv => TypeOK
  BY <1>1, <1>2, <1>3, <1>4 DEF TypeOK
<1> QED
  BY <1>5, PipelineInvariant, PTL

-----------------------------------------------------------------------------
(* What is pushed is whole, unless a file was written under a publish. *)

Whole == {"canonical", "nothing"}

\* While nobody has written under a publish, whoever is between preparing the directory and
\* pushing it finds it as it was prepared, and everything pushed was whole.
WholeInv ==
  ~raced =>
    /\ \A e \in Executors :
         exec[e].pc \in {"create", "push"} => project # Empty /\ Content(project) \in Whole
    /\ \A n \in Names : repos[n].holds \in Whole

\* Where an execution goes; the others stay where they are.
Arrives(e, labels) ==
  /\ exec'[e].pc \in labels
  /\ \A f \in Executors \ {e} : exec'[f] = exec[f]

LEMMA SetsPc ==
  ASSUME Inv, NEW e \in Executors, NEW y, exec' = [exec EXCEPT ![e] = y], NEW labels, y.pc \in labels
  PROVE  Arrives(e, labels)
  BY DEF Arrives, Inv, Shape

LEMMA ReturnArrives ==
  ASSUME Inv, NEW e \in Executors, Returned(e)
  PROVE  Arrives(e, {"calls", "ask"})
<1>1. PICK label \in {"calls", "ask"} :
        exec' = [exec EXCEPT ![e] = [exec[e] EXCEPT !.pc = label, !.name = "none", !.droplet = 0]]
  BY DEF Returned, Inv, Shape
<1>2. PICK y : y = [exec[e] EXCEPT !.pc = label, !.name = "none", !.droplet = 0]
  OBVIOUS
<1>3. exec[e] \in Execution
  BY DEF Inv, Shape
<1>4. y.pc = label
  BY <1>2, <1>3 DEF Execution
<1> QED
  BY <1>1, <1>2, <1>4, SetsPc

\* The labels that a step of an execution leads to.
LEMMA StepArrives ==
  ASSUME Inv, NEW e \in Executors, Step(e)
  PROVE  /\ Prepare(e) => Arrives(e, {"create"})
         /\ CreateRepo(e) => Arrives(e, {"push"})
         /\ ~Prepare(e) /\ ~CreateRepo(e) => Arrives(e, Labels \ {"create", "push"})
<1>1. exec \in [Executors -> Execution] /\ exec[e] \in Execution
  BY DEF Inv, Shape
<1>2. ASSUME NEW l, exec' = [exec EXCEPT ![e].pc = l]
      PROVE  Arrives(e, {l})
  BY <1>1, <1>2 DEF Arrives, Execution
<1>3. ASSUME NEW l, NEW n, exec' = [exec EXCEPT ![e].pc = l, ![e].name = n]
      PROVE  Arrives(e, {l})
  <2>1. PICK y : y = [exec[e] EXCEPT !.pc = l, !.name = n]
    OBVIOUS
  <2>2. y.pc = l /\ exec' = [exec EXCEPT ![e] = y]
    BY <1>1, <1>3, <2>1 DEF Execution
  <2> QED
    BY <2>2, SetsPc
<1>4. ASSUME NEW l, NEW d, exec' = [exec EXCEPT ![e].pc = l, ![e].droplet = d]
      PROVE  Arrives(e, {l})
  <2>1. PICK y : y = [exec[e] EXCEPT !.pc = l, !.droplet = d]
    OBVIOUS
  <2>2. y.pc = l /\ exec' = [exec EXCEPT ![e] = y]
    BY <1>1, <1>4, <2>1 DEF Execution
  <2> QED
    BY <2>2, SetsPc
<1>5. Prepare(e) => Arrives(e, {"create"})
  BY <1>3 DEF Prepare
<1>6. CreateRepo(e) => Arrives(e, {"push"})
  BY <1>2 DEF CreateRepo, GoTo
<1>7. ASSUME \/ FinishCopy(e) \/ Look(e) \/ WriteFile(e) \/ PublishFails(e) \/ RecordPublish(e)
             \/ OrderFails(e) \/ RecordDeploy(e) \/ WaitFails(e) \/ Notify(e)
      PROVE  Arrives(e, {"calls", "ask"})
  BY <1>7, ReturnArrives DEF FinishCopy, Look, WriteFile, PublishFails, RecordPublish, OrderFails,
                             RecordDeploy, WaitFails, Notify
<1>8. ASSUME BeginCopy(e) \/ Push(e) \/ MakePublic(e)
      PROVE  Arrives(e, {"copy", "public", "record"})
  <2>1. Arrives(e, {"copy"}) \/ Arrives(e, {"public"}) \/ Arrives(e, {"record"})
    BY <1>2, <1>8 DEF BeginCopy, Push, MakePublic, GoTo
  <2> QED
    BY <2>1 DEF Arrives
<1>9. ASSUME Preflight(e)
      PROVE  Arrives(e, {"order", "calls", "ask"})
  <2>1. Arrives(e, {"order"}) \/ Arrives(e, {"calls", "ask"})
    <3>1. CASE Returned(e)
      BY <3>1, ReturnArrives
    <3>2. ASSUME NEW n, exec' = [exec EXCEPT ![e].pc = "order", ![e].name = n]
          PROVE  Arrives(e, {"order"})
      BY <1>3, <3>2
    <3> QED
      BY <1>9, <3>1, <3>2 DEF Preflight
  <2> QED
    BY <2>1 DEF Arrives
<1>10. ASSUME Order(e)
       PROVE  Arrives(e, {"wait", "calls", "ask"})
  <2>1. Arrives(e, {"wait"}) \/ Arrives(e, {"calls", "ask"})
    <3>1. CASE Returned(e)
      BY <3>1, ReturnArrives
    <3>2. ASSUME NEW d, exec' = [exec EXCEPT ![e].pc = "wait", ![e].droplet = d]
          PROVE  Arrives(e, {"wait"})
      BY <1>4, <3>2
    <3> QED
      BY <1>10, <3>1, <3>2 DEF Order
  <2> QED
    BY <2>1 DEF Arrives
<1>11. ASSUME Begin(e) \/ Ask(e) \/ Answer(e) \/ Crash(e)
       PROVE  Arrives(e, {"ask", "calls", "done"})
  <2>1. CASE Begin(e)
    <3>1. PICK y : y = [Idle EXCEPT !.pc = "ask", !.agent = "planner"]
      OBVIOUS
    <3>2. y.pc \in {"ask", "calls", "done"}
      BY <3>1 DEF Idle
    <3>3. exec' = [exec EXCEPT ![e] = y]
      BY <2>1, <3>1, Zenon DEF Begin
    <3> QED
      BY <3>2, <3>3, SetsPc
  <2>2. CASE Ask(e)
    <3>1. PICK y : y = [exec[e] EXCEPT !.pc = "calls", !.round = @ + 1]
      OBVIOUS
    <3>2. y.pc = "calls" /\ exec' = [exec EXCEPT ![e] = y]
      BY <1>1, <2>2, <3>1 DEF Ask, Execution
    <3> QED
      BY <3>2, SetsPc
  <2>3. CASE Answer(e)
    <3>1. PICK a : exec' = [exec EXCEPT ![e] = IF a = "end" THEN [Idle EXCEPT !.pc = "done"]
                                               ELSE [Idle EXCEPT !.pc = "ask", !.agent = a]]
      BY <2>3 DEF Answer
    <3>2. PICK y : y = IF a = "end" THEN [Idle EXCEPT !.pc = "done"]
                       ELSE [Idle EXCEPT !.pc = "ask", !.agent = a]
      OBVIOUS
    <3>3. y.pc \in {"done", "ask"}
      BY <3>2 DEF Idle
    <3> QED
      BY <3>1, <3>2, <3>3, SetsPc
  <2>4. CASE Crash(e)
    <3>1. PICK y : y = [Idle EXCEPT !.pc = "done"]
      OBVIOUS
    <3>2. y.pc \in {"ask", "calls", "done"}
      BY <3>1 DEF Idle
    <3>3. exec' = [exec EXCEPT ![e] = y]
      BY <2>4, <3>1, Zenon DEF Crash
    <3> QED
      BY <3>2, <3>3, SetsPc
  <2> QED
    BY <1>11, <2>1, <2>2, <2>3, <2>4
<1>12. ASSUME NEW labels, labels \subseteq Labels \ {"create", "push"}, Arrives(e, labels)
       PROVE  Arrives(e, Labels \ {"create", "push"})
  BY <1>12 DEF Arrives
<1>13. /\ {"calls", "ask"} \subseteq Labels \ {"create", "push"}
       /\ {"copy", "public", "record"} \subseteq Labels \ {"create", "push"}
       /\ {"order", "calls", "ask"} \subseteq Labels \ {"create", "push"}
       /\ {"wait", "calls", "ask"} \subseteq Labels \ {"create", "push"}
       /\ {"ask", "calls", "done"} \subseteq Labels \ {"create", "push"}
  BY DEF Labels
<1>14. ~Prepare(e) /\ ~CreateRepo(e) => Arrives(e, Labels \ {"create", "push"})
  BY <1>7, <1>8, <1>9, <1>10, <1>11, <1>12, <1>13 DEF Step
<1> QED
  BY <1>5, <1>6, <1>14

\* A directory that publish has prepared is whole.
LEMMA EnforcedIsWhole ==
  ASSUME NEW t \in Trees
  PROVE  Content(Enforced(t)) \in Whole /\ (t # Empty => Enforced(t) # Empty)
  BY DEF Trees, Mains, Pages, Dockers, Enforced, Content, Whole, Empty

LEMMA WholeInit == Init => WholeInv
  BY DEF Init, WholeInv, Idle, NoRepo, Whole

LEMMA WholeStep ==
  ASSUME Inv, WholeInv, NEW e \in Executors, Step(e)
  PROVE  WholeInv'
<1>1. project \in Trees /\ repos \in [Names -> Repo]
  BY DEF Inv, Shape
<1>2. /\ Prepare(e) => Arrives(e, {"create"})
      /\ CreateRepo(e) => Arrives(e, {"push"})
      /\ ~Prepare(e) /\ ~CreateRepo(e) => Arrives(e, Labels \ {"create", "push"})
  BY StepArrives
<1>3. ASSUME ~raced'
      PROVE  ~raced /\ (FinishCopy(e) \/ WriteFile(e) => ~Publishing(e))
  <2>1. CASE FinishCopy(e) \/ WriteFile(e)
    BY <1>3, <2>1, Zenon DEF FinishCopy, WriteFile
  <2>2. CASE ~(FinishCopy(e) \/ WriteFile(e))
    <3>1. raced' = raced
      <4>1. /\ Begin(e) \/ Ask(e) \/ Answer(e) \/ Crash(e) => raced' = raced
            /\ BeginCopy(e) \/ Look(e) \/ Prepare(e) \/ PublishFails(e) => raced' = raced
            /\ RecordPublish(e) \/ Preflight(e) \/ Order(e) \/ OrderFails(e) => raced' = raced
            /\ RecordDeploy(e) \/ WaitFails(e) \/ Notify(e) => raced' = raced
        BY DEF Begin, Ask, Answer, Crash, BeginCopy, Look, Prepare, PublishFails, RecordPublish,
           Preflight, Order, OrderFails, RecordDeploy, WaitFails, Notify
      <4>2. CreateRepo(e) \/ Push(e) \/ MakePublic(e) => raced' = raced
        BY Zenon DEF CreateRepo, Push, MakePublic
      <4> QED
        BY <2>2, <4>1, <4>2, Zenon DEF Step
    <3> QED
      BY <1>3, <2>2, <3>1, Zenon
  <2> QED
    BY <2>1, <2>2, Zenon
<1>4. ASSUME ~raced'
      PROVE  \A f \in Executors :
               exec'[f].pc \in {"create", "push"} => project' # Empty /\ Content(project') \in Whole
  <2>1. \A f \in Executors :
          exec[f].pc \in {"create", "push"} => project # Empty /\ Content(project) \in Whole
    BY <1>3, <1>4 DEF WholeInv
  <2>2. CASE Prepare(e)
    BY <1>1, <2>2, EnforcedIsWhole DEF Prepare, NeedsTemplate
  <2>3. CASE FinishCopy(e) \/ WriteFile(e)
    <3>1. \A f \in Executors \ {e} : exec[f].pc \notin {"create", "push"}
      BY <1>3, <1>4, <2>3 DEF Publishing
    <3>2. Arrives(e, {"calls", "ask"})
      BY <2>3, ReturnArrives DEF FinishCopy, WriteFile
    <3> QED
      BY <3>1, <3>2 DEF Arrives
  <2>4. CASE BeginCopy(e)
    <3>1. \A f \in Executors \ {e} : exec[f].pc \notin {"create", "push"}
      BY <2>1, <2>4 DEF BeginCopy, NeedsTemplate
    <3>2. exec'[e].pc \notin {"create", "push"}
      BY <1>1, <2>4 DEF BeginCopy, GoTo, Inv, Shape, Execution
    <3>3. \A f \in Executors \ {e} : exec'[f] = exec[f]
      BY <2>4 DEF BeginCopy, GoTo, Inv, Shape
    <3> QED
      BY <3>1, <3>2, <3>3
  <2>5. CASE CreateRepo(e)
    <3>1. exec[e].pc = "create" /\ project' = project
      BY <2>5 DEF CreateRepo, At, files
    <3> QED
      BY <1>2, <2>1, <2>5, <3>1 DEF Arrives
  <2>6. CASE ~(Prepare(e) \/ FinishCopy(e) \/ WriteFile(e) \/ BeginCopy(e) \/ CreateRepo(e))
    <3>1. project' = project
      BY <2>6 DEF Step, files, Begin, Ask, Answer, Crash, Look, Push, MakePublic, PublishFails,
         RecordPublish, Preflight, Order, OrderFails, RecordDeploy, WaitFails, Notify
    <3> QED
      BY <1>2, <2>1, <2>6, <3>1 DEF Arrives
  <2> QED
    BY <2>2, <2>3, <2>4, <2>5, <2>6
<1>5. ASSUME ~raced'
      PROVE  \A n \in Names : repos'[n].holds \in Whole
  <2>1. \A n \in Names : repos[n].holds \in Whole
    BY <1>3, <1>5 DEF WholeInv
  <2>2. CASE CreateRepo(e)
    <3>1. PICK m, v : /\ m = exec[e].name /\ repos' = [repos EXCEPT ![m] = v]
                      /\ v = IF repos[m].exists THEN repos[m]
                             ELSE [NoRepo EXCEPT !.exists = TRUE, !.public = TRUE]
      BY <2>2 DEF CreateRepo
    <3>2. m \in Names
      BY <2>2, <3>1 DEF Inv, Knows, CreateRepo, At
    <3>3. v.holds \in Whole
      BY <2>1, <3>1, <3>2 DEF NoRepo, Whole
    <3> QED
      BY <1>1, <2>1, <3>1, <3>3
  <2>3. CASE Push(e)
    <3>1. PICK m, v : /\ m = exec[e].name /\ repos' = [repos EXCEPT ![m] = v]
                      /\ v = [repos[m] EXCEPT !.pushed = TRUE, !.holds = Content(project)]
      BY <2>3 DEF Push
    <3>2. m \in Names /\ repos[m] \in Repo
      BY <1>1, <2>3, <3>1 DEF Inv, Knows, Push, At
    <3>3. v.holds \in Whole
      BY <1>3, <1>5, <2>3, <3>1, <3>2 DEF WholeInv, Push, At, Repo
    <3> QED
      BY <1>1, <2>1, <3>1, <3>3
  <2>4. CASE MakePublic(e)
    <3>1. PICK m : m = exec[e].name /\ repos' = [repos EXCEPT ![m].public = TRUE]
      BY <2>4 DEF MakePublic
    <3>2. \A n \in Names : repos'[n].holds = repos[n].holds
      BY <1>1, <3>1 DEF Repo
    <3> QED
      BY <2>1, <3>2
  <2>5. CASE ~(CreateRepo(e) \/ Push(e) \/ MakePublic(e))
    <3>1. repos' = repos
      BY <2>5 DEF Step, Begin, Ask, Answer, Crash, BeginCopy, FinishCopy, Look, WriteFile, Prepare,
         PublishFails, RecordPublish, Preflight, Order, OrderFails, RecordDeploy, WaitFails, Notify
    <3> QED
      BY <2>1, <3>1
  <2> QED
    BY <2>2, <2>3, <2>4, <2>5
<1> QED
  BY <1>4, <1>5, Zenon DEF WholeInv

\* The recorded repository serves its pages and is built by the canonical Docker files
\* (dev_tools.py:698-776), for any number of executions of the run, if the directory had
\* pages and a backend and nobody wrote to it under the publish.
THEOREM PublishesAreWhole == Spec => []PublishedIsWhole
<1>1. ASSUME Inv, WholeInv, NEW d \in DropletIds, Build(d) PROVE WholeInv'
  BY <1>1 DEF WholeInv, Build, files
<1>2. ASSUME WholeInv, UNCHANGED vars PROVE WholeInv'
  BY <1>2 DEF WholeInv, vars, files
<1>3. Inv /\ WholeInv /\ [Next]_vars => WholeInv'
  BY <1>1, <1>2, WholeStep DEF Next
<1>4. Inv /\ WholeInv => PublishedIsWhole
  BY DEF Inv, Records, Public, WholeInv, Whole, PublishedIsWhole
<1> QED
  BY <1>3, <1>4, WholeInit, PipelineInvariant, PTL DEF Spec

=============================================================================
