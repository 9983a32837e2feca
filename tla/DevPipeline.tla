---------------------------- MODULE DevPipeline ----------------------------
(***************************************************************************)
(* The build-and-deploy pipeline of one run: the tool loop of its agents   *)
(* (runtime/tool_runner.py), the tools that write, test, publish and       *)
(* deploy the generated project (runtime/dev_tools.py,                     *)
(* runtime/dev_project.py) and the notification (runtime/tools.py).  A     *)
(* redelivered task executes the run a second time, in the same directory. *)
(***************************************************************************)
EXTENDS Integers

CONSTANTS
  Executors,     \* the workers that may execute the run, one after or beside another
  NewNames,      \* names that publish may give a repository, none of them taken
  Taken,         \* the name of a repository the account has already
  MaxRounds,     \* MAX_TOOL_ITERATIONS
  MaxDroplets,   \* bound on the droplets ever created
  MaxCrashes     \* bound on the workers that die

ASSUME DevPipelineAssumption ==
  /\ Taken \notin NewNames /\ MaxRounds \in Nat \ {0}
  /\ MaxDroplets \in Nat /\ MaxCrashes \in Nat

VARIABLES
  project,      \* the run's directory, by what publish cares about
  published,    \* .orqestra_publish.json: the repository, or "none"
  deployed,     \* .orqestra_deploy.json: the droplet, or 0
  repos,        \* per name: what GitHub has
  droplets,     \* what DigitalOcean has, by id
  exec,         \* per executor: where it is
  crashes,
  sent,         \* the last notification delivered: history
  raced         \* a file was written under a publish in progress: history

files == <<project, published, deployed>>
vars == <<files, repos, droplets, exec, crashes, sent, raced>>

Names == NewNames \union {Taken}
DropletIds == 1 .. MaxDroplets

\* backend/main.py serves the site or does not; the pages and the Docker files are those
\* of the template or an agent ("own"), or those that publish puts there.
Mains == {"none", "bare", "site"}
Pages == {"none", "own", "premium"}
Dockers == {"none", "own", "canonical"}
Empty == [main |-> "none", pages |-> "none", docker |-> "none"]
Starter == [main |-> "site", pages |-> "own", docker |-> "own"]
Trees == [main : Mains, pages : Pages, docker : Dockers]
Partial == {t \in Trees \ {Empty, Starter} :
              t.main \in {"none", "site"} /\ t.pages # "premium" /\ t.docker # "canonical"}

NoRepo == [exists |-> FALSE, public |-> FALSE, pushed |-> FALSE, holds |-> "nothing"]
NoNotice == [live |-> 0, repo |-> "none", claim |-> FALSE]
NoDroplet == [repo |-> "none", state |-> "none"]
Idle == [pc |-> "off", agent |-> "none", round |-> 0, name |-> "none", droplet |-> 0]

Team == {"planner", "backend", "frontend", "reviewer", "tester", "devops"}

\* dev_pipeline_agent_specs: the tools each agent is given.
Tools(agent) ==
  CASE agent = "planner" -> {"init", "list"}
    [] agent \in {"backend", "frontend"} -> {"read", "write"}
    [] agent = "reviewer" -> {"read"}
    [] agent = "tester" -> {"test"}
    [] OTHER -> {"publish", "deploy", "notify"}

\* The drawing of the pipeline, whichever way its two gates decide.
After(agent) ==
  CASE agent = "planner" -> {"backend"} [] agent = "backend" -> {"frontend"}
    [] agent = "frontend" -> {"reviewer"} [] agent = "reviewer" -> {"backend", "tester"}
    [] agent = "tester" -> {"backend", "devops"} [] OTHER -> {"end"}

At(e, label) == exec[e].pc = label
GoTo(e, label) == exec' = [exec EXCEPT ![e].pc = label]
Exists(n) == n \in Names /\ repos[n].exists
FreeDroplets == {d \in DropletIds : droplets[d] = NoDroplet}

\* ensure_project_from_template leaves a directory alone that has anything in it.
NeedsTemplate == project = Empty

\* _enforce_premium_frontend: nothing without a frontend directory; main.py is patched
\* only where there is one.
Enforced_PagesOnly(t) == IF t.pages = "none" THEN t ELSE [t EXCEPT !.pages = "premium"]
Enforced(t) ==
  IF t.pages = "none" THEN t
  ELSE [main |-> IF t.main = "none" THEN "none" ELSE "site",
        pages |-> "premium", docker |-> "canonical"]

\* A tree by what a droplet can make of it: nothing to serve, served by accident, served
\* by the canonical Docker files, or a site that does not come up.
Content(t) ==
  IF t.pages = "none" \/ t.main = "none" THEN "nothing"
  ELSE IF t = [main |-> "site", pages |-> "premium", docker |-> "canonical"] THEN "canonical"
  ELSE IF t.main = "site" /\ t.docker # "none" THEN "site" ELSE "broken"

\* _preflight_repo_access, GitHub being reachable.
Readable_Always(n) == n # "none"
Readable(n) == Exists(n)

\* The repository do_deploy_from_github settles on: the one named, or the recorded one.
Source(n) ==
  IF Readable(n) THEN n
  ELSE IF published # "none" /\ published # n /\ Readable(published) THEN published
  ELSE "none"

\* _message_with_runtime_links, for a model that claims the site is live.
Notice == [live |-> deployed, repo |-> published,
           claim |-> deployed # 0 \/ published # "none"]

\* The droplet recorded, and when: once it answers.
MayRecord_Created(d) == droplets[d].state # "none"
MayRecord(d) == droplets[d].state = "up"

Init ==
  /\ project = Empty /\ published = "none" /\ deployed = 0
  /\ repos = [n \in Names |-> IF n = Taken THEN [NoRepo EXCEPT !.exists = TRUE]
                                           ELSE NoRepo]
  /\ droplets = [d \in DropletIds |-> NoDroplet]
  /\ exec = [e \in Executors |-> Idle]
  /\ crashes = 0 /\ sent = NoNotice /\ raced = FALSE

-----------------------------------------------------------------------------
\* The run is executed, and the tool loop of each of its agents.

Begin(e) ==
  /\ At(e, "off")
  /\ exec' = [exec EXCEPT ![e] = [Idle EXCEPT !.pc = "ask", !.agent = "planner"]]
  /\ UNCHANGED <<files, repos, droplets, crashes, sent, raced>>

MoreRounds_OneTooMany(e) == exec[e].round <= MaxRounds
MoreRounds(e) == exec[e].round < MaxRounds

\* The model asks for tools, another round of them.
Ask(e) ==
  /\ At(e, "ask") /\ MoreRounds(e)
  /\ exec' = [exec EXCEPT ![e].pc = "calls", ![e].round = @ + 1]
  /\ UNCHANGED <<files, repos, droplets, crashes, sent, raced>>

\* It answers with text, or has used up its rounds: the next agent, or the end.
Answer(e) ==
  /\ At(e, "ask")
  /\ \E a \in After(exec[e].agent) :
       exec' = [exec EXCEPT ![e] = IF a = "end" THEN [Idle EXCEPT !.pc = "done"]
                                   ELSE [Idle EXCEPT !.pc = "ask", !.agent = a]]
  /\ UNCHANGED <<files, repos, droplets, crashes, sent, raced>>

\* A call has its result, an error included; more calls may follow in the round.
Returned(e) ==
  \E label \in {"calls", "ask"} :
    exec' = [exec EXCEPT ![e] = [@ EXCEPT !.pc = label, !.name = "none", !.droplet = 0]]

MayCall(e, tool) == At(e, "calls") /\ tool \in Tools(exec[e].agent)

\* The worker dies; what it waited for goes on without it.
Crash(e) ==
  /\ ~At(e, "off") /\ ~At(e, "done") /\ crashes < MaxCrashes
  /\ crashes' = crashes + 1
  /\ exec' = [exec EXCEPT ![e] = [Idle EXCEPT !.pc = "done"]]
  /\ UNCHANGED <<files, repos, droplets, sent, raced>>

-----------------------------------------------------------------------------
\* The project directory.

\* Another executor is between preparing the directory and pushing it.
Publishing(e) == \E f \in Executors \ {e} : exec[f].pc \in {"create", "push"}

\* ensure_project_from_template copies file by file: a crash leaves some of them.
BeginCopy(e) ==
  /\ \E tool \in {"init", "list", "write", "test", "publish"} : MayCall(e, tool)
  /\ NeedsTemplate
  /\ project' \in Partial
  /\ GoTo(e, "copy")
  /\ UNCHANGED <<published, deployed, repos, droplets, crashes, sent, raced>>

FinishCopy(e) ==
  /\ At(e, "copy")
  /\ project' = Starter
  /\ raced' = (raced \/ Publishing(e))
  /\ Returned(e)
  /\ UNCHANGED <<published, deployed, repos, droplets, crashes, sent>>

\* init_dev_project, list_project_files, read_project_file and run_project_tests: what
\* they answer is the model's business.
Look(e) ==
  /\ \E tool \in {"init", "list", "read", "test"} : MayCall(e, tool)
  /\ ~NeedsTemplate \/ exec[e].agent \in {"backend", "frontend", "reviewer"}
  /\ Returned(e)
  /\ UNCHANGED <<files, repos, droplets, crashes, sent, raced>>

\* write_project_file: any agent that has it may write any file, whole.
WriteFile(e) ==
  /\ MayCall(e, "write") /\ ~NeedsTemplate
  /\ \/ \E main \in {"bare", "site"} : project' = [project EXCEPT !.main = main]
     \/ project' = [project EXCEPT !.pages = "own"]
     \/ project' = [project EXCEPT !.docker = "own"]
  /\ raced' = (raced \/ Publishing(e))
  /\ Returned(e)
  /\ UNCHANGED <<published, deployed, repos, droplets, crashes, sent>>

-----------------------------------------------------------------------------
\* github_publish_project

Prepare(e) ==
  /\ MayCall(e, "publish") /\ ~NeedsTemplate
  /\ project' = Enforced(project)
  /\ \E n \in Names : exec' = [exec EXCEPT ![e].pc = "create", ![e].name = n]
  /\ UNCHANGED <<published, deployed, repos, droplets, crashes, sent, raced>>

\* _create_github_repo: a name that is taken is used as if it had been created.
CreateRepo(e) ==
  LET n == exec[e].name IN
  /\ At(e, "create")
  /\ repos' = [repos EXCEPT ![n] = IF @.exists THEN @
                                   ELSE [NoRepo EXCEPT !.exists = TRUE, !.public = TRUE]]
  /\ GoTo(e, "push")
  /\ UNCHANGED <<files, droplets, crashes, sent, raced>>

\* _git_push_directory, by force.
Push(e) ==
  /\ At(e, "push")
  /\ repos' = [repos EXCEPT ![exec[e].name] = [@ EXCEPT !.pushed = TRUE, !.holds = Content(project)]]
  /\ GoTo(e, "public")
  /\ UNCHANGED <<files, droplets, crashes, sent, raced>>

MakePublic(e) ==
  /\ At(e, "public")
  /\ repos' = [repos EXCEPT ![exec[e].name].public = TRUE]
  /\ GoTo(e, "record")
  /\ UNCHANGED <<files, droplets, crashes, sent, raced>>

\* Any of the three fails: the answer is "failed", and what was done stays done.
PublishFails(e) ==
  /\ exec[e].pc \in {"create", "push", "public"}
  /\ Returned(e)
  /\ UNCHANGED <<files, repos, droplets, crashes, sent, raced>>

\* _save_publish_meta swallows its errors.
RecordPublish(e) ==
  /\ At(e, "record")
  /\ published' \in {exec[e].name, published}
  /\ Returned(e)
  /\ UNCHANGED <<project, deployed, repos, droplets, crashes, sent, raced>>

-----------------------------------------------------------------------------
\* do_deploy_from_github

\* The agent names any repository, or none there is; GitHub may also refuse to say.
Preflight(e) ==
  /\ MayCall(e, "deploy")
  /\ \E n \in Names \union {"none"} :
       IF Source(n) # "none"
       THEN exec' = [exec EXCEPT ![e].pc = "order", ![e].name = Source(n)]
       ELSE Returned(e)
  /\ UNCHANGED <<files, repos, droplets, crashes, sent, raced>>

\* _create_droplet_and_wait.  The answer to the POST may be lost.
Order(e) ==
  /\ At(e, "order")
  /\ \E d \in FreeDroplets :
       /\ droplets' = [droplets EXCEPT ![d] = [repo |-> exec[e].name, state |-> "building"]]
       /\ \/ exec' = [exec EXCEPT ![e].pc = "wait", ![e].droplet = d]
          \/ Returned(e)
  /\ UNCHANGED <<files, repos, crashes, sent, raced>>

OrderFails(e) ==
  /\ At(e, "order")
  /\ Returned(e)
  /\ UNCHANGED <<files, repos, droplets, crashes, sent, raced>>

\* cloud-init clones and builds; what it cloned decides whether the site comes up.
Build(d) ==
  /\ droplets[d].state = "building"
  /\ droplets' = [droplets EXCEPT ![d].state =
       IF repos[droplets[d].repo].holds \in {"canonical", "site"} THEN "up" ELSE "down"]
  /\ UNCHANGED <<files, repos, exec, crashes, sent, raced>>

\* Both pages answer; _save_deploy_meta swallows its errors.
RecordDeploy(e) ==
  /\ At(e, "wait") /\ MayRecord(exec[e].droplet)
  /\ deployed' \in {exec[e].droplet, deployed}
  /\ Returned(e)
  /\ UNCHANGED <<project, published, repos, droplets, crashes, sent, raced>>

\* Twenty minutes have passed, or a question to DigitalOcean failed.
WaitFails(e) ==
  /\ At(e, "wait")
  /\ Returned(e)
  /\ UNCHANGED <<files, repos, droplets, crashes, sent, raced>>

\* send_notification
Notify(e) ==
  /\ MayCall(e, "notify")
  /\ sent' = Notice
  /\ Returned(e)
  /\ UNCHANGED <<files, repos, droplets, crashes, raced>>

Step(e) ==
  \/ Begin(e) \/ Ask(e) \/ Answer(e) \/ Crash(e)
  \/ BeginCopy(e) \/ FinishCopy(e) \/ Look(e) \/ WriteFile(e)
  \/ Prepare(e) \/ CreateRepo(e) \/ Push(e) \/ MakePublic(e) \/ PublishFails(e)
  \/ RecordPublish(e)
  \/ Preflight(e) \/ Order(e) \/ OrderFails(e) \/ RecordDeploy(e) \/ WaitFails(e)
  \/ Notify(e)

Next == (\E e \in Executors : Step(e)) \/ (\E d \in DropletIds : Build(d))

Spec == Init /\ [][Next]_vars

-----------------------------------------------------------------------------
\* Types; who publishes has a repository in hand, who waits has a droplet.
TypeOK ==
  /\ project \in Trees /\ published \in Names \union {"none"} /\ deployed \in 0 .. MaxDroplets
  /\ \A n \in Names : repos[n].pushed => repos[n].exists
  /\ \A d \in DropletIds : droplets[d].state \in {"none", "building", "up", "down"}
  /\ \A e \in Executors :
       /\ exec[e].pc \in {"create", "push", "public", "record", "order"}
            => exec[e].name \in Names
       /\ At(e, "wait") => exec[e].droplet \in DropletIds
       /\ exec[e].round \in 0 .. MaxRounds /\ crashes \in 0 .. MaxCrashes

\* send_notification (tools.py:165-201) says a site is at a URL only if both its pages
\* answered there once, names only a repository that was pushed and is public, and passes
\* on a claim to be live only if one of the two is there.
NoticeIsTrue ==
  /\ sent.live # 0 => droplets[sent.live].state = "up"
  /\ sent.repo # "none" => repos[sent.repo].pushed /\ repos[sent.repo].public
  /\ sent.claim => sent.live # 0 \/ sent.repo # "none"

\* The recorded repository serves its pages and is built by the canonical Docker files
\* (dev_tools.py:698-776), if the directory had pages and a backend at all and nobody
\* wrote to it under the publish.
PublishedIsWhole ==
  published # "none" /\ ~raced => repos[published].holds \in {"canonical", "nothing"}

\* dev_tools.py:602-606: no droplet is paid for whose repository does not exist.
DropletHasSource == \A d \in DropletIds : droplets[d] # NoDroplet => Exists(droplets[d].repo)

=============================================================================
