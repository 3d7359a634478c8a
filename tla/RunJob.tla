-------------------------------- MODULE RunJob --------------------------------
(***************************************************************************)
(* One invocation of a command that runs tools itself: run-job on its      *)
(* local, container or kubernetes backend (cli.py cmd_run_job, runner/,    *)
(* roles/ai_it_topic_runner.py), research stock (runner/stock_research.py) *)
(* and x-smoke.                                                            *)
(*                                                                         *)
(* Two actors: the command (host) keeps the session and task rows; the     *)
(* runner makes the tool calls and writes the document.  For local, stock  *)
(* and x-smoke the runner is the command's own thread.  For container and  *)
(* kubernetes it is runner-execute in a process of its own, which nobody   *)
(* stops when the command gives up waiting.                                *)
(***************************************************************************)
EXTENDS ToolGate, Sequences

CONSTANTS
  Queries,  \* how many queries of the query set are used (at most 3)
  Targets   \* the repo a job's output may name, or Nothing, and the path of
            \* its digest: records [repo, path]

ASSUME RunJobAssumption == Queries \in Nat \ {0}

VARIABLES
  cmd,       \* the command and its environment; never changes
  host,      \* the command's place
  exit,      \* how it ended: its exit code, "raised" or "killed"
  session,   \* its row in sessions
  task,      \* its row in tasks
  runner,    \* the runner's place
  step,      \* its position in Plan
  answered,  \* the steps whose tool answered
  empty,     \* those of them that are searches without posts
  called,    \* the tools a request was sent for
  file,      \* the Markdown file is written
  document,  \* its row in documents
  result     \* .sessions/<id>/result.json

hostVars   == <<host, exit, session, task>>
runnerVars == <<runner, step, answered, empty, called, file, document, result>>
vars       == <<cmd, hostVars, runnerVars>>

Detached == {"container", "kubernetes"}
Digests  == Detached \cup {"local"}
Kinds    == Digests \cup {"stock", "xsmoke"}

\* What the process that makes the calls finds in its environment.  The two
\* detached backends pass an allowlist on: AUTH_PROXY_URL always, X_MCP_URL
\* never, so they authorize remotely and collect mock topics.  On docker's
\* network "none", the default, auth-proxy cannot be reached.
Commands ==
  {c \in [kind : Kinds,
          remote : BOOLEAN,     \* AUTH_PROXY_URL
          reachable : BOOLEAN,  \* auth-proxy can be reached
          mcp : BOOLEAN,        \* X_MCP_URL
          token : BOOLEAN,      \* X_MCP_SESSION_TOKEN
          llm : BOOLEAN,        \* CLAUDE_PROXY_URL and its session token
          supported : BOOLEAN,  \* the job's role is ai_it_topic_runner
          target : Targets] :
     /\ c.kind \in Detached => c.remote /\ ~c.mcp
     /\ c.kind # "container" => c.reachable
     /\ c.kind = "xsmoke" => c.mcp
     /\ c.kind # "xsmoke" => c.token
     /\ c.kind \notin Digests => c.supported
     /\ c.llm => c.kind = "local" /\ c.mcp}

Role == IF cmd.kind = "stock" THEN "stock_researcher" ELSE "ai_it_topic_runner"

Search    == "x.search_posts_recent"
Summarize == "claude.summarize_signals"
Commit    == "document.commit_and_push_markdown_repo"

\* A step that asks for permission only ("gate"), one that must be answered
\* ("required"), and one that may fail in any way ("optional").
Step(tool, mode) == [tool |-> tool, mode |-> mode]

\* The tool calls of each command, in order: three J-Quants tools and an
\* optional X search; per query a search and its optional summary; mock topics.
Plan ==
  CASE cmd.kind = "stock" ->
         <<Step("jq.get_listed_info", "required"),
           Step("jq.get_daily_quotes", "required"),
           Step("jq.get_statements", "required"), Step(Search, "optional")>>
    [] cmd.kind = "xsmoke" -> <<Step(Search, "required")>>
    [] cmd.kind \in Digests /\ cmd.mcp ->
         [i \in 1..(2 * Queries) |-> IF i % 2 = 1 THEN Step(Search, "required")
                                                  ELSE Step(Summarize, "optional")]
           \o <<Step(Commit, "gate")>>
    [] OTHER -> [i \in 1..(Queries + 1) |->
                   Step(IF i <= Queries THEN Search ELSE Commit, "gate")]

HostPhases   == {"session", "workspace", "running", "task", "launch", "wait",
                 "finish", "close", "print", "fail", "failClose", "done"}
RunnerPhases == {"idle", "start", "auth", "call", "write", "record", "returned",
                 "raised", "escaped", "result", "except", "exit0", "exit1"}

TypeOK ==
  /\ cmd \in Commands
  /\ host \in HostPhases
  /\ exit \in {"none", "0", "1", "raised", "killed"}
  /\ session \in {"none", "created", "running", "stopped", "failed"}
  /\ task \in {"none", "queued", "succeeded", "failed"}
  /\ runner \in RunnerPhases
  /\ step \in 1..(Len(Plan) + 1)
  /\ answered \subseteq 1..Len(Plan)
  /\ empty \subseteq answered
  /\ called \subseteq {Plan[i].tool : i \in 1..Len(Plan)}
  /\ file \in BOOLEAN /\ document \in BOOLEAN
  /\ result \in {"none", "ok", "failed", "broken"}

Init ==
  /\ cmd \in Commands
  /\ host = "session" /\ exit = "none" /\ session = "none" /\ task = "none"
  /\ runner = "idle" /\ step = 1 /\ answered = {} /\ empty = {} /\ called = {}
  /\ file = FALSE /\ document = FALSE /\ result = "none"

-----------------------------------------------------------------------------
(* The runner: run_daily_digest, run_stock_research, and cmd_x_smoke       *)
(* between its rows.                                                       *)

RunnerGoes(from, to) == runner = from /\ runner' = to

\* An exception out of the body: runner-execute and cmd_run_job catch it all.
Raises == runner' = IF cmd.kind \in Detached THEN "except" ELSE "raised"

\* x-smoke looks after McpClientError and isError only: a timeout while reading
\* and a text that is no JSON leave the command.
Escapes == cmd.kind = "xsmoke" /\ runner' = "escaped"

\* execute_runner_task's check of the role; the stock memo's X_MCP_URL and MCP
\* handshake.
Begin ==
  /\ runner = "start"
  /\ \/ cmd.supported /\ (cmd.kind = "stock" => cmd.mcp) /\ runner' = "auth"
     \/ ~cmd.supported /\ Raises
     \/ cmd.kind = "stock" /\ Raises
  /\ UNCHANGED <<cmd, hostVars, step, answered, empty, called, file, document, result>>

\* runner-execute finds its configuration invalid, or does not know the job.
BeginFails ==
  /\ cmd.kind \in Detached
  /\ RunnerGoes("start", "exit1")
  /\ UNCHANGED <<cmd, hostVars, step, answered, empty, called, file, document, result>>

\* A query without posts is not summarized, nor is any without claude-proxy.
SkipsSummary ==
  Plan[step].tool = Summarize /\ (~cmd.llm \/ step - 1 \in empty)

\* "no X signals collected", before the commit is asked for.
NoSignals ==
  cmd.kind \in Digests /\ cmd.mcp /\ step = Len(Plan) /\ answered \subseteq empty

NextStep ==
  IF step < Len(Plan) THEN runner' = "auth" /\ step' = step + 1
  ELSE /\ runner' = IF cmd.kind = "xsmoke" THEN "returned" ELSE "write"
       /\ step' = step + 1

Skip ==
  /\ runner = "auth"
  /\ \/ SkipsSummary /\ NextStep
     \/ NoSignals /\ Raises /\ UNCHANGED step
  /\ UNCHANGED <<cmd, hostVars, answered, empty, called, file, document, result>>

\* run_pre_tool_use and what each caller makes of the decision.  The audit row
\* of a decision is written fail-open and decides nothing.
AskPermission ==
  /\ runner = "auth" /\ ~SkipsSummary /\ ~NoSignals
  /\ \E allowed \in Authorize(cmd.remote, cmd.reachable, Role, Plan[step].tool,
                              cmd.target) :
       CASE allowed /\ Plan[step].mode = "gate" -> NextStep
         [] allowed /\ Plan[step].mode # "gate" ->
              /\ IF cmd.token THEN runner' = "call" ELSE Raises
              /\ UNCHANGED step
         [] ~allowed /\ Plan[step].mode = "optional" -> NextStep
         [] OTHER -> Raises /\ UNCHANGED step
  /\ UNCHANGED <<cmd, hostVars, answered, empty, called, file, document, result>>

\* The tool answers; a search may answer without posts.
CallAnswered ==
  /\ runner = "call"
  /\ called' = called \cup {Plan[step].tool}
  /\ answered' = answered \cup {step}
  /\ empty' \in {empty} \cup (IF Plan[step].tool = Search THEN {empty \cup {step}} ELSE {})
  /\ NextStep
  /\ UNCHANGED <<cmd, hostVars, file, document, result>>

\* Mutant: isError is not looked at: the text of an error is taken for an answer without posts.
CallFailsQuietly ==
  /\ runner = "call"
  /\ called' = called \cup {Plan[step].tool}
  /\ NextStep
  /\ UNCHANGED <<cmd, hostVars, answered, empty, file, document, result>>

\* isError, McpClientError, an answer that is no JSON, no answer in time: an
\* optional step goes on without.
CallFails ==
  /\ runner = "call"
  /\ called' \in {called, called \cup {Plan[step].tool}}
  /\ IF Plan[step].mode = "optional" THEN NextStep
     ELSE /\ Raises \/ Escapes
          /\ UNCHANGED step
  /\ UNCHANGED <<cmd, hostVars, answered, empty, file, document, result>>

\* write_dry_run, or the memo's write_text; an exception may leave a file.
WriteFile ==
  /\ runner = "write"
  /\ \/ file' = TRUE /\ runner' = "record"
     \/ file' \in BOOLEAN /\ Raises
  /\ UNCHANGED <<cmd, hostVars, step, answered, empty, called, document, result>>

RecordDocument ==
  /\ runner = "record"
  /\ \/ document' = TRUE /\ runner' = "returned"
     \/ UNCHANGED document /\ Raises
  /\ UNCHANGED <<cmd, hostVars, step, answered, empty, called, file, result>>

\* cmd_runner_execute after the body: the payload is printed, then written to
\* result.json; an exception in either goes the way of one in the body.
PrintPayload ==
  /\ cmd.kind \in Detached
  /\ runner = "returned"
  /\ runner' \in {"result", "except"}
  /\ UNCHANGED <<cmd, hostVars, step, answered, empty, called, file, document, result>>

WriteResult ==
  /\ runner = "result"
  /\ \/ result' = "ok" /\ runner' = "exit0"
     \/ result' \in {"none", "broken"} /\ runner' = "except"
  /\ UNCHANGED <<cmd, hostVars, step, answered, empty, called, file, document>>

\* The except clause: the failed payload, which may not get written either.
ReportFailure ==
  /\ RunnerGoes("except", "exit1")
  /\ result' \in {"failed", "broken", result}
  /\ UNCHANGED <<cmd, hostVars, step, answered, empty, called, file, document>>

Exited == {"exit0", "exit1"}

\* The container or pod is killed: out of memory, evicted.
RunnerKilled ==
  /\ cmd.kind \in Detached
  /\ runner \notin Exited \cup {"idle"}
  /\ runner' = "exit1"
  /\ UNCHANGED <<cmd, hostVars, step, answered, empty, called, file, document, result>>

RunnerStep ==
  \/ Begin \/ BeginFails \/ Skip \/ AskPermission \/ CallAnswered \/ CallFails
  \/ WriteFile \/ RecordDocument \/ PrintPayload \/ WriteResult \/ ReportFailure

-----------------------------------------------------------------------------
(* The command.                                                            *)

HostGoes(from, to) == host = from /\ host' = to /\ UNCHANGED exit

Ends(code) == host' = "done" /\ exit' = code

CreateSession ==
  /\ HostGoes("session", IF cmd.kind = "stock" THEN "running" ELSE "workspace")
  /\ session' = "created"
  /\ UNCHANGED <<cmd, task, runnerVars>>

CreateWorkspace ==
  /\ HostGoes("workspace", "running")
  /\ UNCHANGED <<cmd, session, task, runnerVars>>

StartSession ==
  /\ HostGoes("running", "task")
  /\ session' = "running"
  /\ UNCHANGED <<cmd, task, runnerVars>>

\* The body follows in the same thread, or is to be launched.
CreateTask ==
  /\ HostGoes("task", IF cmd.kind \in Detached THEN "launch" ELSE "wait")
  /\ task' = "queued"
  /\ runner' = IF cmd.kind \in Detached THEN runner ELSE "start"
  /\ UNCHANGED <<cmd, session, step, answered, empty, called, file, document, result>>

\* docker run, or the POST of the Job.
Launch ==
  /\ HostGoes("launch", "wait")
  /\ runner' = "start"
  /\ UNCHANGED <<cmd, session, task, step, answered, empty, called, file, document, result>>

\* No docker, no ConfigMap name, or a POST without an answer: the Job may have
\* been created all the same.
LaunchFails ==
  /\ HostGoes("launch", "fail")
  /\ \/ UNCHANGED runner
     \/ cmd.kind = "kubernetes" /\ runner' = "start"
  /\ UNCHANGED <<cmd, session, task, step, answered, empty, called, file, document, result>>

\* The body in the command's own thread is over.
BodyReturns ==
  /\ cmd.kind \notin Detached
  /\ host = "wait"
  /\ \/ runner = "returned" /\ HostGoes("wait", "finish")
     \/ runner = "raised" /\ HostGoes("wait", "fail")
     \/ runner = "escaped" /\ Ends("raised")
  /\ UNCHANGED <<cmd, session, task, runnerVars>>

\* The payload the backend makes a RunnerExecutionResult of: docker's stdout,
\* or _collect_result's file.
PayloadReadable == cmd.kind = "kubernetes" => result = "ok"

\* The runner's process has ended, and docker run or a poll of the Job shows
\* it.  Standard output may hold more than the payload, and a read may fail.
RunnerSeen ==
  /\ \/ runner = "exit0" /\ PayloadReadable /\ HostGoes("wait", "finish")
     \/ runner \in Exited /\ HostGoes("wait", "fail")
  /\ UNCHANGED <<cmd, session, task, runnerVars>>

\* Mutant: the deadline is computed but never compared with the clock.
WaitWithoutDeadline ==
  /\ cmd.kind = "kubernetes" /\ runner \in Exited
  /\ HostGoes("wait", "fail")
  /\ UNCHANGED <<cmd, session, task, runnerVars>>

\* _wait_for_completion: a poll that fails ends the wait, and so does
\* timeout_seconds.  The Job has no deadline of its own and goes on.
WaitGivesUp ==
  /\ cmd.kind = "kubernetes"
  /\ HostGoes("wait", "fail")
  /\ UNCHANGED <<cmd, session, task, runnerVars>>

FinishSucceeded ==
  /\ HostGoes("finish", "close")
  /\ task' = "succeeded"
  /\ UNCHANGED <<cmd, session, runnerVars>>

CloseStopped ==
  /\ HostGoes("close", "print")
  /\ session' = "stopped"
  /\ UNCHANGED <<cmd, task, runnerVars>>

PrintResult ==
  /\ host = "print"
  /\ Ends("0")
  /\ UNCHANGED <<cmd, session, task, runnerVars>>

FinishFailed ==
  /\ HostGoes("fail", "failClose")
  /\ task' = "failed"
  /\ UNCHANGED <<cmd, session, runnerVars>>

\* Mutant: a session is stopped whatever became of its task.
CloseFailedStopped ==
  /\ host = "failClose"
  /\ Ends("1")
  /\ session' = "stopped"
  /\ UNCHANGED <<cmd, task, runnerVars>>

\* The message that follows may not get printed.
CloseFailed ==
  /\ host = "failClose"
  /\ Ends("1") \/ Ends("raised")
  /\ session' = "failed"
  /\ UNCHANGED <<cmd, task, runnerVars>>

\* Mutant: an exception while a success is finalized ends the command with 1, the rows as they are.
StepRaisesOutside ==
  /\ host \notin {"launch", "wait", "done"}
  /\ Ends(IF cmd.kind \in Digests /\ host \in {"finish", "close", "print"} THEN "1" ELSE "raised")
  /\ UNCHANGED <<cmd, session, task, runnerVars>>

\* A row that cannot be written, a workspace that cannot be made, a closed
\* standard output.  cmd_run_job finalizes a success inside its try, so that an
\* exception there makes it finalize once more, as failed.
StepRaises ==
  /\ host \notin {"launch", "wait", "done"}
  /\ IF cmd.kind \in Digests /\ host \in {"finish", "close", "print"}
       THEN host' = "fail" /\ UNCHANGED exit
       ELSE Ends("raised")
  /\ UNCHANGED <<cmd, session, task, runnerVars>>

\* The command is killed, and its own thread's work with it.
HostKilled ==
  /\ host # "done"
  /\ Ends("killed")
  /\ runner' = IF cmd.kind \in Detached THEN runner ELSE "escaped"
  /\ UNCHANGED <<cmd, session, task, step, answered, empty, called, file, document, result>>

HostStep ==
  \/ CreateSession \/ CreateWorkspace \/ StartSession \/ CreateTask
  \/ Launch \/ LaunchFails \/ BodyReturns \/ RunnerSeen \/ WaitGivesUp
  \/ FinishSucceeded \/ CloseStopped \/ PrintResult \/ FinishFailed \/ CloseFailed
  \/ StepRaises

Over == host = "done" /\ UNCHANGED vars

Next == RunnerStep \/ RunnerKilled \/ HostStep \/ HostKilled \/ Over

Spec == Init /\ [][Next]_vars

\* A step of the command's own thread; every request it makes has a timeout.
InlineStep == cmd.kind \notin Detached /\ RunnerStep

\* Nothing is assumed of a detached runner: it may hang.
FairSpec == Spec /\ WF_vars(HostStep) /\ WF_vars(InlineStep)

-----------------------------------------------------------------------------
(* Properties.                                                             *)

\* A task row says "succeeded" only with the evidence behind it: every required
\* tool answered, at least one query with posts, the file and its row written,
\* and the runner that did it ended well, whatever failed on the way and however
\* late the answer came (_call_jq_tool, _collect_real_topics, _collect_result).
SucceededRestsOnEvidence ==
  task = "succeeded" =>
    /\ \A i \in 1..Len(Plan) : Plan[i].mode = "required" => i \in answered
    /\ cmd.kind \in Digests /\ cmd.mcp =>
         \E i \in answered \ empty : Plan[i].tool = Search
    /\ cmd.kind # "xsmoke" => file /\ document
    /\ cmd.kind \in Detached => runner = "exit0"

\* The word of the authority the process is configured with.
Permits(tool) ==
  IF cmd.remote THEN cmd.reachable /\ Decide(RemotePolicy, Role, tool)
                ELSE Decide(LocalPolicy, Role, tool)

\* ... and, when that is the local policy and the job names a repository, of the
\* repository's own entry on the path.
MayCommit ==
  /\ Permits(Commit)
  /\ ~cmd.remote /\ NamesPlace(cmd.target) =>
       /\ cmd.target.repo \in DOMAIN Repositories
       /\ PathAllowed(cmd.target.repo, cmd.target.path)

\* hooks/pre_tool_use.py, "fail-closed": a request leaves for a tool, and a
\* digest is written, only on the word of the one authority the process is
\* configured with; an auth-proxy that cannot be reached never makes the local
\* policy decide.  A digest for a named repository is written under the local
\* policy only if that repository is listed and takes the path.  Of a job that
\* names none, the code asks for the permission to commit and no more.
NothingWithoutAuthority ==
  /\ \A tool \in called : Permits(tool)
  /\ file /\ cmd.kind \in Digests => MayCommit

\* The exit code and the rows tell the same story, also when finalizing a
\* success failed half-way and was done over as a failure (cmd_run_job).
ExitTellsRows ==
  /\ exit = "0" => task = "succeeded" /\ session = "stopped"
  /\ exit = "1" => task = "failed" /\ session = "failed"

\* The rows follow the lifecycle the tables promise; only run-job may take a
\* success back, and a late runner never turns a failure into a success.
Lifecycle == INSTANCE TaskLifecycle WITH
  Executions <- Kinds, Revisable <- Digests,
  session <- [k \in Kinds |-> IF k = cmd.kind THEN session ELSE "none"],
  task <- [k \in Kinds |-> IF k = cmd.kind THEN task ELSE "none"]

RowsFollowLifecycle == Lifecycle!Spec

\* Every command ends, however the tools, auth-proxy and the Job behave; only a
\* container that never exits keeps run-job waiting (docker run has no timeout).
CommandEnds ==
  (host # "done") ~> \/ host = "done"
                     \/ /\ cmd.kind = "container"
                        /\ host = "wait" /\ runner \notin Exited

-----------------------------------------------------------------------------
(* The inductive invariant behind the properties.                          *)

\* The rows at each place of the command.
RowsAtPlace ==
  /\ (exit = "none") = (host # "done")
  /\ host = "session" => session = "none" /\ task = "none"
  /\ host \in {"workspace", "running"} => session = "created" /\ task = "none"
  /\ host = "task" => session = "running" /\ task = "none"
  /\ host \in {"launch", "wait", "finish"} => session = "running" /\ task = "queued"
  /\ host = "close" => session = "running" /\ task = "succeeded"
  /\ host = "print" => session = "stopped" /\ task = "succeeded"
  /\ host = "fail" =>
       \/ session = "running" /\ task = "queued"
       \/ /\ cmd.kind \in Digests
          /\ session \in {"running", "stopped"} /\ task = "succeeded"
  /\ host = "failClose" =>
       /\ task = "failed"
       /\ session = "running" \/ (cmd.kind \in Digests /\ session = "stopped")
  /\ ExitTellsRows

\* How far the runner is, at each of its places.
ProgressAtPlace ==
  /\ host \in {"session", "workspace", "running", "task", "launch"} => runner = "idle"
  /\ runner \in {"result", "except", "exit0", "exit1"} => cmd.kind \in Detached
  /\ runner \in {"idle", "start"} => step = 1
  /\ runner \in {"auth", "call"} => step <= Len(Plan)
  /\ runner = "call" => Plan[step].mode # "gate"
  /\ runner \in {"write", "record", "returned", "result", "exit0"} => step = Len(Plan) + 1
  /\ file => step = Len(Plan) + 1
  /\ runner = "record" => file
  /\ runner \in {"returned", "result", "exit0"} /\ cmd.kind # "xsmoke" => file /\ document

\* What the steps behind the runner left: no required one without an answer, no
\* summary without the posts it is about, and no end of the plan without posts.
AnswersBehind ==
  /\ answered \subseteq 1..(step - 1)
  /\ \A i \in 1..(step - 1) : Plan[i].mode = "required" => i \in answered
  /\ \A i \in answered : Plan[i].tool = Summarize => i - 1 \in answered \ empty
  /\ runner = "call" /\ Plan[step].tool = Summarize => step - 1 \notin empty
  /\ step > Len(Plan) /\ cmd.kind \in Digests /\ cmd.mcp =>
       \E i \in answered \ empty : Plan[i].tool = Search

\* What was asked for was granted.
Granted ==
  /\ \A tool \in called : Permits(tool)
  /\ runner = "call" => Permits(Plan[step].tool)
  /\ step > Len(Plan) /\ cmd.kind \in Digests => MayCommit

\* A success being recorded is that of a runner that is through and stays so.
SuccessSettled ==
  host \in {"finish", "close", "print"} \/ task = "succeeded" =>
    /\ step = Len(Plan) + 1
    /\ cmd.kind # "xsmoke" => file /\ document
    /\ runner \in IF cmd.kind \in Detached THEN {"exit0"} ELSE {"returned", "escaped"}

IInv ==
  /\ TypeOK
  /\ RowsAtPlace
  /\ ProgressAtPlace
  /\ AnswersBehind
  /\ Granted
  /\ SuccessSettled

=============================================================================
