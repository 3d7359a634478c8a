# TLA+ verification of 7mimi-agent

7mimi-agent ("shichimimi") is a resident orchestrator in Python
(`src/src/shichimimi_agent`) that fires scheduled jobs, starts Claude Code in
containers to do them, and records what happened in SQLite; and a set of Go
services (`src/services`) that keep all credentials on their side: `auth-proxy`
(MCP tools, git relay, Slack relay, session tokens), `claude-proxy` and
`egress-proxy`. This directory models the parts of it that have steps other
actors can get between, checks them with TLC and proves with TLAPS, for every
value of the constants, every safety property the runs check.

Run a model: `tlc -config SchedulerEngine_loop.cfg MCSchedulerEngine`.
Check a proof: `tlapm SchedulerEngineProofs.tla`.
`PROJECT.json` lists the runs, the source lines behind every definition, the
hazards of the code and the property that covers each, and, for every property,
a mutated definition under which it fails. Definitions commented `Mutant:` exist
for that purpose only and are used by no specification.

## 1. Inventory

| component | source | state | operations | what makes it hard |
|---|---|---|---|---|
| scheduler engine | `scheduler/engine.py`, `scheduler/notify.py` | `_last_fired` (memory), one loop thread, one worker thread per attempt under a deadline | `run_forever`, `run_pending`, `_run_job_safely`, `_dispatch`, `_run_with_deadline`, `_notify` | detached workers, retries, sleeps that end early or late, exceptions in the middle of a pass, a restart that forgets what fired |
| cron expressions | `scheduler/cron.py` | none | `parse`, `matches`, `next_after` | dom/dow rule, alias of Sunday, steps, the end of the search |
| session store | `auth-proxy/internal/session` | map token to role, expiry, calls | `Issue`, `Resolve`, `Valid`, `Charge`, sweep | each operation is atomic, sequences of them are not; restart forgets all |
| MCP endpoint | `auth-proxy/internal/xmcp`, `internal/policy` | none of its own | `authorizeToken`, `handleToolsCall`, `callTool` | authorization, policy and charge are separate steps of concurrent requests |
| credential caches | `auth-proxy/internal/githubapp`, `internal/jquants` | cached token, its expiry, the installation id | `Token`, `IDToken`, `installationIDFor` | the lock is not held over the request: concurrent misses, late stores |
| digest jobs | `runner/claude_digest.py`, `runner/invest_digest.py`, executors and commands in `cli.py`, `runner/k8s_claude_launcher.py` | rows in sessions, tasks, documents; a container; the notes repository or a Slack channel | the steps of one attempt | an attempt that was given up goes on; one started by hand runs beside it; containers outlive the wait; midnight; SQLite refusing a write |
| task and session rows | `db/repository.py` | tables sessions, tasks, documents, tool_events, research_queue | one commit per call | nothing ties the writes of one execution together |
| X signal collector | `runner/collect_x.py`, `normalizePosts` | research_queue | `run_collect_x` | read once, insert later; fields that two services must agree on |
| Slack relay | `auth-proxy/internal/slacknotify` | none | `handleNotify`, `splitIntoChunks`, `hardSplit` | bytes and characters; the chunks posted before one fails |
| git relay | `auth-proxy/internal/gitrelay` | none | `authorize`, reverse proxy | shares the session store |
| run-job, runner backends | `cli.py`, `runner/backend.py`, `local_runner.py`, `container_runner.py`, `kubernetes_runner.py`, `roles/ai_it_topic_runner.py` | result.json, a Markdown file, rows | local, container and kubernetes execution, `runner-execute`, finalization | a runner that outlives the command; a result told twice, on standard output and on a shared volume; a success finalized inside the `try` |
| stock research, x-smoke | `cli.py`, `runner/stock_research.py` | rows, a Markdown file | three required tool calls, one optional; a single call | partial failure; exceptions of a kind nobody catches |
| policy engine | `security/`, `proxies/auth_proxy_client.py`, `hooks/` | none | local decision, remote decision | two policies for one decision, and which of them decides when auth-proxy is away |
| claude-proxy, egress-proxy | `services/claude-proxy`, `services/egress-proxy` | none | relay, CONNECT | streams, address checks |
| configuration, rendering, redaction, document writer, smoke commands, deployment | the rest | none, or one file | load once, format text | not concurrent |

Interactions. The scheduler calls an executor in its own thread, or in a worker
it waits for until a deadline; the executor writes rows, asks auth-proxy for a
session token (`/session/issue`), starts a container or a Kubernetes Job, waits
for it with a timeout of its own, and verifies or publishes what it left. The
container calls auth-proxy's `/mcp` and git relay with the session token;
auth-proxy calls GitHub, J-Quants, X and Slack with credentials from its caches.

Correctness, in a sentence per component: a job fires at most once a minute, is
tried as often as configured and is reported once; a cron expression means what
cron says; nothing is called or written but on the word of the one authority
configured; a token pays for at most its cap of calls, within its life and its
role; no dead credential is handed out; a row that says published or succeeded
is true of the outside world, and the exit code of a command agrees with its
rows; a URL is queued once unless collectors overlap; a
text survives being cut into chunks.

## 2. Modules

| module | models | composed with |
|---|---|---|
| `SchedulerEngine` | `scheduler/engine.py` | constants in `MCSchedulerEngine`; proofs in `SchedulerEngineProofs` |
| `SessionStore` | `internal/session` | extended by `XMcp` |
| `XMcp` | `/session/issue`, `/mcp` and the git relay's use of the store | constants in `MCXMcp`; proofs in `XMcpProofs`, which also hold those about `SessionStore` |
| `TokenSource` | `internal/githubapp`, `internal/jquants` | symmetry in `MCTokenSource`; proofs in `TokenSourceProofs` |
| `TaskLifecycle` | what the sessions and tasks tables promise (abstract) | implemented by `DigestJob`, `RunJob` and `CollectX` |
| `DigestJob` | one firing of a digest job with all its attempts, and the same digest started by hand | instantiates `TaskLifecycle`; proofs in `DigestJobProofs` |
| `ToolGate` | `run_pre_tool_use`, `AuthProxyClient`, `PolicyEngine`, `is_path_allowed` | extended by `RunJob` |
| `RunJob` | one invocation of run-job, research stock or x-smoke, with its runner | instantiates `TaskLifecycle`; policies and targets in `MCRunJob`; proofs in `RunJobProofs` |
| `CollectX` | `run_collect_x` and `normalizePosts` | instantiates `TaskLifecycle`; constants in `MCCollectX`; proofs in `CollectXProofs` |
| `CronSchedule` | `scheduler/cron.py` | calendar and expressions in `MCCronSchedule`; proofs in `CronScheduleProofs` |
| `SlackChunks` | `splitIntoChunks`, `hardSplit` | proofs in `SlackChunksProofs` |

### SchedulerEngine

`pc` is what the loop thread does: `sleep` (in `_sleep_fn`), `scan` (at a job in
`run_pending`), `attempt` (the head of `_dispatch`'s loop), `wait` (for the
executor, inline or in `join`), `notify` (in `_notify`). `now` is
`run_forever`'s local: it is read once per iteration and used again for the
sleep after the jobs ran (`GoToSleep`), which is how the loop drifts. `runs`
holds every executor invocation; one whose deadline passed stays `running` and
ends, or does not, at any later time (`ExecutorEnds`). One action per branch:
not due, already fired, no executor, an exception before the loop of `_dispatch`
(`DispatchRaises`, a `backoff_limit` that is not a number), dispatch; attempt
succeeded, raised, past its deadline; notifier returned or raised. Time passes
only while the loop thread waits. `Slack` is the difference a sleep, measured on
the monotonic clock, may show on the wall clock; `Horizon` and `MaxWait` are
bounds. `Restart` kills the process at any step and starts it again:
`_last_fired`, the results and the loop's locals are lost, and the workers,
which are daemon threads, die with it (`killed`). Each invocation and result
carries the number of the process that made it. `run_once` is a single pass of
the same loop.

### SessionStore and XMcp

Every store operation is one step, since it holds the mutex throughout. A
request is a goroutine with a stage: `Authorize` (static token, or `Resolve`),
`HandleToolsCall` (known tool, policy), `HandleCharge`, `CallTool`; between any
two of them time may pass, the sweep run, another request charge the token, or
auth-proxy restart. The history `issued` remembers what each token was issued
with after its entry is gone, and `dispatched` the calls that reached a tool,
with the value of the call counter each was let through on. Tools are names and
patterns are the sets they match. `tools/list`, `initialize` and the like are
one action (`HandleOther`): they change nothing.

### TokenSource

One module for the two caches, which differ in where the expiry comes from
(`kind`) and in whether there is an installation to look up (`resolved`). The
first critical section is `CacheHit` or `CacheMiss`, the second `StoreToken`;
requests take up to `HttpTimeout`, fail at any point, and a token may be minted
whose answer is lost. The server and the lifetime of what it mints are external.

### TaskLifecycle, DigestJob, CollectX

`TaskLifecycle` is the abstract specification: a session is created, started and
closed, its task is queued and finished once, and the session is closed after
the task and to match it. The executions in `Revisable` may take a success
back, and then close the session once more. A row may also stay as it is for ever; that is what
happens when an executor raises in the middle.

`DigestJob` has one thread per attempt. Its steps are the statements of the
executor in `cli.py` and of `run_claude_digest` (`Target = "git"`) or
`run_invest_digest` (`"slack"`) that write or wait; `StepRaises` is every
exception that leaves them. Next to the threads run the containers
(`WriteDigest`, `ContainerEnds`), auth-proxy's `handleNotify` (`PostChunk`,
`ChunkFails`), the calendar (`Midnight`) and the scheduler (`StartAttempt`,
`DeadlineExceeded`, `Report`, `Killed`), which here is the part of
`SchedulerEngine` that one firing sees. The attempts in `ByHand` are
`claude-digest` or `invest-digest` typed by somebody (`StartByHand`,
`Interrupted`): the same steps under no deadline, whose failure is exit code 1
where the executor raises. `digest` holds the day
an attempt's digest was last written on, and `slack` the chunks of it that reached
the channel with the days they did, so that the row's date can be held against
both. A launcher that stops waiting does not
stop the container.

`CollectX` has one thread per call of `run_collect_x`. A post is a record as X
returns it; `NormalizePost` puts it into the shape `normalizePosts` gives it, and
`Score` reads that shape the way `run_collect_x` does, with `.get` and a default.

### ToolGate, RunJob

`ToolGate` is the gate before every tool call: `Authorize` gives the decisions
`run_pre_tool_use` may come to. With `AUTH_PROXY_URL` set the answer is
auth-proxy's or a block; without it, the orchestrator's own policy and, for the
document tools, its path policy, which is asked only about arguments that name a
repository and a path (`NamesPlace`). The two policies are different constants,
as they are in the system.

`RunJob` follows one invocation. `cmd`, fixed at the start, is the command and
the environment its calls are made in; for the two detached backends that is the
allowlist they pass on. `host` is the place of the command, `runner` that of the
code that makes the calls: for `local`, `stock` and `xsmoke` the same thread, for
`container` and `kubernetes` `runner-execute` in another process. `Plan` is the
sequence of tool calls with what a failure of each means (`gate`, `required`,
`optional`); `AskPermission`, `CallAnswered` and `CallFails` walk through it.
`WriteFile` and `RecordDocument` are the rest of the body, `PrintPayload`,
`WriteResult` and `ReportFailure` the rest of `runner-execute`. The command
writes its rows one by one; any of the writes may raise (`StepRaises`), the
launch may fail with or without a runner started (`LaunchFails`), the wait for a
Job may be given up (`WaitGivesUp`), and either process may be killed.

### CronSchedule, SlackChunks

Algorithms, stepped so that the loop of `next_after` and the loop over lines are
visible, and checked against definitions that do not share their method: a
minute matches when some part of each field reaches it in whole steps, and the
chunks hold the same characters in the same order as the text. A character is its
line and its position in it, so that one that is lost, repeated or moved shows.
The running chunk has its length in bytes, `size`, beside it: that is what
`strings.Builder.Len` says and what the loop compares with the limit.

## 3. Runs

| run | specification | bounds | shows |
|---|---|---|---|
| `scheduler` | `SchedulerEngine!FairSpec` | four jobs: one under a deadline with a retry, one malformed, one inline with `backoff_limit` -1, one without executor, the first due in minute 0, the third in minute 1, the others in both; a deadline of one tick, minutes of two ticks, iterations start before tick 3, sleeps one tick early or late, a notifier that may raise, one restart | the seven invariants of the loop, and that a pass ends and a dispatch is reported although a worker may hang for ever |
| `scheduler_missed` | `FairSpec` | the first and the third of these jobs, no restart, sleeps exact, iterations start before tick 8 | violation: a minute nobody looks at |
| `xmcp` | `XMcp!Spec` | two tokens, two goroutines, two roles (one without policy), three tools (one denied, one not mounted), cap 2, three charges, two ticks, life of one | cap, tickets, roles, policy, expiry and what a refusal means |
| `token` | `TokenSource!Spec` | two callers, six ticks, life of four, margin and timeout one, four mints; both kinds, with and without discovery | no dead credential, bounded regression, spaced minting |
| `digest_git` | `DigestJob!FairSpec` | two attempts, docker, one midnight | rows against the notes repository, the lifecycle, the verdict, termination |
| `digest_slack` | `DigestJob!Spec` | one scheduled attempt and one by hand, kubernetes, two chunks, one midnight | rows against the channel and against the days of writing and posting, whatever chunk fails or times out |
| `digest_timeout` | `DigestJob!Spec` | two attempts, no midnight | violation: a timed-out task stays queued |
| `collect_x` | `CollectX!Spec` | two collectors, four searches over three posts, repeated and overlapping | duplicates only by overlap, completeness, the lifecycle |
| `collect_score` | `CollectX!Spec` | the same | violation: the engagement is not stored |
| `run_job` | `RunJob!FairSpec` | three queries, as many as the code uses; every command and environment; a target repository the policy covers, one whose paths it denies, one it does not know and none at all; the policies of `config/policy.yaml` and of auth-proxy, cut down to the tools in question | evidence behind every success, authority behind every call, exit code and rows, the lifecycle, termination |
| `cron` | `CronSchedule!Spec` | 480 expressions with lists, ranges, steps, aliases and errors, every start in a calendar of 11 days across a month's end, a search cap of eight days | matching is standard cron, the search returns the first match |
| `slack_chunks` | `SlackChunks!Spec` | every text of up to four lines of up to seven characters of one or three bytes, chunks of three | chunks fit, nothing is lost, lines are kept |

Why the bounds are enough to be interesting. In `scheduler` both minutes are
reached, the loop wakes twice in one minute, the process is killed and started
again within the minute it has fired in, a detached attempt runs beside its
retry and, in the next minute, beside the next job. In `xmcp` three requests
compete for two calls and tokens expire, are swept and are lost between the
lookup and the charge. In `token` a token is minted, expires and is replaced
while a slow caller still holds an older answer. In `digest_*` the first attempt
may push, post or write its rows after the second has begun, on the next day. In
`run_job` the detached runner finishes before, while and after the command gives
it up, and each query has posts, has none or fails. In `cron` the scaled hour and day keep 7 weekdays, the alias and steps that do not
divide a range. A chunk of three characters is shorter than the byte length of
one wide character plus a newline, so every relation of byte and character
counts occurs.

Deadlock is checked in every run. Models that come to an end have an explicit
stuttering action for it (`PastHorizon`, `Over`, `AllEnded`, `Returned`,
`Done`).

### Fairness

* `SchedulerEngine!FairSpec`: the loop thread takes its steps, the clock
  advances, and an executor run inline ends, because every executor bounds its
  own waits. Nothing is assumed of an executor run under a deadline.
* `DigestJob!FairSpec`: the threads of the attempts and the scheduler take their
  steps. Nothing is assumed of containers, of auth-proxy or of Slack; every wait
  of an attempt has a timeout (`subprocess.run(timeout=...)`, the poll loop's
  deadline, `urlopen(timeout=...)`), so giving up is always enabled.
* `RunJob!FairSpec`: the command takes its steps, and so does the body that runs
  in its thread, since every request of it has a timeout. Nothing is assumed of a
  detached runner, which may hang.

## 4. Properties that are not what the documents say

Three runs are expected to find a violation; each finding in `PROJECT.json` quotes
the statement it refutes.

* `EveryMinuteScanned`: the guide says the loop wakes exactly at each minute's
  start. The sleep is computed from the time before the jobs ran, so the loop
  wakes as much later as they took, and minutes are passed over.
* `TimeoutRecorded`: the detailed design says a task past its deadline gets the
  status `timeout`. Its row stays `queued`.
* `EngagementStored`: `run_collect_x` looks for the counts one level above where
  `normalizePosts` puts them; every score is 0.

Five more things met while modelling, for a reader of the code; no run is spent
on them.

* The header of `engine.py` says jobs never overlap. A worker past its deadline
  goes on, and its retry starts beside it; what holds, and is proved, is
  `OverlapOnlyPastDeadline`.
* `run-job --runner container` on its default network `none` cannot succeed: the
  backend always passes `AUTH_PROXY_URL` on, auth-proxy cannot be reached, and
  the gate fails closed. The repository's README describes this as the mock flow.
  Nor is `X_MCP_URL` passed on, so that a detached runner always collects mock
  topics.
* The header of `auth_proxy_client.py` speaks of a fallback when no auth-proxy is
  reachable; the code, and the comment inside it, block (`Authorize`).
* auth-proxy's table does not know `claude.summarize_signals`, which
  `config/policy.yaml` allows: with auth-proxy configured, signals are never
  summarized. auth-proxy does not look at repository and path either.
* `decide_tool_call` looks at repository and path only `if repo and path`. A job
  whose `output.repo` is empty or null (the default applies to a missing key, and
  nothing validates the value) is allowed to commit without a check of the place.
  `NothingWithoutAuthority` states what holds: the permission to commit always,
  and the place whenever one is named.

## 5. Proofs

Checked by TLAPS for every value of the constants that the named assumptions
admit. Neither `Horizon`, `MaxTime` nor the other bounds weaken the results: they
are arbitrary naturals. Every invariant and every action property of the passing
runs is the statement of a theorem, the refinement of `TaskLifecycle` included.
Each proof has the same outline: an inductive invariant `IInv` in the component's
module, checked with TLC before it was proved; one lemma per action, or per group
of actions that disturb the same conjuncts; the theorems at the end.

**SchedulerEngineProofs** (from `ConstantsAssumption`: types of the constants and
a minute of at least one tick).
`TypeCorrect`, `NeverDoubleFires` (`NoDoubleFire`), `SequentialUpToDeadlines`
(`OverlapOnlyPastDeadline`), `RetriesInOrder` (`AttemptsInOrder`),
`SuccessRestsOnRun` (`SuccessIsReal`), `NotifiesOnce`
(`NotifiedOncePerTerminal`) and `NoDueJobUnreported` (`EveryDueJobReported`), all
with restarts. `NoDoubleFire` speaks of pairs of invocations; that a new one
differs from all earlier ones needs `FiringInv`: an invocation's minute is at most
the minute recorded in `_last_fired` for its job, that is at most the minute of
`now`, and while a forbid job is being dispatched its attempts for this minute are
numbered up to `attempts`. It also needs `TimeInv` (the local times are not ahead
of the clock): without it an iteration could fall back to an earlier minute.
`OverlapOnlyPastDeadline` needs `AliveInv`: every invocation alive, except the
one waited for, is past its deadline, and the one waited for began at `since`.
A restart keeps `FiringInv` because it speaks of the invocations of the present
process only, and keeps `AliveInv` because none of the old ones is alive after it.
The other four rest on `IInv` and on an invariant of their own. `RunsInv` adds
that the last invocation is the latest attempt of the dispatch under way
(`CurrentIsLatest`), so that what is retried or reported is that one and no
detached worker. `ResultsInv` adds `ReportInv`: the jobs before `idx` have their
results in every phase of a pass, and the last result is the one being reported.
`NotifiedOncePerTerminal` is stated with the set of places of the results
delivered and the rank of each in it, which says what selecting the terminal
results in order says and can be reasoned about without induction.

**XMcpProofs** (from `StoreAssumption` and `XMcpAssumption`: types; the static
token is no minted one and the administrator no role of the policy).
`TypeCorrect`, `CapHolds` (`TicketsWithinCap`), `CallsPermitted`
(`DispatchPermitted`), `AdminIsStatic` (`AdminOnlyByStaticToken`), `CapReplyTrue`
(`CapReplyJustified`), the action property `ChargesAreLive` (`ChargedWhileLive`),
and `AtMostCapCalls`: the calls on a token are at most `CallCap` in number, which
follows from `CapHolds` because the tickets map them one to one into
`1..CallCap`. That a ticket is not given out twice is not inductive for the calls
made alone: `TicketsDistinct` speaks of the tickets still held by requests as
well, and says that the counter of an entry in the map has passed all of them.
After a restart or a sweep there is no entry, and the token cannot be charged
again because `Issue` never hands out an old one. `RequestsAuthorized` and
`EntriesAsIssued` carry the role from the issue to the call: no operation gives a
token another role or a longer life, and a request past the lookup has the role of
its token.

**TokenSourceProofs** (from `TokenAssumption`). `TypeCorrect`,
`NeverReturnsExpired` (`ReturnedUsable`), `OverwriteBounded`
(`CacheHardlyRegresses`), `MintsAreSpaced` (`MintsSpaced`). The assumption states
what the numbers in the code have to satisfy: margin plus timeout below the
lifetime, and an assumed lifetime that exceeds the true one by no more than margin
minus timeout. The inductive invariant says that an answer is at least as recent
as its request (`CallerInv`), that no request is older than the timeout, and that
the recorded expiry is at most the margin too late (`CacheInv`), so that a hit,
which asks for more than the margin, returns a token still alive.
`OverwriteBounded` is an action property from the same invariant: whoever stores
late stores a token minted within its own request. `MintsSpaced` needs `SpacedInv`
on top: every token that was stored keeps the cache serving for its window,
whoever has stored since (`CacheServes`), so that a caller that misses has none
stored within it (`MissedLate`).

**DigestJobProofs** (from `DigestAssumption`: types of the constants, and no
attempt both scheduled and by hand). `TypeCorrect`, `PublishedIsTrue`
(`PublishedIsOut`), `SuccessIsPublished` (`SucceededIsPublished`),
`ReportMatchesRows` (`SuccessMatchesRows`), `RowsImplementLifecycle`
(`RowsFollowLifecycle`). The invariant describes each place of the executor: its
rows (`RowsAt`), what its exit code and its publication stand for (`RunAt`), the
documents row (`DocumentAt`), the chunks in the channel (`ChunksAt`); and
`AttemptsInTurn` says that the scheduler's verdict is about its last attempt. The
row outlives the step that wrote it: it stays true because notes are never taken
back and `handleNotify` posts nothing after it has answered. For the dates
`ChunksAt` says more than the property: from the request to auth-proxy on, the
attempt's container has exited, so its digest is not written again, and the date
of the row lies between that day and today, hence before every chunk.

**CollectXProofs** (from `SearchesAssumption`). `DuplicatesNeedOverlap`
(`DuplicatesOnlyByOverlap`), `SuccessIsComplete` (`SucceededIsComplete`),
`RowsImplementLifecycle` (`RowsFollowLifecycle`). `ExistingIsQueued` says that
`existing_urls` holds what was queued before it was read and what the collector
queued itself: a URL that is in the queue and not in it came from another
collector, after the reading. `PostsAccounted` says that every post of the search
is still ahead or queued, `NothingQueuedEarly` that a collector has queued nothing
before it reads the queue.

**RunJobProofs** (from `RunJobAssumption`: at least one query). `TypeCorrect`,
`ExitIsTrue` (`ExitTellsRows`), `FailClosed` (`NothingWithoutAuthority`),
`SuccessIsEarned` (`SucceededRestsOnEvidence`), `RowsImplementLifecycle`
(`RowsFollowLifecycle`). The policies and targets are arbitrary, those without a
repository included. `AnswersBehind`
says of every place of the runner which steps of the plan were answered,
`ProgressAtPlace` what else it has left, `Granted` that it was allowed to;
`SuccessSettled` carries this over to the command: when it records a success,
the runner is past its last step and will not take anything back.

**CronScheduleProofs** (from `CronAssumption`: a calendar of days with a weekday
each, field ranges and expressions of the right type, a search that stays within
the calendar). `MatchesAsWritten` is the algorithm's correctness on its own: for
every expression the parser accepts and every minute of the calendar, the sets
that parsing builds decide as the fields read, with the day rule and the alias of
Sunday. `MatchIsRight` (`MatchIsStandard`) and `NextIsTheFirst` (`NextIsFirst`)
follow with `SearchInv`: every minute the search has gone past does not match.

**SlackChunksProofs** (from `ChunkAssumption`: a positive limit).
`ChunksAlwaysFit` (`ChunksFit`), `TextSurvives` (`NothingLost`),
`LinesStayJoined` (`LinesKept`) and `ShortLinesUncut` (`ShortLinesWhole`), for
every limit and every text. The running chunk must be as good as the finished ones
(`ShapeInv`), and `CurrentInv` relates the two measures: a chunk has at most as
many characters as bytes, so a test that adds characters to bytes errs on the
short side. It also says that the running chunk ends with the line before `i`,
which is what a newline may be joined to. The lemmas are about characters
(`PieceFacts`, `Joining`), about division (a position of a line is in one
of its pieces, `PieceOfPosition`), and about lists of chunks (`Flush`,
`GrowKeepsText`, `CutKeepsText`).

Only model-checked: liveness under fairness (`PassEnds`, `DispatchReported`,
`VerdictReached`, `AttemptsEnd`, `CommandEnds`), which the prover does not
handle. That the loops of `next_after` and `splitIntoChunks` come to an end is
not stated; what they have computed at every step is proved.

## 6. Not modelled

Configuration loading, rendering and redaction, `claude-smoke`, the health
checks, deployment manifests: no steps anybody can get between. The document
writer's `publish` is retired from every path. The upstream APIs, Claude Code,
docker, the Kubernetes API and SQLite are external: an answer, an error or
silence; a commit or an exception. JWT signing, HTTP framing and MCP's JSON are
left out, and so is the content of the audit rows, which decide nothing; what the
gate does when one cannot be written is (`CollectX!Audit`). claude-proxy, the git
relay's reverse proxy and egress-proxy are stateless relays whose one question,
what is let through, is a pure function of a request. Two invocations of
`run-job` on one day write the same dry-run file; `RunJob` follows one.

## 7. Plan

The parts of the system with steps of their own are modelled, and their safety
properties are proved. What is left:

1. `TaskLifecycle` on its own: what follows from the abstract specification alone
   (a finished task stays finished unless it is revisable, a closed session
   matches its task), so that the three executors inherit it through the
   refinement.
2. The findings as theorems of what does hold: a bound on how late an iteration
   starts, from the durations of the jobs before it.
3. Lemmas that occur in several proof modules in one place.

Models worth adding when the code grows: the address check of egress-proxy as a
pure function, and the reverse proxies on top of `TokenSource` and
`SessionStore`.
