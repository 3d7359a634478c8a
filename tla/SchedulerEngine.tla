--------------------------- MODULE SchedulerEngine ---------------------------
(***************************************************************************)
(* scheduler/engine.py: the resident loop that wakes up, fires the jobs    *)
(* whose cron expression matches the current minute, retries them, gives   *)
(* up waiting for an attempt at its deadline, and reports each result.     *)
(*                                                                         *)
(* Two kinds of threads run: the loop thread (pc and the variables up to   *)
(* lastError) and one thread per executor invocation (runs).  An           *)
(* invocation whose deadline passed is not stopped: it stays in runs with  *)
(* status "running" while the loop goes on, and may end at any later time. *)
(* Time is counted in ticks, TicksPerMinute of them to a minute; steps     *)
(* that do not wait take no time.                                          *)
(*                                                                         *)
(* Nothing of this is persistent: when the process is restarted its        *)
(* threads are gone and __init__ starts from nothing.  runs keeps the      *)
(* invocations of every process; results and notified are those of the     *)
(* current one.                                                            *)
(***************************************************************************)
EXTENDS Integers, Sequences, FiniteSets

CONSTANTS
  NJobs,          \* the enabled jobs, in the order of schedules.yaml
  DueMinutes,     \* DueMinutes[j]: the minutes job j's cron expression matches
  Forbid,         \* the jobs with concurrency_policy "forbid"
  Executors,      \* the jobs with a registered executor
  Malformed,      \* the jobs whose backoff_limit is not a number (null in yaml)
  BackoffLimit,   \* BackoffLimit[j]: backoff_limit
  Deadline,       \* Deadline[j]: active_deadline_seconds in ticks, 0 for none
  HasNotifier,    \* a notifier was injected
  NotifierRaises, \* the injected notifier may raise (the wired one never does)
  TicksPerMinute,
  Slack,          \* how far the wall clock may be behind or ahead at the end of
                  \* a sleep, which is measured on the monotonic clock
  MaxWait,        \* bound: an executor without deadline, or a notification,
                  \* takes at most this many ticks
  Horizon,        \* bound: no iteration starts at or after this time
  MaxRestarts     \* bound: how often the scheduler process is restarted

Job == 1..NJobs

ASSUME ConstantsAssumption ==
  /\ NJobs \in Nat
  /\ DueMinutes \in [Job -> SUBSET Nat]
  /\ Forbid \subseteq Job /\ Executors \subseteq Job /\ Malformed \subseteq Job
  /\ BackoffLimit \in [Job -> Int]
  /\ Deadline \in [Job -> Nat]
  /\ HasNotifier \in BOOLEAN /\ NotifierRaises \in BOOLEAN
  /\ TicksPerMinute \in Nat \ {0}
  /\ Slack \in Nat /\ MaxWait \in Nat /\ Horizon \in Nat
  /\ MaxRestarts \in Nat

VARIABLES
  clock,      \* the wall clock, in ticks
  process,    \* how often the scheduler process was restarted
  pc,         \* what the loop thread is doing
  now,        \* run_forever's local `now', read before run_pending
  idx,        \* run_pending's position in _jobs
  since,      \* when the loop thread began the wait it is in
  wakeAt,     \* when the current sleep is over
  lastFired,  \* _last_fired: the minute, or NeverFired
  attempts,   \* _dispatch's local `attempts'
  lastError,  \* _dispatch's local `last_error' is not None
  runs,       \* executor invocations, in the order they were started
  results,    \* every JobRunResult produced, in order
  notified    \* every result the notifier was called with, in order

loopVars == <<pc, now, idx, since, wakeAt, lastFired, attempts, lastError>>
history  == <<runs, results, notified>>
vars     == <<clock, process, loopVars, history>>

NeverFired == -1

MinuteOf(t) == t \div TicksPerMinute

\* The time the minute after the one of t begins.
NextMinute(t) == (MinuteOf(t) + 1) * TicksPerMinute

MaxAttempts(j) == IF BackoffLimit[j] + 1 > 1 THEN BackoffLimit[j] + 1 ELSE 1

Run    == [process : Nat, job : Job, minute : Nat, attempt : Nat, start : Nat,
           status : {"running", "ok", "error", "killed"}]
Result == [job : Job, minute : Nat, attempts : Nat,
           status : {"succeeded", "failed", "skipped"}]

\* The statuses _notify passes on.
Terminal == {"succeeded", "failed"}

Phases == {"sleep", "scan", "attempt", "wait", "notify"}

TypeOK ==
  /\ clock \in Nat
  /\ process \in Nat
  /\ pc \in Phases
  /\ now \in Nat
  /\ idx \in 1..(NJobs + 1)
  /\ since \in Nat
  /\ wakeAt \in Nat
  /\ lastFired \in [Job -> Nat \cup {NeverFired}]
  /\ attempts \in Nat
  /\ lastError \in BOOLEAN
  /\ runs \in Seq(Run)
  /\ results \in Seq(Result)
  /\ notified \in Seq(Result)

\* __init__, then run_forever is entered at any point of a minute.
Init ==
  /\ clock \in 0..(TicksPerMinute - 1)
  /\ process = 0
  /\ pc = "sleep"
  /\ now = clock
  /\ idx = 1
  /\ since = clock
  /\ wakeAt = clock
  /\ lastFired = [j \in Job |-> NeverFired]
  /\ attempts = 0
  /\ lastError = FALSE
  /\ runs = <<>>
  /\ results = <<>>
  /\ notified = <<>>

-----------------------------------------------------------------------------
(* The loop thread.                                                        *)

\* The head of an iteration: now = now_fn(), then run_pending(now).  A sleep
\* lasts some time, but may end early or late on the wall clock.
Wake ==
  /\ pc = "sleep"
  /\ clock < Horizon
  /\ clock >= wakeAt \/ (clock > since /\ clock + Slack >= wakeAt)
  /\ now' = clock
  /\ idx' = 1
  /\ pc' = "scan"
  /\ UNCHANGED <<clock, process, since, wakeAt, lastFired, attempts,
                 lastError, history>>

\* Mutant: the time of the next minute is slept as if it were a duration.
GoToSleepUntil ==
  /\ pc' = "sleep"
  /\ since' = clock
  /\ wakeAt' = NextMinute(now) - clock

\* run_forever computes the length of the sleep from the `now' it read before
\* the jobs ran, and sleeps that long from the end of the jobs.
GoToSleep ==
  /\ pc' = "sleep"
  /\ since' = clock
  /\ wakeAt' = clock + (NextMinute(now) - now)

EndPass ==
  /\ pc = "scan"
  /\ idx > NJobs
  /\ GoToSleep
  /\ UNCHANGED <<clock, process, now, idx, lastFired, attempts, lastError,
                 history>>

\* The job run_pending has come to, and whether its cron matches.
Due(j) == MinuteOf(now) \in DueMinutes[j]

\* Mutant: the minute of the firing is compared with a time that has seconds.
AlreadyFiredExactly(j) == j \in Forbid /\ lastFired[j] * TicksPerMinute = now

AlreadyFired(j) == j \in Forbid /\ lastFired[j] = MinuteOf(now)

Fires(j) == Due(j) /\ ~AlreadyFired(j)

Produce(j, status, n) ==
  results' = Append(results, [job |-> j, minute |-> MinuteOf(now),
                              attempts |-> n, status |-> status])

NotDue ==
  /\ pc = "scan"
  /\ idx <= NJobs
  /\ ~Due(idx)
  /\ idx' = idx + 1
  /\ UNCHANGED <<clock, process, pc, now, since, wakeAt, lastFired, attempts,
                 lastError, history>>

\* "already fired this minute": a result, but not one _notify passes on.
SkipAlreadyFired ==
  /\ pc = "scan"
  /\ idx <= NJobs
  /\ Due(idx)
  /\ AlreadyFired(idx)
  /\ Produce(idx, "skipped", 0)
  /\ idx' = idx + 1
  /\ UNCHANGED <<clock, process, pc, now, since, wakeAt, lastFired, attempts,
                 lastError, runs, notified>>

\* Mutant: a job without executor yields no result.
SkipWithoutResult ==
  /\ pc = "scan"
  /\ idx <= NJobs
  /\ Fires(idx)
  /\ idx \notin Executors
  /\ lastFired' = [lastFired EXCEPT ![idx] = MinuteOf(now)]
  /\ idx' = idx + 1
  /\ UNCHANGED <<clock, process, pc, now, since, wakeAt, attempts, lastError,
                 history>>

\* "no executor": the job counts as fired all the same.
SkipNoExecutor ==
  /\ pc = "scan"
  /\ idx <= NJobs
  /\ Fires(idx)
  /\ idx \notin Executors
  /\ lastFired' = [lastFired EXCEPT ![idx] = MinuteOf(now)]
  /\ Produce(idx, "skipped", 0)
  /\ idx' = idx + 1
  /\ UNCHANGED <<clock, process, pc, now, since, wakeAt, attempts, lastError,
                 runs, notified>>

\* Mutant: the failed result of the except clause is not passed on.
DispatchRaisesSilently ==
  /\ pc = "scan"
  /\ idx <= NJobs
  /\ Fires(idx)
  /\ idx \in Executors \cap Malformed
  /\ lastFired' = [lastFired EXCEPT ![idx] = MinuteOf(now)]
  /\ Produce(idx, "failed", 0)
  /\ idx' = idx + 1
  /\ UNCHANGED <<clock, process, pc, now, since, wakeAt, attempts, lastError,
                 runs, notified>>

\* _dispatch raises before its loop (backoff_limit + 1 on a non-number); the
\* except of _run_job_safely turns that into a failed result.
DispatchRaises ==
  /\ pc = "scan"
  /\ idx <= NJobs
  /\ Fires(idx)
  /\ idx \in Executors \cap Malformed
  /\ lastFired' = [lastFired EXCEPT ![idx] = MinuteOf(now)]
  /\ Produce(idx, "failed", 0)
  /\ pc' = "notify"
  /\ since' = clock
  /\ UNCHANGED <<clock, process, now, idx, wakeAt, attempts, lastError, runs,
                 notified>>

Dispatch ==
  /\ pc = "scan"
  /\ idx <= NJobs
  /\ Fires(idx)
  /\ idx \in Executors \ Malformed
  /\ lastFired' = [lastFired EXCEPT ![idx] = MinuteOf(now)]
  /\ attempts' = 0
  /\ lastError' = FALSE
  /\ pc' = "attempt"
  /\ UNCHANGED <<clock, process, now, idx, since, wakeAt, history>>

\* The body of _dispatch's loop up to the wait for the executor: inline, or in
\* a worker thread joined with a timeout.
StartAttempt ==
  /\ pc = "attempt"
  /\ attempts < MaxAttempts(idx)
  /\ attempts' = attempts + 1
  /\ runs' = Append(runs, [process |-> process, job |-> idx,
                           minute |-> MinuteOf(now),
                           attempt |-> attempts + 1, start |-> clock,
                           status |-> "running"])
  /\ pc' = "wait"
  /\ since' = clock
  /\ UNCHANGED <<clock, process, now, idx, wakeAt, lastFired, lastError,
                 results, notified>>

\* The invocation the loop thread is waiting for, and what its error_box says.
CurrentRun == runs[Len(runs)]
CurrentAlive == CurrentRun.status = "running"

\* Mutant: no return after a success: the loop goes on to the next attempt.
AttemptSucceedsOn ==
  /\ pc = "wait"
  /\ CurrentRun.status = "ok"
  /\ lastError' = FALSE
  /\ IF attempts < MaxAttempts(idx)
       THEN pc' = "attempt" /\ UNCHANGED <<since, results>>
       ELSE pc' = "notify" /\ since' = clock /\ Produce(idx, "succeeded", attempts)
  /\ UNCHANGED <<clock, process, now, idx, wakeAt, lastFired, attempts, runs,
                 notified>>

AttemptSucceeds ==
  /\ pc = "wait"
  /\ CurrentRun.status = "ok"
  /\ lastError' = FALSE
  /\ Produce(idx, "succeeded", attempts)
  /\ pc' = "notify"
  /\ since' = clock
  /\ UNCHANGED <<clock, process, now, idx, wakeAt, lastFired, attempts, runs,
                 notified>>

\* What the loop thread does with an exception: retry at once while attempts
\* remain, else return the failed result.
AttemptFails ==
  /\ lastError' = TRUE
  /\ IF attempts < MaxAttempts(idx)
       THEN pc' = "attempt" /\ UNCHANGED <<since, results>>
       ELSE pc' = "notify" /\ since' = clock /\ Produce(idx, "failed", attempts)
  /\ UNCHANGED <<clock, process, now, idx, wakeAt, lastFired, attempts, runs,
                 notified>>

ExecutorRaised ==
  /\ pc = "wait"
  /\ CurrentRun.status = "error"
  /\ AttemptFails

\* Mutant: the timeout is not passed to join.
DeadlineAtOnce ==
  /\ pc = "wait"
  /\ Deadline[idx] > 0
  /\ CurrentAlive
  /\ AttemptFails

\* Mutant: is_alive is not asked: an empty error_box counts as success.
DeadlineNotChecked ==
  /\ pc = "wait"
  /\ Deadline[idx] > 0
  /\ clock >= since + Deadline[idx]
  /\ CurrentAlive
  /\ lastError' = FALSE
  /\ Produce(idx, "succeeded", attempts)
  /\ pc' = "notify"
  /\ since' = clock
  /\ UNCHANGED <<clock, process, now, idx, wakeAt, lastFired, attempts, runs,
                 notified>>

\* Mutant: join waits for the worker for ever.
JoinWithoutTimeout ==
  /\ pc = "wait"
  /\ Deadline[idx] > 0
  /\ CurrentRun.status = "error"
  /\ AttemptFails

\* join(timeout) came back and the worker is alive: "deadline exceeded".  The
\* worker is left running.
DeadlineExceeded ==
  /\ pc = "wait"
  /\ Deadline[idx] > 0
  /\ clock >= since + Deadline[idx]
  /\ CurrentAlive
  /\ AttemptFails

NotifyReturns ==
  /\ pc = "notify"
  /\ notified' = IF HasNotifier THEN Append(notified, results[Len(results)])
                                ELSE notified
  /\ idx' = idx + 1
  /\ pc' = "scan"
  /\ UNCHANGED <<clock, process, now, since, wakeAt, lastFired, attempts,
                 lastError, runs, results>>

\* An exception out of the notifier leaves run_pending; run_forever logs it and
\* sleeps.  The jobs after idx are not looked at in this iteration.
NotifyRaises ==
  /\ pc = "notify"
  /\ HasNotifier /\ NotifierRaises
  /\ notified' = Append(notified, results[Len(results)])
  /\ GoToSleep
  /\ UNCHANGED <<clock, process, now, idx, lastFired, attempts, lastError,
                 runs, results>>

-----------------------------------------------------------------------------
(* Executor threads and time.                                              *)

Ended(run, outcome) == [run EXCEPT !.status = outcome]

\* An executor invocation returns or raises, whether or not anyone still waits.
ExecutorEnds(i, outcome) ==
  /\ runs[i].status = "running"
  /\ runs' = [runs EXCEPT ![i] = Ended(runs[i], outcome)]
  /\ UNCHANGED <<clock, process, loopVars, results, notified>>

\* How long the loop thread may stay in its current wait.
WaitLimit ==
  CASE pc = "sleep"  -> wakeAt + Slack
    [] pc = "wait" /\ Deadline[idx] > 0 -> since + Deadline[idx]
    [] OTHER -> since + MaxWait

Waiting == pc \in {"sleep", "wait", "notify"}

Tick ==
  /\ Waiting
  /\ clock < WaitLimit
  /\ clock' = clock + 1
  /\ UNCHANGED <<process, loopVars, history>>

Killed(run) ==
  [run EXCEPT !.status = IF run.status = "running" THEN "killed" ELSE run.status]

\* The process is killed and started again (the Deployment restarts it), at any
\* point of the loop: its threads are gone, and so is what __init__ sets up
\* afresh, _last_fired among it.
Restart ==
  /\ process < MaxRestarts
  /\ process' = process + 1
  /\ runs' = [a \in DOMAIN runs |-> Killed(runs[a])]
  /\ pc' = "sleep"
  /\ now' = clock
  /\ idx' = 1
  /\ since' = clock
  /\ wakeAt' = clock
  /\ lastFired' = [j \in Job |-> NeverFired]
  /\ attempts' = 0
  /\ lastError' = FALSE
  /\ results' = <<>>
  /\ notified' = <<>>
  /\ UNCHANGED clock

\* The end of the bounded model: the real loop goes on.
PastHorizon ==
  /\ pc = "sleep"
  /\ clock >= Horizon
  /\ UNCHANGED vars

LoopStep ==
  \/ Wake \/ EndPass
  \/ NotDue \/ SkipAlreadyFired \/ SkipNoExecutor \/ DispatchRaises \/ Dispatch
  \/ StartAttempt \/ AttemptSucceeds \/ ExecutorRaised \/ DeadlineExceeded
  \/ NotifyReturns \/ NotifyRaises

Next ==
  \/ LoopStep
  \/ \E i \in DOMAIN runs, outcome \in {"ok", "error"} : ExecutorEnds(i, outcome)
  \/ Tick
  \/ Restart
  \/ PastHorizon

Spec == Init /\ [][Next]_vars

\* An invocation with no deadline is run by the loop thread itself.
InlineEnds ==
  /\ pc = "wait" /\ Deadline[idx] = 0
  /\ \E outcome \in {"ok", "error"} : ExecutorEnds(Len(runs), outcome)

\* The loop thread and the clock always go on, and an executor run inline ends
\* (every executor bounds its own waits).  Nothing is assumed of an executor
\* run under a deadline: it may hang for ever.
FairSpec ==
  /\ Spec
  /\ WF_vars(LoopStep)
  /\ WF_vars(Tick)
  /\ WF_vars(InlineEnds)

-----------------------------------------------------------------------------
(* Properties.                                                             *)

\* `concurrency_policy: forbid' (engine.py, _run_job_safely): a job is
\* dispatched at most once for a minute, however the loop's sleeps end; two
\* invocations for one minute are different attempts of that one dispatch.
\* _last_fired is all that prevents it, and it does not survive the process: so
\* only a restart within the minute can fire the job again.
NoDoubleFire ==
  \A a, b \in DOMAIN runs :
    /\ a # b
    /\ runs[a].process = runs[b].process
    /\ runs[a].job = runs[b].job /\ runs[a].job \in Forbid
    /\ runs[a].minute = runs[b].minute
    => runs[a].attempt # runs[b].attempt

\* _dispatch: an attempt is started only when the one before it, if any, was
\* given up or had raised, and never more than backoff_limit + 1 of them (one
\* at least).  Two consecutive invocations are consecutive attempts of one
\* dispatch or the second is a first attempt.
AttemptsInOrder ==
  \A a \in DOMAIN runs :
    /\ runs[a].attempt \in 1..MaxAttempts(runs[a].job)
    /\ runs[a].attempt > 1 =>
         /\ a > 1
         /\ runs[a - 1].process = runs[a].process
         /\ runs[a - 1].job = runs[a].job
         /\ runs[a - 1].minute = runs[a].minute
         /\ runs[a - 1].attempt = runs[a].attempt - 1
         /\ \/ runs[a - 1].status = "error"
            \/ /\ Deadline[runs[a].job] > 0
               /\ runs[a].start >= runs[a - 1].start + Deadline[runs[a].job]

\* What sequential execution is worth when deadlines detach workers: two
\* invocations are alive together only if the earlier one is past its deadline.
OverlapOnlyPastDeadline ==
  \A a, b \in DOMAIN runs :
    a < b /\ runs[a].status = "running" =>
      /\ Deadline[runs[a].job] > 0
      /\ runs[b].start >= runs[a].start + Deadline[runs[a].job]

\* A succeeded result rests on the invocation it was reported for: some
\* attempt of that job for that minute did return normally (a late failure or
\* success of a detached attempt is never credited to a later one).
SuccessIsReal ==
  \A r \in DOMAIN results : results[r].status = "succeeded" =>
    \E a \in DOMAIN runs :
      /\ runs[a].process = process
      /\ runs[a].job = results[r].job
      /\ runs[a].minute = results[r].minute
      /\ runs[a].attempt = results[r].attempts
      /\ runs[a].status = "ok"

\* The terminal results that were passed on, by their place in results; only
\* the one being reported may be pending.
Delivered ==
  {r \in DOMAIN results :
     results[r].status \in Terminal /\ ~(pc = "notify" /\ r = Len(results))}

\* notify.py: the notifier is fired exactly once per terminal result, in order,
\* and never for a skipped one: the n-th call is for the n-th of Delivered.
NotifiedOncePerTerminal ==
  HasNotifier =>
    /\ Len(notified) = Cardinality(Delivered)
    /\ \A r \in Delivered :
         notified[Cardinality({d \in Delivered : d <= r})] = results[r]

\* One job's failure does not take the others' turn: when an iteration ends,
\* every job due in its minute has a result for that minute (run_pending with a
\* notifier that does not raise).
EveryDueJobReported ==
  pc = "scan" =>
    \A j \in Job : j < idx /\ Due(j) =>
      \E r \in DOMAIN results :
        results[r].job = j /\ results[r].minute = MinuteOf(now)

\* A minute's work ends, and the loop gets back to sleep, even when executors
\* run under a deadline never return.
PassEnds == (pc = "scan") ~> (pc = "sleep")

\* Every dispatch comes to a terminal result that _notify is called with, as
\* long as the process lives.
DispatchReported ==
  \A j \in Job, p \in 0..MaxRestarts :
    (pc = "attempt" /\ idx = j /\ process = p)
      ~> \/ pc = "notify" /\ idx = j /\ results[Len(results)].job = j
         \/ process # p

-----------------------------------------------------------------------------
(* The strengthening that makes the invariants above inductive.            *)

\* In the middle of a job there is a job, an invocation to wait for, and a
\* result to report.
ControlInv ==
  /\ pc \in {"attempt", "wait", "notify"} => idx \in Job
  /\ pc = "wait" => Len(runs) > 0
  /\ pc = "notify" => Len(results) > 0

\* Local times never run ahead of the clock.
TimeInv == now <= clock /\ since <= clock

\* Firings are recorded for minutes already begun, and every invocation
\* belongs to a recorded firing.
FiringInv ==
  /\ \A j \in Job : lastFired[j] <= MinuteOf(now)
  /\ \A a \in DOMAIN runs :
       /\ runs[a].process <= process
       /\ runs[a].process = process => runs[a].minute <= lastFired[runs[a].job]
  /\ pc \in {"attempt", "wait"} =>
       /\ lastFired[idx] = MinuteOf(now)
       /\ idx \in Forbid =>
            \A a \in DOMAIN runs :
              /\ runs[a].process = process
              /\ runs[a].job = idx /\ runs[a].minute = MinuteOf(now)
              => runs[a].attempt <= attempts

\* Only the invocation waited for is alive before its deadline.
AliveInv ==
  /\ pc = "wait" =>
       /\ CurrentRun.job = idx
       /\ CurrentRun.start = since
  /\ \A a \in DOMAIN runs :
       /\ runs[a].start <= clock
       /\ runs[a].status = "running" /\ ~(pc = "wait" /\ a = Len(runs)) =>
            /\ Deadline[runs[a].job] > 0
            /\ clock >= runs[a].start + Deadline[runs[a].job]

IInv ==
  /\ TypeOK /\ ControlInv /\ TimeInv /\ FiringInv /\ AliveInv
  /\ NoDoubleFire /\ OverlapOnlyPastDeadline

\* The dispatch under way: the last invocation is its latest attempt, and one
\* that is about to be retried has raised or outlived its deadline.
CurrentIsLatest ==
  /\ Len(runs) > 0
  /\ CurrentRun.process = process
  /\ CurrentRun.job = idx
  /\ CurrentRun.minute = MinuteOf(now)
  /\ CurrentRun.attempt = attempts

DispatchInv ==
  /\ pc = "wait" => attempts \in 1..MaxAttempts(idx) /\ CurrentIsLatest
  /\ pc = "attempt" /\ attempts > 0 =>
       /\ CurrentIsLatest
       /\ \/ CurrentRun.status = "error"
          \/ Deadline[idx] > 0 /\ clock >= CurrentRun.start + Deadline[idx]

\* The jobs before idx have their results in every phase of the pass, and the
\* last result is the one that is being reported.
ReportInv ==
  /\ pc # "sleep" =>
       \A j \in Job : j < idx /\ Due(j) =>
         \E r \in DOMAIN results :
           results[r].job = j /\ results[r].minute = MinuteOf(now)
  /\ pc = "notify" =>
       /\ results[Len(results)].job = idx
       /\ results[Len(results)].minute = MinuteOf(now)
       /\ results[Len(results)].status \in Terminal

\* Both rest on IInv.
RunsInv    == DispatchInv /\ AttemptsInOrder /\ SuccessIsReal
ResultsInv == ReportInv /\ NotifiedOncePerTerminal

-----------------------------------------------------------------------------
(* What the documents say of the loop.                                     *)

\* scheduler-guide.md 4.1: the loop wakes once every minute, exactly at the
\* boundary; so no minute is passed over between two iterations.
EveryMinuteScanned ==
  [][Wake => MinuteOf(now') <= MinuteOf(now) + 1]_vars

=============================================================================
