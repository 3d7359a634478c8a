------------------------ MODULE SchedulerEngineProofs ------------------------
(***************************************************************************)
(* Proofs about the scheduler loop, for every set of jobs, every deadline, *)
(* retry count and minute length.                                          *)
(***************************************************************************)
EXTENDS SchedulerEngine, FiniteSetTheorems, TLAPS

USE ConstantsAssumption DEF Job

\* Minutes are natural numbers.
LEMMA MinuteType ==
  ASSUME NEW t \in Nat
  PROVE  MinuteOf(t) \in Nat
BY DEF MinuteOf

\* The clock never falls to an earlier minute as time goes on.
LEMMA MinuteMonotonic ==
  ASSUME NEW s \in Nat, NEW t \in Nat, s <= t
  PROVE  MinuteOf(s) <= MinuteOf(t)
BY DEF MinuteOf

\* The sleep run_forever computes is at least one tick long.
LEMMA SleepIsPositive ==
  ASSUME NEW t \in Nat
  PROVE  NextMinute(t) \in Nat /\ NextMinute(t) > t
BY DEF NextMinute, MinuteOf

-----------------------------------------------------------------------------
(* Type correctness.                                                       *)

TypeInv == TypeOK /\ ControlInv

LEMMA InitTypeInv == Init => TypeInv
<1> SUFFICES ASSUME Init PROVE TypeInv
  OBVIOUS
<1>1. clock \in Nat /\ now \in Nat /\ since \in Nat /\ wakeAt \in Nat
  BY DEF Init
<1>2. runs \in Seq(Run) /\ results \in Seq(Result) /\ notified \in Seq(Result)
  BY DEF Init
<1>3. idx \in 1..(NJobs + 1) /\ lastFired \in [Job -> Nat \cup {NeverFired}]
  BY DEF Init, NeverFired
<1> QED
  BY <1>1, <1>2, <1>3 DEF Init, TypeInv, TypeOK, ControlInv, Phases

\* A result built for the job at hand is a Result.
LEMMA ProduceType ==
  ASSUME TypeOK, NEW j \in Job, NEW n \in Nat,
         NEW status \in {"succeeded", "failed", "skipped"}, Produce(j, status, n)
  PROVE  results' \in Seq(Result) /\ Len(results') > 0
BY MinuteType DEF TypeOK, Produce, Result

\* The end of an invocation changes its status and nothing else.
\* A sequence with an element replaced.
LEMMA ReplaceAt ==
  ASSUME NEW S, NEW q \in Seq(S), NEW i \in DOMAIN q, NEW e \in S,
         NEW p, p = [q EXCEPT ![i] = e]
  PROVE  p \in Seq(S) /\ DOMAIN p = DOMAIN q /\ Len(p) = Len(q)
OBVIOUS

LEMMA RunAt ==
  ASSUME TypeOK, NEW i \in DOMAIN runs
  PROVE  runs[i] \in Run
BY DEF TypeOK

LEMMA EndedRun ==
  ASSUME NEW r \in Run, NEW outcome \in {"ok", "error"}
  PROVE  /\ Ended(r, outcome) \in Run
         /\ Ended(r, outcome).process = r.process
         /\ Ended(r, outcome).job = r.job
         /\ Ended(r, outcome).minute = r.minute
         /\ Ended(r, outcome).attempt = r.attempt
         /\ Ended(r, outcome).start = r.start
         /\ Ended(r, outcome).status = outcome
BY DEF Run, Ended

\* So does the end of the process.
LEMMA KilledRun ==
  ASSUME NEW r \in Run
  PROVE  /\ Killed(r) \in Run
         /\ Killed(r).process = r.process
         /\ Killed(r).job = r.job
         /\ Killed(r).minute = r.minute
         /\ Killed(r).attempt = r.attempt
         /\ Killed(r).start = r.start
         /\ Killed(r).status # "running"
BY DEF Run, Killed

\* The fields of an invocation.
LEMMA RunType ==
  ASSUME TypeOK, NEW a \in DOMAIN runs
  PROVE  /\ runs[a].process \in Nat
         /\ runs[a].job \in Job
         /\ runs[a].minute \in Nat
         /\ runs[a].attempt \in Nat
         /\ runs[a].start \in Nat
<1>1. runs[a] \in Run
  BY DEF TypeOK
<1> QED
  BY <1>1 DEF Run

LEMMA NextTypeInv == TypeInv /\ [Next]_vars => TypeInv'
<1> SUFFICES ASSUME TypeInv, [Next]_vars PROVE TypeInv'
  OBVIOUS
<1> USE DEF TypeInv, ControlInv
<1>m. MinuteOf(now) \in Nat /\ NextMinute(now) \in Nat /\ NextMinute(now) > now
  BY MinuteType, SleepIsPositive DEF TypeOK
<1>1. CASE Wake
  BY <1>1 DEF Wake, TypeOK, Phases, history
<1>2. CASE EndPass
  BY <1>2, <1>m DEF EndPass, GoToSleep, TypeOK, Phases, history
<1>3. CASE NotDue
  BY <1>3 DEF NotDue, TypeOK, Phases, history
<1>4. CASE SkipAlreadyFired
  <2>1. results' \in Seq(Result) /\ Len(results') > 0
    BY <1>4, ProduceType DEF SkipAlreadyFired, TypeOK
  <2> QED
    BY <1>4, <2>1 DEF SkipAlreadyFired, TypeOK, Phases
<1>5. CASE SkipNoExecutor
  <2>1. results' \in Seq(Result) /\ Len(results') > 0
    BY <1>5, ProduceType DEF SkipNoExecutor, TypeOK
  <2> QED
    BY <1>5, <1>m, <2>1 DEF SkipNoExecutor, TypeOK, Phases
<1>6. CASE DispatchRaises
  <2>1. results' \in Seq(Result) /\ Len(results') > 0
    BY <1>6, ProduceType DEF DispatchRaises, TypeOK
  <2> QED
    BY <1>6, <1>m, <2>1 DEF DispatchRaises, TypeOK, Phases
<1>7. CASE Dispatch
  BY <1>7, <1>m DEF Dispatch, TypeOK, Phases, history
<1>8. CASE StartAttempt
  BY <1>8, <1>m DEF StartAttempt, TypeOK, Phases, Run
<1>9. CASE AttemptSucceeds
  <2>1. results' \in Seq(Result) /\ Len(results') > 0
    BY <1>9, ProduceType DEF AttemptSucceeds, TypeOK
  <2> QED
    BY <1>9, <2>1 DEF AttemptSucceeds, TypeOK, Phases
<1>10. ASSUME AttemptFails, pc = "wait" PROVE TypeInv'
  <2>1. results' \in Seq(Result) /\ (pc' = "notify" => Len(results') > 0)
    BY <1>10, ProduceType DEF AttemptFails, TypeOK
  <2> QED
    BY <1>10, <2>1 DEF AttemptFails, TypeOK, Phases
<1>11. CASE ExecutorRaised
  BY <1>10, <1>11 DEF ExecutorRaised
<1>12. CASE DeadlineExceeded
  BY <1>10, <1>12 DEF DeadlineExceeded
<1>13. CASE NotifyReturns
  BY <1>13 DEF NotifyReturns, TypeOK, Phases
<1>14. CASE NotifyRaises
  BY <1>14, <1>m DEF NotifyRaises, GoToSleep, TypeOK, Phases
<1>15. ASSUME NEW i \in DOMAIN runs, NEW outcome \in {"ok", "error"},
              ExecutorEnds(i, outcome)
       PROVE  TypeInv'
  <2>1. runs[i] \in Run
    BY <1>15 DEF TypeOK
  <2>2. Ended(runs[i], outcome) \in Run
    BY <1>15, <2>1, EndedRun
  <2>3. runs' \in Seq(Run) /\ Len(runs') = Len(runs)
    <3>1. runs \in Seq(Run) /\ runs' = [runs EXCEPT ![i] = Ended(runs[i], outcome)]
      BY <1>15 DEF ExecutorEnds, TypeOK
    <3> QED
      BY <1>15, <2>2, <3>1, ReplaceAt
  <2> QED
    BY <1>15, <2>3 DEF ExecutorEnds, TypeOK, loopVars
<1>16. CASE Tick
  BY <1>16 DEF Tick, TypeOK, loopVars, history
<1>17. CASE Restart
  <2>1. ASSUME NEW a \in DOMAIN runs PROVE Killed(runs[a]) \in Run
    <3>1. runs[a] \in Run
      BY <2>1 DEF TypeOK
    <3> QED
      BY <3>1, KilledRun
  <2>2. runs' \in [1..Len(runs) -> Run] /\ Len(runs) \in Nat
    BY <1>17, <2>1 DEF Restart, TypeOK
  <2>3. runs' \in Seq(Run)
    BY <2>2
  <2>4. /\ lastFired' \in [Job -> Nat \cup {NeverFired}]
        /\ results' \in Seq(Result) /\ notified' \in Seq(Result)
    BY <1>17 DEF Restart
  <2>5. /\ clock' \in Nat /\ process' \in Nat /\ now' \in Nat /\ since' \in Nat
        /\ wakeAt' \in Nat /\ idx' \in 1..(NJobs + 1) /\ attempts' \in Nat
    BY <1>17 DEF Restart, TypeOK
  <2>6. pc' = "sleep" /\ lastError' \in BOOLEAN
    BY <1>17, Zenon DEF Restart
  <2> QED
    BY <2>3, <2>4, <2>5, <2>6 DEF TypeOK, Phases
<1>18. CASE UNCHANGED vars
  BY <1>18 DEF vars, TypeOK, loopVars, history
<1> QED
  BY <1>1, <1>2, <1>3, <1>4, <1>5, <1>6, <1>7, <1>8, <1>9, <1>11, <1>12, <1>13,
     <1>14, <1>15, <1>16, <1>17, <1>18 DEF Next, LoopStep, PastHorizon

\* Type correctness: every variable of the loop keeps its type, and in the
\* middle of a job there is a job, an invocation and a result to refer to.
THEOREM TypeCorrect == Spec => []TypeOK
<1>1. Spec => []TypeInv
  BY InitTypeInv, NextTypeInv, PTL DEF Spec
<1> QED
  BY <1>1, PTL DEF TypeInv

-----------------------------------------------------------------------------
(* The inductive invariant.                                                *)

LEMMA InitIInv == Init => IInv
<1> SUFFICES ASSUME Init PROVE IInv
  OBVIOUS
<1>1. TypeOK /\ ControlInv
  BY InitTypeInv DEF TypeInv
<1>2. MinuteOf(now) \in Nat
  BY <1>1, MinuteType DEF TypeOK
<1>3. TimeInv
  BY <1>1 DEF Init, TimeInv, TypeOK
<1>4. FiringInv
  BY <1>2 DEF Init, FiringInv, NeverFired
<1>5. AliveInv /\ NoDoubleFire /\ OverlapOnlyPastDeadline
  BY DEF Init, AliveInv, NoDoubleFire, OverlapOnlyPastDeadline
<1> QED
  BY <1>1, <1>3, <1>4, <1>5 DEF IInv

\* Steps that leave the invocations and the firings alone, and stay clear of
\* the phases that speak of the current dispatch.
LEMMA QuietStep ==
  ASSUME IInv, TypeInv',
         UNCHANGED <<runs, lastFired, process>>,
         now' \in {now, clock}, since' \in {since, clock}, clock' = clock,
         pc # "wait", pc' \notin {"attempt", "wait"}
  PROVE  IInv'
<1>t. now \in Nat /\ now' \in Nat /\ now <= now'
  BY DEF IInv, TimeInv, TypeOK
<1>1. MinuteOf(now) <= MinuteOf(now')
  BY <1>t, MinuteMonotonic
<1>2. TimeInv'
  BY DEF IInv, TimeInv, TypeOK
<1>3. FiringInv'
  <2>1. MinuteOf(now) \in Nat /\ MinuteOf(now') \in Nat
    BY <1>t, MinuteType
  <2>2. \A j \in Job : lastFired'[j] <= MinuteOf(now')
    <3> TAKE j \in Job
    <3>1. lastFired[j] \in Int /\ lastFired[j] <= MinuteOf(now)
      BY DEF IInv, FiringInv, TypeOK, NeverFired
    <3> QED
      BY <3>1, <1>1, <2>1
  <2> QED
    BY <2>2 DEF IInv, FiringInv, MinuteOf
<1>4. AliveInv'
  BY DEF IInv, AliveInv
<1>5. NoDoubleFire' /\ OverlapOnlyPastDeadline'
  BY DEF IInv, NoDoubleFire, OverlapOnlyPastDeadline
<1> QED
  BY <1>2, <1>3, <1>4, <1>5 DEF IInv, TypeInv

\* Firing a job: the guard against a second firing in one minute makes every
\* earlier invocation of the job one of an earlier minute.
LEMMA FiringStep ==
  ASSUME IInv, TypeInv', pc = "scan", idx \in Job, Fires(idx),
         lastFired' = [lastFired EXCEPT ![idx] = MinuteOf(now)],
         UNCHANGED <<runs, now, clock, process>>, since' \in {since, clock},
         pc' # "wait", pc' = "attempt" => idx' = idx
  PROVE  IInv'
<1>1. MinuteOf(now) \in Nat
  BY MinuteType DEF IInv, TypeOK
<1>2. ASSUME NEW j \in Job
      PROVE  /\ lastFired[j] \in Int
             /\ lastFired[j] <= lastFired'[j]
             /\ lastFired'[j] <= MinuteOf(now)
  <2>1. lastFired[j] \in Int /\ lastFired[j] <= MinuteOf(now)
    BY <1>2 DEF IInv, FiringInv, TypeOK, NeverFired
  <2>2. lastFired'[j] = IF j = idx THEN MinuteOf(now) ELSE lastFired[j]
    BY <1>2 DEF IInv, TypeOK
  <2> QED
    BY <1>1, <2>1, <2>2
<1>3. ASSUME NEW a \in DOMAIN runs
      PROVE  /\ runs[a].process <= process
             /\ runs[a].process = process =>
                  /\ runs[a].minute <= lastFired'[runs[a].job]
                  /\ idx \in Forbid /\ runs[a].job = idx
                       => runs[a].minute < MinuteOf(now)
  <2>0. runs[a].process <= process
    BY <1>3 DEF IInv, FiringInv
  <2> SUFFICES ASSUME runs[a].process = process
               PROVE  /\ runs[a].minute <= lastFired'[runs[a].job]
                      /\ idx \in Forbid /\ runs[a].job = idx
                           => runs[a].minute < MinuteOf(now)
    BY <2>0
  <2>1. runs[a].job \in Job /\ runs[a].minute \in Nat
    BY <1>3, RunType DEF IInv
  <2>2. runs[a].minute <= lastFired[runs[a].job]
    BY <1>3 DEF IInv, FiringInv
  <2>3. lastFired'[runs[a].job] \in Int
    <3>1. lastFired' \in [Job -> Nat \cup {NeverFired}]
      BY DEF TypeInv, TypeOK
    <3>2. lastFired'[runs[a].job] \in Nat \cup {NeverFired}
      BY <2>1, <3>1
    <3> QED
      BY <3>2 DEF NeverFired
  <2>4. runs[a].minute <= lastFired'[runs[a].job]
    BY <1>2, <2>1, <2>2, <2>3
  <2>5. idx \in Forbid => lastFired[idx] < MinuteOf(now)
    BY <1>1, <1>2 DEF Fires, AlreadyFired, IInv, FiringInv
  <2> QED
    BY <1>1, <1>2, <2>1, <2>2, <2>4, <2>5
<1>4. FiringInv'
  <2>1. lastFired'[idx] = MinuteOf(now)
    BY DEF IInv, TypeOK
  <2>2. ASSUME idx \in Forbid, NEW a \in DOMAIN runs, runs[a].process = process,
               runs[a].job = idx, runs[a].minute = MinuteOf(now)
        PROVE  FALSE
    BY <1>1, <1>3, <2>2
  <2>3. MinuteOf(now') = MinuteOf(now)
    OBVIOUS
  <2> QED
    BY <1>2, <1>3, <2>1, <2>2, <2>3 DEF FiringInv, MinuteOf
<1>5. TimeInv'
  BY DEF IInv, TimeInv, TypeOK
<1>6. AliveInv'
  BY DEF IInv, AliveInv
<1>7. NoDoubleFire' /\ OverlapOnlyPastDeadline'
  BY DEF IInv, NoDoubleFire, OverlapOnlyPastDeadline
<1> QED
  BY <1>4, <1>5, <1>6, <1>7 DEF IInv, TypeInv

\* An attempt starts when no invocation is alive before its deadline, and its
\* number is higher than that of every invocation of this dispatch.
LEMMA StartStep ==
  ASSUME IInv, TypeInv', StartAttempt
  PROVE  IInv'
<1> DEFINE n == Len(runs)
<1>1. MinuteOf(now) \in Nat /\ idx \in Job /\ attempts \in Nat /\ clock \in Nat
  BY MinuteType DEF IInv, TypeOK, ControlInv, StartAttempt
<1>2. /\ n \in Nat
      /\ DOMAIN runs = 1..n /\ DOMAIN runs' = 1..(n + 1) /\ Len(runs') = n + 1
      /\ \A a \in 1..n : runs'[a] = runs[a]
      /\ runs'[n + 1].process = process
      /\ runs'[n + 1].job = idx
      /\ runs'[n + 1].minute = MinuteOf(now)
      /\ runs'[n + 1].attempt = attempts + 1
      /\ runs'[n + 1].start = clock
  BY DEF IInv, TypeOK, StartAttempt
<1>3. /\ pc = "attempt" /\ pc' = "wait" /\ attempts' = attempts + 1
      /\ UNCHANGED <<clock, process, now, idx, lastFired>> /\ since' = clock
  BY DEF StartAttempt
<1> HIDE DEF n
<1>4. TimeInv'
  BY <1>1, <1>3 DEF IInv, TimeInv, TypeOK
<1>r. ASSUME NEW c \in 1..n, idx \in Forbid, runs[c].process = process,
             runs[c].job = idx, runs[c].minute = MinuteOf(now)
      PROVE  runs[c].attempt \in Nat /\ runs[c].attempt <= attempts
  <2>1. runs[c].attempt \in Nat
    BY <1>2, RunType DEF IInv
  <2>2. runs[c].attempt <= attempts
    BY <1>r, <1>2, <1>3 DEF IInv, FiringInv
  <2> QED
    BY <2>1, <2>2
<1>5. FiringInv'
  <2>1. \A a \in DOMAIN runs' :
          /\ runs'[a].process <= process'
          /\ runs'[a].process = process'
               => runs'[a].minute <= lastFired'[runs'[a].job]
    <3> TAKE a \in DOMAIN runs'
    <3>1. CASE a = n + 1
      <4>1. lastFired[idx] = MinuteOf(now) /\ process \in Nat
        BY <1>3 DEF IInv, FiringInv, TypeOK
      <4> QED
        BY <1>1, <1>2, <1>3, <3>1, <4>1
    <3>2. CASE a \in 1..n
      <4>1. /\ runs[a].process <= process
            /\ runs[a].process = process
                 => runs[a].minute <= lastFired[runs[a].job]
        BY <1>2, <3>2 DEF IInv, FiringInv
      <4> QED
        BY <1>2, <1>3, <3>2, <4>1
    <3> QED
      BY <1>2, <3>1, <3>2
  <2>2. ASSUME idx \in Forbid, NEW a \in DOMAIN runs', runs'[a].process = process,
               runs'[a].job = idx, runs'[a].minute = MinuteOf(now)
        PROVE  runs'[a].attempt <= attempts'
    <3>1. CASE a = n + 1
      BY <1>1, <1>2, <1>3, <3>1
    <3>2. CASE a \in 1..n
      <4>1. runs'[a].attempt \in Nat /\ runs'[a].attempt <= attempts
        BY <1>2, <1>r, <2>2, <3>2
      <4> QED
        BY <1>1, <1>3, <4>1
    <3> QED
      BY <1>2, <3>1, <3>2
  <2>3. MinuteOf(now') = MinuteOf(now)
    BY <1>3
  <2>4. /\ \A j \in Job : lastFired[j] <= MinuteOf(now)
        /\ lastFired[idx] = MinuteOf(now)
    BY <1>3 DEF IInv, FiringInv
  <2> QED
    BY <1>3, <2>1, <2>2, <2>3, <2>4 DEF FiringInv, MinuteOf
<1>6. AliveInv'
  <2>1. CurrentRun'.job = idx' /\ CurrentRun'.start = since'
    BY <1>2, <1>3 DEF CurrentRun
  <2>2. ASSUME NEW a \in 1..n
        PROVE  /\ runs'[a].start <= clock'
               /\ runs'[a].status = "running" =>
                    /\ Deadline[runs'[a].job] > 0
                    /\ clock' >= runs'[a].start + Deadline[runs'[a].job]
    BY <1>2, <1>3, <2>2 DEF IInv, AliveInv
  <2>3. runs'[n + 1].start <= clock'
    BY <1>1, <1>2, <1>3
  <2> QED
    BY <1>2, <1>3, <2>1, <2>2, <2>3 DEF AliveInv
<1>7. NoDoubleFire'
  <2> SUFFICES ASSUME NEW a \in DOMAIN runs', NEW b \in DOMAIN runs', a # b,
                      runs'[a].process = runs'[b].process,
                      runs'[a].job = runs'[b].job, runs'[a].job \in Forbid,
                      runs'[a].minute = runs'[b].minute
               PROVE  runs'[a].attempt # runs'[b].attempt
    BY DEF NoDoubleFire
  <2>1. ASSUME NEW c \in 1..n, idx \in Forbid, runs[c].process = process,
               runs[c].job = idx, runs[c].minute = MinuteOf(now)
        PROVE  runs[c].attempt # attempts + 1
    <3>1. runs[c].attempt \in Nat /\ runs[c].attempt <= attempts
      BY <1>r, <2>1
    <3> QED
      BY <1>1, <3>1
  <2>2. CASE a \in 1..n /\ b \in 1..n
    BY <1>2, <2>2 DEF IInv, NoDoubleFire
  <2>3. CASE a = n + 1 /\ b \in 1..n
    BY <1>2, <2>1, <2>3
  <2>4. CASE a \in 1..n /\ b = n + 1
    BY <1>2, <2>1, <2>4
  <2> QED
    BY <1>2, <2>2, <2>3, <2>4
<1>8. OverlapOnlyPastDeadline'
  <2> SUFFICES ASSUME NEW a \in DOMAIN runs', NEW b \in DOMAIN runs', a < b,
                      runs'[a].status = "running"
               PROVE  /\ Deadline[runs'[a].job] > 0
                      /\ runs'[b].start >= runs'[a].start + Deadline[runs'[a].job]
    BY DEF OverlapOnlyPastDeadline
  <2>1. a \in 1..n
    BY <1>2
  <2>2. CASE b \in 1..n
    BY <1>2, <2>1, <2>2 DEF IInv, OverlapOnlyPastDeadline
  <2>3. CASE b = n + 1
    BY <1>1, <1>2, <1>3, <2>1, <2>3 DEF IInv, AliveInv
  <2> QED
    BY <1>2, <2>2, <2>3
<1> QED
  BY <1>4, <1>5, <1>6, <1>7, <1>8 DEF IInv, TypeInv

\* The loop stops waiting: the invocation has ended or is past its deadline.
LEMMA EndWaitStep ==
  ASSUME IInv, TypeInv', pc = "wait", pc' # "wait",
         UNCHANGED <<runs, now, clock, process, idx, lastFired, attempts>>,
         since' \in {since, clock},
         \/ CurrentRun.status # "running"
         \/ Deadline[idx] > 0 /\ clock >= since + Deadline[idx]
  PROVE  IInv'
<1>1. AliveInv'
  BY DEF IInv, AliveInv, CurrentRun, ControlInv
<1>2. FiringInv'
  BY DEF IInv, FiringInv, MinuteOf
<1>3. TimeInv'
  BY DEF IInv, TimeInv, TypeOK
<1>4. NoDoubleFire' /\ OverlapOnlyPastDeadline'
  BY DEF IInv, NoDoubleFire, OverlapOnlyPastDeadline
<1> QED
  BY <1>1, <1>2, <1>3, <1>4 DEF IInv, TypeInv

\* An invocation ends: only its status changes, and only to "not running".
LEMMA EndedStep ==
  ASSUME IInv, TypeInv', NEW i \in DOMAIN runs, NEW outcome \in {"ok", "error"},
         ExecutorEnds(i, outcome)
  PROVE  IInv'
<1>0. /\ TypeOK /\ ControlInv /\ TimeInv /\ FiringInv /\ AliveInv
      /\ NoDoubleFire /\ OverlapOnlyPastDeadline
  BY DEF IInv
<1>1. runs[i] \in Run
  BY <1>0, RunAt
<1>a. /\ runs' = [runs EXCEPT ![i] = Ended(runs[i], outcome)]
      /\ UNCHANGED <<clock, process, loopVars>>
  BY DEF ExecutorEnds
<1>2. /\ DOMAIN runs' = DOMAIN runs
      /\ Len(runs') = Len(runs)
      /\ \A a \in DOMAIN runs :
           /\ runs'[a].process = runs[a].process
           /\ runs'[a].job = runs[a].job
           /\ runs'[a].minute = runs[a].minute
           /\ runs'[a].attempt = runs[a].attempt
           /\ runs'[a].start = runs[a].start
           /\ runs'[a].status = "running" => runs[a].status = "running"
  <2>1. runs' = [runs EXCEPT ![i] = Ended(runs[i], outcome)] /\ runs \in Seq(Run)
    BY <1>0, <1>a DEF TypeOK
  <2>2. DOMAIN runs' = DOMAIN runs /\ Len(runs') = Len(runs)
    BY <1>1, <2>1, EndedRun, ReplaceAt
  <2>3. ASSUME NEW a \in DOMAIN runs, a # i PROVE runs'[a] = runs[a]
    BY <2>1, <2>3
  <2>4. runs'[i] = Ended(runs[i], outcome)
    BY <2>1
  <2>5. outcome # "running"
    OBVIOUS
  <2> QED
    BY <1>1, <2>2, <2>3, <2>4, <2>5, EndedRun
<1>b. UNCHANGED <<clock, process, pc, now, idx, since, attempts, lastFired>>
  BY <1>a DEF loopVars
<1>3. TimeInv' /\ FiringInv'
  BY <1>0, <1>b, <1>2 DEF TimeInv, FiringInv, MinuteOf
<1>4. AliveInv'
  <2>1. pc = "wait" => Len(runs) \in DOMAIN runs
    BY <1>0 DEF ControlInv, TypeOK
  <2> QED
    BY <1>0, <1>b, <1>2, <2>1 DEF AliveInv, CurrentRun
<1>5. NoDoubleFire'
  <2> SUFFICES ASSUME NEW a \in DOMAIN runs', NEW b \in DOMAIN runs', a # b,
                      runs'[a].process = runs'[b].process, runs'[a].job = runs'[b].job,
                      runs'[a].job \in Forbid, runs'[a].minute = runs'[b].minute
               PROVE  runs'[a].attempt # runs'[b].attempt
    BY Zenon DEF NoDoubleFire
  <2>1. /\ a \in DOMAIN runs /\ b \in DOMAIN runs
        /\ runs[a].process = runs[b].process /\ runs[a].job = runs[b].job
        /\ runs[a].job \in Forbid /\ runs[a].minute = runs[b].minute
    BY <1>2
  <2>2. runs[a].attempt # runs[b].attempt
    BY <1>0, <2>1 DEF NoDoubleFire
  <2> QED
    BY <1>2, <2>1, <2>2
<1>6. OverlapOnlyPastDeadline'
  <2> SUFFICES ASSUME NEW a \in DOMAIN runs, NEW b \in DOMAIN runs, a < b,
                      runs[a].status = "running"
               PROVE  /\ Deadline[runs[a].job] > 0
                      /\ runs[b].start >= runs[a].start + Deadline[runs[a].job]
    BY <1>2 DEF OverlapOnlyPastDeadline
  <2> QED
    BY <1>0 DEF OverlapOnlyPastDeadline
<1> QED
  BY <1>3, <1>4, <1>5, <1>6 DEF IInv, TypeInv

\* Time passes: what was past its deadline stays so.
LEMMA TickStep ==
  ASSUME IInv, TypeInv', Tick
  PROVE  IInv'
<1> USE DEF Tick, loopVars, history
<1>1. TimeInv'
  BY DEF IInv, TimeInv, TypeOK
<1>2. FiringInv'
  BY DEF IInv, FiringInv, MinuteOf
<1>3. AliveInv'
  <2>1. ASSUME NEW a \in DOMAIN runs
        PROVE  /\ runs[a].start <= clock'
               /\ clock >= runs[a].start + Deadline[runs[a].job]
                    => clock' >= runs[a].start + Deadline[runs[a].job]
    <3>1. runs[a].start \in Nat /\ Deadline[runs[a].job] \in Nat /\ clock \in Nat
      BY <2>1, RunType DEF IInv, TypeOK
    <3>2. runs[a].start <= clock
      BY <2>1 DEF IInv, AliveInv
    <3> QED
      BY <3>1, <3>2
  <2> QED
    BY <2>1 DEF IInv, AliveInv, CurrentRun
<1>4. NoDoubleFire' /\ OverlapOnlyPastDeadline'
  BY DEF IInv, NoDoubleFire, OverlapOnlyPastDeadline
<1> QED
  BY <1>1, <1>2, <1>3, <1>4 DEF IInv, TypeInv

\* A restart leaves no invocation alive, and every invocation so far belongs to
\* a process that is gone.
LEMMA RestartStep ==
  ASSUME IInv, TypeInv', Restart
  PROVE  IInv'
<1>1. ASSUME NEW a \in DOMAIN runs
      PROVE  /\ runs'[a].process = runs[a].process
             /\ runs'[a].job = runs[a].job
             /\ runs'[a].minute = runs[a].minute
             /\ runs'[a].attempt = runs[a].attempt
             /\ runs'[a].start = runs[a].start
             /\ runs'[a].status # "running"
  <2>1. runs[a] \in Run
    BY <1>1 DEF IInv, TypeOK
  <2>2. runs'[a] = Killed(runs[a])
    BY <1>1 DEF Restart
  <2> QED
    BY <2>1, <2>2, KilledRun
<1>2. DOMAIN runs' = DOMAIN runs
  BY DEF Restart
<1>3. TimeInv'
  BY DEF Restart, IInv, TimeInv, TypeOK
<1>4. FiringInv'
  <2>1. MinuteOf(now') \in Nat
    BY MinuteType DEF TypeInv, TypeOK
  <2>2. \A j \in Job : lastFired'[j] <= MinuteOf(now')
    BY <2>1 DEF Restart, NeverFired
  <2>3. ASSUME NEW a \in DOMAIN runs
        PROVE  runs'[a].process <= process' /\ runs'[a].process # process'
    <3>1. runs[a].process \in Nat /\ process \in Nat
      BY <2>3, RunType DEF IInv, TypeOK
    <3>2. runs[a].process <= process
      BY <2>3 DEF IInv, FiringInv
    <3> QED
      BY <1>1, <3>1, <3>2 DEF Restart
  <2> QED
    BY <1>2, <2>2, <2>3 DEF FiringInv, Restart, MinuteOf
<1>5. AliveInv'
  BY <1>1, <1>2 DEF IInv, AliveInv, Restart
<1>6. NoDoubleFire'
  <2> SUFFICES ASSUME NEW a \in DOMAIN runs', NEW b \in DOMAIN runs', a # b,
                      runs'[a].process = runs'[b].process, runs'[a].job = runs'[b].job,
                      runs'[a].job \in Forbid, runs'[a].minute = runs'[b].minute
               PROVE  runs'[a].attempt # runs'[b].attempt
    BY Zenon DEF NoDoubleFire
  <2>1. /\ a \in DOMAIN runs /\ b \in DOMAIN runs
        /\ runs[a].process = runs[b].process /\ runs[a].job = runs[b].job
        /\ runs[a].job \in Forbid /\ runs[a].minute = runs[b].minute
    BY <1>1, <1>2
  <2>2. runs[a].attempt # runs[b].attempt
    BY <2>1 DEF IInv, NoDoubleFire
  <2> QED
    BY <1>1, <1>2, <2>1, <2>2
<1>7. OverlapOnlyPastDeadline'
  BY <1>1, <1>2 DEF OverlapOnlyPastDeadline
<1> QED
  BY <1>3, <1>4, <1>5, <1>6, <1>7 DEF IInv, TypeInv

LEMMA NextIInv == IInv /\ [Next]_vars => IInv'
<1> SUFFICES ASSUME IInv, [Next]_vars PROVE IInv'
  OBVIOUS
<1>t. TypeInv'
  BY NextTypeInv DEF IInv, TypeInv
<1>1. CASE Wake
  BY <1>t, <1>1, QuietStep DEF Wake, history
<1>2. CASE EndPass
  BY <1>t, <1>2, QuietStep DEF EndPass, GoToSleep, history
<1>3. CASE NotDue
  BY <1>t, <1>3, QuietStep DEF NotDue, history
<1>4. CASE SkipAlreadyFired
  BY <1>t, <1>4, QuietStep DEF SkipAlreadyFired
<1>5. CASE SkipNoExecutor
  <2>1. idx \in Job
    BY <1>5 DEF SkipNoExecutor, IInv, TypeOK
  <2> QED
    BY <1>t, <1>5, <2>1, FiringStep DEF SkipNoExecutor
<1>6. CASE DispatchRaises
  BY <1>t, <1>6, FiringStep DEF DispatchRaises
<1>7. CASE Dispatch
  BY <1>t, <1>7, FiringStep DEF Dispatch, history
<1>8. CASE StartAttempt
  BY <1>t, <1>8, StartStep
<1>9. CASE AttemptSucceeds
  BY <1>t, <1>9, EndWaitStep DEF AttemptSucceeds
<1>10. CASE ExecutorRaised
  BY <1>t, <1>10, EndWaitStep DEF ExecutorRaised, AttemptFails
<1>11. CASE DeadlineExceeded
  BY <1>t, <1>11, EndWaitStep DEF DeadlineExceeded, AttemptFails
<1>12. CASE NotifyReturns
  BY <1>t, <1>12, QuietStep DEF NotifyReturns
<1>13. CASE NotifyRaises
  BY <1>t, <1>13, QuietStep DEF NotifyRaises, GoToSleep
<1>14. ASSUME NEW i \in DOMAIN runs, NEW outcome \in {"ok", "error"},
              ExecutorEnds(i, outcome)
       PROVE  IInv'
  BY <1>t, <1>14, EndedStep
<1>15. CASE Tick
  BY <1>t, <1>15, TickStep
<1>16. CASE Restart
  BY <1>t, <1>16, RestartStep
<1>17. CASE UNCHANGED vars
  <2>1. TimeInv' /\ FiringInv' /\ AliveInv' /\ NoDoubleFire' /\ OverlapOnlyPastDeadline'
    BY <1>17 DEF vars, loopVars, history, IInv, TimeInv, FiringInv, AliveInv, CurrentRun,
                 NoDoubleFire, OverlapOnlyPastDeadline, MinuteOf
  <2> QED
    BY <1>t, <2>1 DEF IInv, TypeInv
<1> QED
  BY <1>1, <1>2, <1>3, <1>4, <1>5, <1>6, <1>7, <1>8, <1>9, <1>10, <1>11, <1>12,
     <1>13, <1>14, <1>15, <1>16, <1>17 DEF Next, LoopStep, PastHorizon

\* The loop keeps its inductive invariant.
THEOREM Invariance == Spec => []IInv
BY InitIInv, NextIInv, PTL DEF Spec

\* A job under policy "forbid" is dispatched at most once for a minute by one
\* process: only a restart can fire it again.
THEOREM NeverDoubleFires == Spec => []NoDoubleFire
BY Invariance, PTL DEF IInv

\* Two invocations are alive together only when the earlier one has outlived
\* its deadline: without deadlines the loop is sequential.
THEOREM SequentialUpToDeadlines == Spec => []OverlapOnlyPastDeadline
BY Invariance, PTL DEF IInv

-----------------------------------------------------------------------------
(* Attempts and what their results rest on.                                *)

LEMMA OneLess == ASSUME NEW k \in Nat PROVE k = (k + 1) - 1
OBVIOUS

\* max(1, backoff_limit + 1) is a positive number.
LEMMA MaxAttemptsType ==
  ASSUME NEW j \in Job
  PROVE  MaxAttempts(j) \in Nat
<1>1. BackoffLimit[j] \in Int
  OBVIOUS
<1> QED
  BY <1>1 DEF MaxAttempts

\* A result added at the end.
LEMMA AppendedResult ==
  ASSUME TypeOK, NEW r, results' = Append(results, r)
  PROVE  /\ Len(results) \in Nat /\ DOMAIN results = 1..Len(results)
         /\ Len(results') = Len(results) + 1
         /\ DOMAIN results' = 1..(Len(results) + 1)
         /\ \A k \in 1..Len(results) : results'[k] = results[k]
         /\ results'[Len(results) + 1] = r
BY DEF TypeOK

\* SuccessIsReal of one result.
Rests(r, process_, runs_) ==
  \E a \in DOMAIN runs_ :
    /\ runs_[a].process = process_
    /\ runs_[a].job = r.job
    /\ runs_[a].minute = r.minute
    /\ runs_[a].attempt = r.attempts
    /\ runs_[a].status = "ok"

LEMMA RealMeansRests ==
  SuccessIsReal <=> \A r \in DOMAIN results :
                      results[r].status = "succeeded" => Rests(results[r], process, runs)
BY Zenon DEF SuccessIsReal, Rests

LEMMA RealMeansRestsNext ==
  SuccessIsReal' <=> \A r \in DOMAIN results' :
                       results'[r].status = "succeeded" => Rests(results'[r], process', runs')
BY Zenon DEF SuccessIsReal, Rests

LEMMA InitRunsInv == Init => RunsInv
BY DEF Init, RunsInv, DispatchInv, AttemptsInOrder, SuccessIsReal

\* A step of the loop that starts no invocation and reports no success.
LEMMA RunsQuiet ==
  ASSUME RunsInv, UNCHANGED <<runs, process>>,
         pc' \notin {"attempt", "wait"} \/ (pc' = "attempt" /\ attempts' = 0),
         \/ UNCHANGED results
         \/ \E r \in Result : r.status # "succeeded" /\ results' = Append(results, r),
         TypeOK
  PROVE  RunsInv'
<1>1. DispatchInv'
  BY DEF DispatchInv
<1>2. AttemptsInOrder'
  BY DEF RunsInv, AttemptsInOrder
<1>3. SuccessIsReal'
  <2>1. CASE UNCHANGED results
    BY <2>1 DEF RunsInv, SuccessIsReal
  <2>2. ASSUME NEW r \in Result, r.status # "succeeded", results' = Append(results, r)
        PROVE  SuccessIsReal'
    <3> SUFFICES ASSUME NEW k \in DOMAIN results', results'[k].status = "succeeded"
                 PROVE  Rests(results'[k], process', runs')
      BY RealMeansRestsNext
    <3>1. k \in DOMAIN results /\ results'[k] = results[k]
      BY <2>2, AppendedResult
    <3> QED
      BY <3>1, RealMeansRests DEF RunsInv
  <2> QED
    BY <2>1, <2>2
<1> QED
  BY <1>1, <1>2, <1>3 DEF RunsInv

\* An attempt is the first of its dispatch, or follows one that is over.
LEMMA RunsStart == ASSUME IInv, RunsInv, StartAttempt PROVE RunsInv'
<1> DEFINE n == Len(runs)
<1>1. /\ MinuteOf(now) \in Nat /\ idx \in Job /\ attempts \in Nat /\ clock \in Nat
      /\ MaxAttempts(idx) \in Nat /\ attempts < MaxAttempts(idx)
  BY MinuteType, MaxAttemptsType DEF IInv, TypeOK, ControlInv, StartAttempt
<1>2. /\ n \in Nat
      /\ DOMAIN runs = 1..n /\ DOMAIN runs' = 1..(n + 1) /\ Len(runs') = n + 1
      /\ \A a \in 1..n : runs'[a] = runs[a]
      /\ runs'[n + 1].process = process
      /\ runs'[n + 1].job = idx
      /\ runs'[n + 1].minute = MinuteOf(now)
      /\ runs'[n + 1].attempt = attempts + 1
      /\ runs'[n + 1].start = clock
  BY DEF IInv, TypeOK, StartAttempt
<1>3. /\ pc = "attempt" /\ pc' = "wait" /\ attempts' = attempts + 1
      /\ UNCHANGED <<clock, process, now, idx, results>>
  BY DEF StartAttempt
<1>4. attempts > 0 =>
        /\ n > 0 /\ runs[n].process = process /\ runs[n].job = idx
        /\ runs[n].minute = MinuteOf(now) /\ runs[n].attempt = attempts
        /\ \/ runs[n].status = "error"
           \/ Deadline[idx] > 0 /\ clock >= runs[n].start + Deadline[idx]
  BY <1>3 DEF RunsInv, DispatchInv, CurrentIsLatest, CurrentRun
<1> HIDE DEF n
<1>5. DispatchInv'
  <2>1. CurrentIsLatest'
    BY <1>1, <1>2, <1>3 DEF CurrentIsLatest, CurrentRun, MinuteOf
  <2>2. attempts' \in 1..MaxAttempts(idx)'
    BY <1>1, <1>3 DEF MaxAttempts
  <2> QED
    BY <1>3, <2>1, <2>2 DEF DispatchInv
<1>6. AttemptsInOrder'
  <2> SUFFICES ASSUME NEW a \in 1..(n + 1)
      PROVE  /\ runs'[a].attempt \in 1..MaxAttempts(runs'[a].job)
             /\ runs'[a].attempt > 1 =>
                  /\ a > 1
                  /\ runs'[a - 1].process = runs'[a].process
                  /\ runs'[a - 1].job = runs'[a].job
                  /\ runs'[a - 1].minute = runs'[a].minute
                  /\ runs'[a - 1].attempt = runs'[a].attempt - 1
                  /\ \/ runs'[a - 1].status = "error"
                     \/ /\ Deadline[runs'[a].job] > 0
                        /\ runs'[a].start >= runs'[a - 1].start + Deadline[runs'[a].job]
    BY <1>2, Zenon DEF AttemptsInOrder, MaxAttempts
  <2>1. CASE a = n + 1
    <3>1. runs'[a].attempt \in 1..MaxAttempts(runs'[a].job)
      BY <1>1, <1>2, <2>1
    <3>2. CASE attempts > 0
      <4>1. n \in 1..n /\ a - 1 = n /\ a > 1
        BY <1>2, <1>4, <2>1, <3>2
      <4>2. runs'[a - 1] = runs[n]
        BY <1>2, <4>1
      <4>3. attempts = runs'[a].attempt - 1
        BY <1>2, <2>1, <1>1, OneLess
      <4> QED
        BY <1>2, <1>4, <2>1, <3>1, <3>2, <4>1, <4>2, <4>3
    <3>3. CASE ~(attempts > 0)
      BY <1>1, <1>2, <2>1, <3>1, <3>3
    <3> QED
      BY <3>2, <3>3
  <2>2. CASE a \in 1..n
    <3>1. a > 1 => a - 1 \in 1..n
      BY <1>2, <2>2
    <3>2. runs'[a] = runs[a] /\ (a > 1 => runs'[a - 1] = runs[a - 1])
      BY <1>2, <2>2, <3>1
    <3> QED
      BY <1>2, <2>2, <3>2 DEF RunsInv, AttemptsInOrder
  <2> QED
    BY <1>2, <2>1, <2>2
<1>7. SuccessIsReal'
  BY <1>2, <1>3 DEF RunsInv, SuccessIsReal
<1> QED
  BY <1>5, <1>6, <1>7 DEF RunsInv

\* A success is reported for the invocation waited for.
LEMMA RunsSucceed == ASSUME IInv, RunsInv, AttemptSucceeds PROVE RunsInv'
<1> DEFINE m == Len(results)
<1>1. /\ m \in Nat /\ DOMAIN results = 1..m /\ DOMAIN results' = 1..(m + 1)
      /\ \A r \in 1..m : results'[r] = results[r]
      /\ results'[m + 1] = [job |-> idx, minute |-> MinuteOf(now),
                            attempts |-> attempts, status |-> "succeeded"]
  BY DEF IInv, TypeOK, AttemptSucceeds, Produce
<1>2. pc = "wait" /\ pc' = "notify" /\ CurrentRun.status = "ok"
      /\ UNCHANGED <<runs, process>>
  BY DEF AttemptSucceeds
<1>3. Len(runs) \in DOMAIN runs
  BY <1>2 DEF IInv, ControlInv, TypeOK
<1> HIDE DEF m
<1>4. SuccessIsReal'
  <2> SUFFICES ASSUME NEW r \in 1..(m + 1), results'[r].status = "succeeded"
               PROVE  Rests(results'[r], process, runs)
    BY <1>1, <1>2, RealMeansRestsNext
  <2>1. CASE r = m + 1
    <3>1. /\ CurrentRun.process = process /\ CurrentRun.job = results'[r].job
          /\ CurrentRun.minute = results'[r].minute
          /\ CurrentRun.attempt = results'[r].attempts
      BY <1>1, <1>2, <2>1 DEF RunsInv, DispatchInv, CurrentIsLatest
    <3> QED
      BY <1>2, <1>3, <3>1 DEF CurrentRun, Rests
  <2>2. CASE r \in 1..m
    BY <1>1, <2>2, RealMeansRests DEF RunsInv
  <2> QED
    BY <1>1, <2>1, <2>2
<1> QED
  BY <1>2, <1>4 DEF RunsInv, DispatchInv, AttemptsInOrder

\* A failed attempt leaves the invocation it waited for in error or past its
\* deadline.
LEMMA RunsFail ==
  ASSUME IInv, RunsInv, AttemptFails, pc = "wait",
         \/ CurrentRun.status = "error"
         \/ Deadline[idx] > 0 /\ clock >= since + Deadline[idx]
  PROVE  RunsInv'
<1>1. CASE attempts < MaxAttempts(idx)
  <2>1. /\ pc' = "attempt" /\ CurrentIsLatest
        /\ UNCHANGED <<clock, process, now, idx, attempts, runs, results>>
    BY <1>1 DEF AttemptFails, RunsInv, DispatchInv
  <2>2. \/ CurrentRun.status = "error"
        \/ Deadline[idx] > 0 /\ clock >= CurrentRun.start + Deadline[idx]
    BY DEF IInv, AliveInv
  <2>3. DispatchInv'
    BY <2>1, <2>2 DEF DispatchInv, CurrentIsLatest, CurrentRun, MinuteOf
  <2> QED
    BY <2>1, <2>3 DEF RunsInv, AttemptsInOrder, SuccessIsReal
<1>2. CASE ~(attempts < MaxAttempts(idx))
  <2> DEFINE r == [job |-> idx, minute |-> MinuteOf(now),
                   attempts |-> attempts, status |-> "failed"]
  <2>1. r \in Result /\ results' = Append(results, r) /\ r.status # "succeeded"
    BY <1>2, MinuteType DEF AttemptFails, Produce, Result, IInv, TypeOK, ControlInv
  <2> HIDE DEF r
  <2>2. pc' = "notify" /\ UNCHANGED <<runs, process>> /\ TypeOK
    BY <1>2 DEF AttemptFails, IInv
  <2> QED
    BY <2>1, <2>2, RunsQuiet
<1> QED
  BY <1>1, <1>2

\* An invocation that has ended keeps its outcome, whoever else ends.
LEMMA RunsKeepOutcome ==
  ASSUME IInv, RunsInv, DOMAIN runs' = DOMAIN runs, Len(runs') = Len(runs),
         \A a \in DOMAIN runs :
           /\ runs'[a].process = runs[a].process
           /\ runs'[a].job = runs[a].job
           /\ runs'[a].minute = runs[a].minute
           /\ runs'[a].attempt = runs[a].attempt
           /\ runs'[a].start = runs[a].start
           /\ runs[a].status # "running" => runs'[a].status = runs[a].status
  PROVE  /\ AttemptsInOrder'
         /\ UNCHANGED <<results, process>> => SuccessIsReal'
         /\ UNCHANGED <<clock, process, loopVars>> => DispatchInv'
<1>1. AttemptsInOrder'
  <2> SUFFICES ASSUME NEW a \in DOMAIN runs
      PROVE  /\ runs'[a].attempt \in 1..MaxAttempts(runs'[a].job)
             /\ runs'[a].attempt > 1 =>
                  /\ a > 1
                  /\ runs'[a - 1].process = runs'[a].process
                  /\ runs'[a - 1].job = runs'[a].job
                  /\ runs'[a - 1].minute = runs'[a].minute
                  /\ runs'[a - 1].attempt = runs'[a].attempt - 1
                  /\ \/ runs'[a - 1].status = "error"
                     \/ /\ Deadline[runs'[a].job] > 0
                        /\ runs'[a].start >= runs'[a - 1].start + Deadline[runs'[a].job]
    BY Zenon DEF AttemptsInOrder, MaxAttempts
  <2>1. a > 1 => a - 1 \in DOMAIN runs
    BY DEF IInv, TypeOK
  <2>2. /\ runs[a].attempt \in 1..MaxAttempts(runs[a].job)
        /\ runs[a].attempt > 1 =>
                  /\ a > 1
                  /\ runs[a - 1].process = runs[a].process
                  /\ runs[a - 1].job = runs[a].job
                  /\ runs[a - 1].minute = runs[a].minute
                  /\ runs[a - 1].attempt = runs[a].attempt - 1
                  /\ \/ runs[a - 1].status = "error"
                     \/ /\ Deadline[runs[a].job] > 0
                        /\ runs[a].start >= runs[a - 1].start + Deadline[runs[a].job]
    BY Zenon DEF RunsInv, AttemptsInOrder
  <2> QED
    BY <2>1, <2>2
<1>2. ASSUME UNCHANGED <<results, process>> PROVE SuccessIsReal'
  <2> SUFFICES ASSUME NEW r \in DOMAIN results, results[r].status = "succeeded"
               PROVE  Rests(results[r], process, runs')
    BY <1>2, RealMeansRestsNext
  <2>1. Rests(results[r], process, runs)
    BY RealMeansRests DEF RunsInv
  <2>2. \A a \in DOMAIN runs : runs[a].status = "ok" => runs'[a].status = "ok"
    OBVIOUS
  <2> QED
    BY <2>1, <2>2 DEF Rests
<1>3. ASSUME UNCHANGED <<clock, process, loopVars>> PROVE DispatchInv'
  <2>1. Len(runs) > 0 => Len(runs) \in DOMAIN runs
    BY DEF IInv, TypeOK
  <2> QED
    BY <1>3, <2>1
    DEF RunsInv, DispatchInv, CurrentIsLatest, CurrentRun, MinuteOf, MaxAttempts, loopVars
<1> QED
  BY <1>1, <1>2, <1>3

LEMMA RunsTick == ASSUME IInv, RunsInv, Tick PROVE RunsInv'
<1>1. DispatchInv'
  BY DEF Tick, Waiting, RunsInv, DispatchInv, CurrentIsLatest, CurrentRun, MinuteOf,
         MaxAttempts, loopVars, history
<1>2. AttemptsInOrder' /\ SuccessIsReal'
  BY DEF Tick, RunsInv, AttemptsInOrder, SuccessIsReal, history
<1> QED
  BY <1>1, <1>2 DEF RunsInv

LEMMA RunsEnded ==
  ASSUME IInv, RunsInv, NEW i \in DOMAIN runs, NEW outcome \in {"ok", "error"},
         ExecutorEnds(i, outcome)
  PROVE  RunsInv'
<1>0. TypeOK
  BY DEF IInv
<1>1. runs[i] \in Run /\ runs[i].status = "running"
  BY <1>0, RunAt DEF ExecutorEnds
<1>2. runs' = [runs EXCEPT ![i] = Ended(runs[i], outcome)]
  BY DEF ExecutorEnds
<1>3. DOMAIN runs' = DOMAIN runs /\ Len(runs') = Len(runs)
  <2>1. runs \in Seq(Run)
    BY <1>0 DEF TypeOK
  <2> QED
    BY <1>1, <1>2, <2>1, EndedRun, ReplaceAt
<1>4. ASSUME NEW a \in DOMAIN runs, a # i PROVE runs'[a] = runs[a]
  BY <1>2, <1>4
<1>5. runs'[i] = Ended(runs[i], outcome)
  BY <1>2
<1>6. \A a \in DOMAIN runs :
        /\ runs'[a].process = runs[a].process
        /\ runs'[a].job = runs[a].job
        /\ runs'[a].minute = runs[a].minute
        /\ runs'[a].attempt = runs[a].attempt
        /\ runs'[a].start = runs[a].start
        /\ runs[a].status # "running" => runs'[a].status = runs[a].status
  <2> TAKE a \in DOMAIN runs
  <2>1. CASE a = i
    BY <1>1, <1>5, <2>1, EndedRun
  <2>2. CASE a # i
    BY <1>4, <2>2
  <2> QED
    BY <2>1, <2>2
<1> QED
  BY <1>3, <1>6, RunsKeepOutcome DEF ExecutorEnds, RunsInv

LEMMA RunsRestart == ASSUME IInv, RunsInv, Restart PROVE RunsInv'
<1>1. DOMAIN runs' = DOMAIN runs /\ Len(runs') = Len(runs)
  BY DEF Restart, IInv, TypeOK
<1>2. ASSUME NEW a \in DOMAIN runs
      PROVE  /\ runs'[a].process = runs[a].process
             /\ runs'[a].job = runs[a].job
             /\ runs'[a].minute = runs[a].minute
             /\ runs'[a].attempt = runs[a].attempt
             /\ runs'[a].start = runs[a].start
             /\ runs[a].status # "running" => runs'[a].status = runs[a].status
  <2>1. runs[a] \in Run
    BY <1>2 DEF IInv, TypeOK
  <2>2. runs'[a] = Killed(runs[a])
    BY <1>2 DEF Restart
  <2>3. runs[a].status # "running" => Killed(runs[a]).status = runs[a].status
    BY <2>1 DEF Killed, Run
  <2> QED
    BY <2>1, <2>2, <2>3, KilledRun
<1>3. AttemptsInOrder'
  BY <1>1, <1>2, RunsKeepOutcome
<1>4. DispatchInv' /\ SuccessIsReal'
  BY DEF Restart, DispatchInv, SuccessIsReal
<1> QED
  BY <1>3, <1>4 DEF RunsInv

\* A skipped job yields a result that is no success.
LEMMA SkippedResult ==
  ASSUME TypeOK, idx \in Job, NEW status \in {"failed", "skipped"},
         Produce(idx, status, 0)
  PROVE  \E r \in Result : r.status # "succeeded" /\ results' = Append(results, r)
<1> DEFINE r == [job |-> idx, minute |-> MinuteOf(now), attempts |-> 0, status |-> status]
<1>1. r \in Result /\ r.status # "succeeded"
  BY MinuteType DEF TypeOK, Result
<1>2. results' = Append(results, r)
  BY DEF Produce
<1> QED
  BY <1>1, <1>2

LEMMA NextRunsInv == IInv /\ RunsInv /\ [Next]_vars => RunsInv'
<1> SUFFICES ASSUME IInv, RunsInv, [Next]_vars PROVE RunsInv'
  OBVIOUS
<1>t. TypeOK /\ (idx <= NJobs => idx \in Job)
  BY DEF IInv, TypeOK
<1>1. CASE Wake \/ EndPass \/ NotDue
  BY <1>t, <1>1, RunsQuiet DEF Wake, EndPass, GoToSleep, NotDue, history
<1>2. CASE SkipAlreadyFired
  BY <1>t, <1>2, SkippedResult, RunsQuiet DEF SkipAlreadyFired
<1>3. CASE SkipNoExecutor
  BY <1>t, <1>3, SkippedResult, RunsQuiet DEF SkipNoExecutor
<1>4. CASE DispatchRaises
  BY <1>t, <1>4, SkippedResult, RunsQuiet DEF DispatchRaises
<1>5. CASE Dispatch
  BY <1>t, <1>5, RunsQuiet DEF Dispatch, history
<1>6. CASE StartAttempt
  BY <1>6, RunsStart
<1>7. CASE AttemptSucceeds
  BY <1>7, RunsSucceed
<1>8. CASE ExecutorRaised
  BY <1>8, RunsFail DEF ExecutorRaised
<1>9. CASE DeadlineExceeded
  BY <1>9, RunsFail DEF DeadlineExceeded
<1>10. CASE NotifyReturns \/ NotifyRaises
  BY <1>t, <1>10, RunsQuiet DEF NotifyReturns, NotifyRaises, GoToSleep
<1>11. ASSUME NEW i \in DOMAIN runs, NEW outcome \in {"ok", "error"},
              ExecutorEnds(i, outcome)
       PROVE  RunsInv'
  BY <1>11, RunsEnded
<1>12. CASE Tick
  BY <1>12, RunsTick
<1>13. CASE Restart
  BY <1>13, RunsRestart
<1>14. CASE UNCHANGED vars
  BY <1>14 DEF vars, loopVars, history, RunsInv, DispatchInv, CurrentIsLatest, CurrentRun,
               AttemptsInOrder, SuccessIsReal, MinuteOf, MaxAttempts
<1> QED
  BY <1>1, <1>2, <1>3, <1>4, <1>5, <1>6, <1>7, <1>8, <1>9, <1>10, <1>11, <1>12,
     <1>13, <1>14 DEF Next, LoopStep, PastHorizon

LEMMA RunsInvariance == Spec => []RunsInv
BY Invariance, InitRunsInv, NextRunsInv, PTL DEF Spec

\* _dispatch retries only what has raised or outlived its deadline, one attempt
\* after another, and never beyond max(1, backoff_limit + 1).
THEOREM RetriesInOrder == Spec => []AttemptsInOrder
BY RunsInvariance, PTL DEF RunsInv

\* A result "succeeded" is the success of the very attempt it names: a detached
\* worker that ends late is never credited to another.
THEOREM SuccessRestsOnRun == Spec => []SuccessIsReal
BY RunsInvariance, PTL DEF RunsInv

-----------------------------------------------------------------------------
(* Results and notifications.                                              *)

\* Job j has its result for the minute of the pass in res.
Reported(j, res) ==
  \E r \in DOMAIN res : res[r].job = j /\ res[r].minute = MinuteOf(now)

LEMMA InitResultsInv == Init => ResultsInv
<1> SUFFICES ASSUME Init PROVE ResultsInv
  OBVIOUS
<1>1. ReportInv
  BY DEF Init, ReportInv
<1>2. Delivered = {} /\ Len(notified) = 0
  BY DEF Init, Delivered
<1> QED
  BY <1>1, <1>2, FS_EmptySet DEF ResultsInv, NotifiedOncePerTerminal

\* A step within a pass: the results stay, and idx moves on only past a job that
\* is not due or has its result.
LEMMA PassStep ==
  ASSUME TypeOK, ReportInv, pc # "sleep", now' = now,
         UNCHANGED results \/ \E r : results' = Append(results, r),
         idx' = idx \/ (idx' = idx + 1 /\ (Due(idx) => Reported(idx, results'))),
         pc' = "notify" => /\ results'[Len(results')].job = idx'
                           /\ results'[Len(results')].minute = MinuteOf(now)
                           /\ results'[Len(results')].status \in Terminal
  PROVE  ReportInv'
<1>1. ASSUME NEW j \in Job, j < idx', Due(j)
      PROVE  Reported(j, results')
  <2>2. CASE j < idx
    <3>1. Reported(j, results)
      BY <1>1, <2>2 DEF ReportInv, Reported
    <3>2. CASE UNCHANGED results
      BY <3>1, <3>2
    <3>3. ASSUME NEW r, results' = Append(results, r) PROVE Reported(j, results')
      <4>1. \A k \in DOMAIN results : k \in DOMAIN results' /\ results'[k] = results[k]
        BY <3>3, AppendedResult
      <4> QED
        BY <3>1, <4>1 DEF Reported
    <3> QED
      BY <3>2, <3>3
  <2>3. CASE ~(j < idx)
    <3>1. j = idx /\ idx' = idx + 1
      BY <1>1, <2>3 DEF TypeOK
    <3> QED
      BY <1>1, <3>1
  <2> QED
    BY <2>2, <2>3
<1> QED
  BY <1>1 DEF ReportInv, Reported, Due, MinuteOf

\* The result a step produces is the last, and its job's.
LEMMA ProducedLast ==
  ASSUME TypeOK, NEW status, NEW n, Produce(idx, status, n), now' = now
  PROVE  /\ results'[Len(results')].job = idx
         /\ results'[Len(results')].minute = MinuteOf(now)
         /\ results'[Len(results')].status = status
         /\ \E r : results' = Append(results, r)
         /\ Reported(idx, results')
<1> DEFINE r == [job |-> idx, minute |-> MinuteOf(now), attempts |-> n, status |-> status]
<1>1. results' = Append(results, r)
  BY DEF Produce
<1>2. r.job = idx /\ r.minute = MinuteOf(now) /\ r.status = status
  OBVIOUS
<1> HIDE DEF r
<1>3. Len(results') \in DOMAIN results' /\ results'[Len(results')] = r
  BY <1>1, AppendedResult
<1>4. Reported(idx, results')
  BY <1>2, <1>3 DEF Reported
<1> QED
  BY <1>1, <1>2, <1>3, <1>4

\* A step that delivers nothing.
LEMMA NothingDelivered ==
  ASSUME NotifiedOncePerTerminal, Delivered' = Delivered, notified' = notified,
         \A r \in Delivered : results'[r] = results[r]
  PROVE  NotifiedOncePerTerminal'
BY DEF NotifiedOncePerTerminal

\* A result is produced: skipped, or terminal and then pending.
LEMMA ProducedNotDelivered ==
  ASSUME TypeOK, NotifiedOncePerTerminal, NEW status, NEW n, NEW j,
         Produce(j, status, n), notified' = notified, pc # "notify",
         (status \notin Terminal /\ pc' # "notify") \/ pc' = "notify"
  PROVE  NotifiedOncePerTerminal'
<1> DEFINE r == [job |-> j, minute |-> MinuteOf(now), attempts |-> n, status |-> status]
           m == Len(results)
<1>1. results' = Append(results, r) /\ r.status = status
  BY DEF Produce
<1> HIDE DEF r
<1>2. /\ m \in Nat /\ DOMAIN results = 1..m /\ Len(results') = m + 1
      /\ DOMAIN results' = 1..(m + 1)
      /\ \A k \in 1..m : results'[k] = results[k]
      /\ results'[m + 1] = r
  BY <1>1, AppendedResult
<1> HIDE DEF m
<1>3. ASSUME NEW k \in 1..m PROVE k \in Delivered <=> k \in Delivered'
  BY <1>2, <1>3 DEF Delivered
<1>4. m + 1 \notin Delivered /\ m + 1 \notin Delivered'
  BY <1>1, <1>2 DEF Delivered
<1>5. Delivered \subseteq 1..m /\ Delivered' \subseteq 1..(m + 1)
  BY <1>2 DEF Delivered
<1>6. Delivered' = Delivered
  <2>1. ASSUME NEW k \in 1..(m + 1) PROVE k \in Delivered <=> k \in Delivered'
    <3>1. k \in 1..m \/ k = m + 1
      BY <1>2
    <3> QED
      BY <1>3, <1>4, <3>1
  <2>2. Delivered \subseteq 1..(m + 1)
    BY <1>2, <1>5
  <2> QED
    BY <1>5, <2>1, <2>2
<1> QED
  BY <1>2, <1>5, <1>6, NothingDelivered

\* The pending result is delivered: it is the last of the terminal ones.
LEMMA DeliveredLast ==
  ASSUME TypeOK, ControlInv, ReportInv, NotifiedOncePerTerminal, pc = "notify",
         pc' # "notify", results' = results,
         HasNotifier => notified' = Append(notified, results[Len(results)])
  PROVE  NotifiedOncePerTerminal'
<1> SUFFICES ASSUME HasNotifier
             PROVE  /\ Len(notified') = Cardinality(Delivered')
                    /\ \A r \in Delivered' :
                         notified'[Cardinality({d \in Delivered' : d <= r})] = results[r]
  BY DEF NotifiedOncePerTerminal
<1> DEFINE m == Len(results)
           D == Delivered
           UpTo(r) == {d \in D : d <= r}
<1>1. m \in Nat /\ m > 0 /\ DOMAIN results = 1..m
  BY DEF TypeOK, ControlInv
<1>2. D \subseteq 1..(m - 1) /\ m \notin D
  BY <1>1 DEF Delivered
<1>3. Delivered' = D \cup {m}
  BY <1>1 DEF Delivered, ReportInv
<1>4. IsFiniteSet(D) /\ Cardinality(D) \in Nat
  <2>1. IsFiniteSet(1..(m - 1))
    BY <1>1, FS_Interval
  <2> QED
    BY <1>2, <2>1, FS_Subset, FS_CardinalityType
<1>5. Cardinality(Delivered') = Cardinality(D) + 1
  BY <1>2, <1>3, <1>4, FS_AddElement
<1>6. Len(notified) = Cardinality(D)
  BY DEF NotifiedOncePerTerminal
<1>7. /\ Len(notified') = Len(notified) + 1
      /\ \A k \in 1..Len(notified) : notified'[k] = notified[k]
      /\ notified'[Len(notified) + 1] = results[m]
  <2>1. results[m] \in Result
    BY <1>1 DEF TypeOK
  <2>2. notified' = Append(notified, results[m])
    BY Zenon
  <2>3. notified \in Seq(Result)
    BY DEF TypeOK
  <2> HIDE DEF m
  <2> QED
    BY <2>1, <2>2, <2>3
<1>8. ASSUME NEW r \in D
      PROVE  notified'[Cardinality({d \in Delivered' : d <= r})] = results[r]
  <2>1. r \in Int /\ ~(m <= r)
    BY <1>1, <1>2
  <2>2. {d \in Delivered' : d <= r} = UpTo(r)
    BY <1>3, <2>1
  <2>3. r \in UpTo(r) /\ UpTo(r) \subseteq D
    BY <2>1
  <2>4. IsFiniteSet(UpTo(r)) /\ Cardinality(UpTo(r)) <= Cardinality(D)
    BY <1>4, <2>3, FS_Subset
  <2>5. Cardinality(UpTo(r)) \in Nat /\ Cardinality(UpTo(r)) # 0
    BY <2>3, <2>4, FS_EmptySet, FS_CardinalityType
  <2>6. notified[Cardinality(UpTo(r))] = results[r]
    BY DEF NotifiedOncePerTerminal
  <2> HIDE DEF UpTo, D, m
  <2>7. Cardinality(UpTo(r)) \in 1..Len(notified)
    BY <1>4, <1>6, <2>4, <2>5
  <2> QED
    BY <1>7, <2>2, <2>6, <2>7
<1>9. notified'[Cardinality({d \in Delivered' : d <= m})] = results[m]
  <2> HIDE DEF D, m
  <2>0. \A d \in D \cup {m} : d <= m
    BY <1>1, <1>2
  <2>1. {d \in Delivered' : d <= m} = Delivered'
    BY <1>3, <2>0
  <2> QED
    BY <1>5, <1>6, <1>7, <2>1
<1> QED
  BY <1>3, <1>5, <1>6, <1>7, <1>8, <1>9

LEMMA ResultsAttemptFails ==
  ASSUME IInv, ResultsInv, pc = "wait", AttemptFails PROVE ResultsInv'
<1>1. CASE attempts < MaxAttempts(idx)
  <2>1. /\ pc' = "attempt" /\ UNCHANGED <<now, idx, results, notified>>
    BY <1>1 DEF AttemptFails
  <2>2. ReportInv'
    BY <2>1, PassStep DEF IInv, ResultsInv
  <2>3. Delivered' = Delivered
    BY <2>1 DEF Delivered
  <2> QED
    BY <2>1, <2>2, <2>3, NothingDelivered DEF ResultsInv
<1>2. CASE ~(attempts < MaxAttempts(idx))
  <2>1. /\ pc' = "notify" /\ UNCHANGED <<now, idx, notified>>
        /\ Produce(idx, "failed", attempts)
    BY <1>2 DEF AttemptFails
  <2>2. ReportInv'
    BY <2>1, ProducedLast, PassStep DEF IInv, ResultsInv, Terminal
  <2>3. NotifiedOncePerTerminal'
    BY <2>1, ProducedNotDelivered DEF IInv, ResultsInv
  <2> QED
    BY <2>2, <2>3 DEF ResultsInv
<1> QED
  BY <1>1, <1>2

LEMMA NextResultsInv == IInv /\ ResultsInv /\ [Next]_vars => ResultsInv'
<1> SUFFICES ASSUME IInv, ResultsInv, [Next]_vars PROVE ResultsInv'
  OBVIOUS
<1>t. TypeOK /\ ControlInv /\ ReportInv /\ NotifiedOncePerTerminal
  BY DEF IInv, ResultsInv
<1>s. ASSUME UNCHANGED <<results, notified>>, pc # "notify", pc' # "notify"
      PROVE  NotifiedOncePerTerminal'
  <2>1. Delivered' = Delivered
    BY <1>s DEF Delivered
  <2> QED
    BY <1>t, <1>s, <2>1, NothingDelivered
<1>u. ASSUME UNCHANGED <<pc, now, idx, results, notified>> PROVE ResultsInv'
  BY <1>t, <1>u
  DEF ResultsInv, ReportInv, NotifiedOncePerTerminal, Delivered, Due, MinuteOf
<1>1. CASE Wake
  <2>1. ReportInv'
    BY <1>1 DEF Wake, ReportInv
  <2> QED
    BY <1>1, <1>s, <2>1 DEF Wake, history, ResultsInv
<1>2. CASE EndPass
  <2>1. ReportInv'
    BY <1>2 DEF EndPass, GoToSleep, ReportInv
  <2> QED
    BY <1>2, <1>s, <2>1 DEF EndPass, GoToSleep, history, ResultsInv
<1>3. CASE NotDue
  <2>1. ReportInv'
    BY <1>t, <1>3, PassStep DEF NotDue, history
  <2> QED
    BY <1>3, <1>s, <2>1 DEF NotDue, history, ResultsInv
<1>4. CASE SkipAlreadyFired \/ SkipNoExecutor
  <2>1. /\ pc = "scan" /\ pc' = "scan" /\ now' = now /\ idx' = idx + 1
        /\ notified' = notified /\ Produce(idx, "skipped", 0)
    BY <1>4 DEF SkipAlreadyFired, SkipNoExecutor
  <2>2. ReportInv'
    BY <1>t, <2>1, ProducedLast, PassStep
  <2>3. NotifiedOncePerTerminal'
    BY <1>t, <2>1, ProducedNotDelivered DEF Terminal
  <2> QED
    BY <2>2, <2>3 DEF ResultsInv
<1>5. CASE DispatchRaises \/ AttemptSucceeds
  <2>1. PICK status \in Terminal, n \in {0, attempts} :
          /\ pc \in {"scan", "wait"} /\ pc' = "notify" /\ now' = now /\ idx' = idx
          /\ notified' = notified /\ Produce(idx, status, n)
    BY <1>5 DEF DispatchRaises, AttemptSucceeds, Terminal
  <2>2. ReportInv'
    BY <1>t, <2>1, ProducedLast, PassStep
  <2>3. NotifiedOncePerTerminal'
    BY <1>t, <2>1, ProducedNotDelivered
  <2> QED
    BY <2>2, <2>3 DEF ResultsInv
<1>6. CASE Dispatch \/ StartAttempt
  <2>1. /\ pc \in {"scan", "attempt"} /\ pc' \in {"attempt", "wait"}
        /\ UNCHANGED <<now, idx, results, notified>>
    BY <1>6 DEF Dispatch, StartAttempt, history
  <2>2. ReportInv'
    BY <1>t, <2>1, PassStep
  <2> QED
    BY <1>s, <2>1, <2>2 DEF ResultsInv
<1>7. CASE ExecutorRaised \/ DeadlineExceeded
  BY <1>7, ResultsAttemptFails DEF ExecutorRaised, DeadlineExceeded
<1>8. CASE NotifyReturns
  <2>1. /\ pc = "notify" /\ pc' = "scan" /\ now' = now /\ idx' = idx + 1
        /\ results' = results
    BY <1>8 DEF NotifyReturns
  <2>2. HasNotifier => notified' = Append(notified, results[Len(results)])
    BY <1>8, Zenon DEF NotifyReturns
  <2>3. Len(results) \in DOMAIN results
    BY <1>t, <2>1 DEF TypeOK, ControlInv
  <2>4. Reported(idx, results')
    BY <1>t, <2>1, <2>3 DEF ReportInv, Reported
  <2>5. ReportInv'
    BY <1>t, <2>1, <2>4, PassStep
  <2>6. NotifiedOncePerTerminal'
    BY <1>t, <2>1, <2>2, DeliveredLast
  <2> QED
    BY <2>5, <2>6 DEF ResultsInv
<1>9. CASE NotifyRaises
  <2>1. /\ pc = "notify" /\ pc' = "sleep" /\ results' = results
        /\ notified' = Append(notified, results[Len(results)])
    BY <1>9 DEF NotifyRaises, GoToSleep
  <2>2. ReportInv'
    BY <2>1 DEF ReportInv
  <2>3. NotifiedOncePerTerminal'
    BY <1>t, <2>1, DeliveredLast
  <2> QED
    BY <2>2, <2>3 DEF ResultsInv
<1>10. ASSUME NEW i \in DOMAIN runs, NEW outcome \in {"ok", "error"},
              ExecutorEnds(i, outcome)
       PROVE  ResultsInv'
  BY <1>10, <1>u DEF ExecutorEnds, loopVars
<1>11. CASE Tick
  BY <1>11, <1>u DEF Tick, loopVars, history
<1>12. CASE Restart
  <2>1. pc' = "sleep" /\ results' = <<>> /\ notified' = <<>>
    BY <1>12 DEF Restart
  <2>2. ReportInv'
    BY <2>1 DEF ReportInv
  <2>3. Delivered' = {} /\ Len(notified') = 0
    BY <2>1 DEF Delivered
  <2> QED
    BY <2>2, <2>3, FS_EmptySet DEF ResultsInv, NotifiedOncePerTerminal
<1>13. CASE UNCHANGED vars
  BY <1>13, <1>u DEF vars, loopVars, history
<1> QED
  BY <1>1, <1>2, <1>3, <1>4, <1>5, <1>6, <1>7, <1>8, <1>9, <1>10, <1>11, <1>12,
     <1>13 DEF Next, LoopStep, PastHorizon

LEMMA ResultsInvariance == Spec => []ResultsInv
BY Invariance, InitResultsInv, NextResultsInv, PTL DEF Spec

\* The notifier is called once for every terminal result, in the order of the
\* results, and never for a skipped one (engine.py, _notify; notify.py).
THEOREM NotifiesOnce == Spec => []NotifiedOncePerTerminal
BY ResultsInvariance, PTL DEF ResultsInv

\* Every job due in the minute of a pass has its result by the time run_pending
\* has gone past it, whatever became of the jobs before it.
THEOREM NoDueJobUnreported == Spec => []EveryDueJobReported
<1>1. ResultsInv => EveryDueJobReported
  BY DEF ResultsInv, ReportInv, EveryDueJobReported
<1> QED
  BY <1>1, ResultsInvariance, PTL

=============================================================================
