------------------------------ MODULE DigestJob ------------------------------
(***************************************************************************)
(* One firing of a digest job: the executors of cli.py                     *)
(* (_run_ai_it_x_daily_digest, _run_invest_x_daily_digest) with            *)
(* run_claude_digest or run_invest_digest below them, on the docker or the *)
(* kubernetes launcher, under the scheduler's retries and deadline; and,   *)
(* beside it, the same digest started by hand (cmd_claude_digest,          *)
(* cmd_invest_digest), in a process of its own and without a deadline.     *)
(*                                                                         *)
(* Each attempt is a thread of its own with rows of its own.  An attempt   *)
(* the scheduler gave up on goes on; so does a container whose launcher    *)
(* stopped waiting.  Every write to SQLite is one step.                    *)
(***************************************************************************)
EXTENDS Integers, Sequences

CONSTANTS
  MaxAttempts,  \* backoff_limit + 1
  ByHand,       \* the attempts that are commands started by hand
  Target,       \* "git" (claude_digest) or "slack" (invest_digest)
  Backend,      \* RUNNER_BACKEND: "docker" or "kubernetes"
  Chunks,       \* how many chunks auth-proxy splits the digest into
  Days          \* bound: the dates 0..Days that may pass

ASSUME DigestAssumption ==
  /\ MaxAttempts \in Nat \ {0}
  /\ ByHand \cap (1..MaxAttempts) = {}
  /\ Target \in {"git", "slack"}
  /\ Backend \in {"docker", "kubernetes"}
  /\ Chunks \in Nat \ {0}
  /\ Days \in Nat

Scheduled == 1..MaxAttempts
Attempts  == Scheduled \cup ByHand

VARIABLES
  day,        \* now_jst().date()
  pc,         \* each attempt's place in the executor
  exitOK,     \* the launcher returned exit code 0
  published,  \* `verified' or `published'
  date,       \* `date': the day in the path of the digest
  session,    \* the attempt's row in sessions
  task,       \* the attempt's row in tasks
  doc,        \* the attempt's row in documents
  container,  \* the agent-runner container or Job
  notes,      \* the days whose digest is in the notes repository
  digest,     \* the day each attempt's digest.md was last written on
  server,     \* auth-proxy's handleNotify for the attempt's request
  slack,      \* the chunks of each attempt's digest in the channel, each with
              \* the day it was posted on
  current,    \* the attempt the scheduler waits for; 0 before the first
  gaveUp,     \* the attempts whose active_deadline_seconds passed
  verdict     \* the JobRunResult

threads  == <<pc, exitOK, published, date>>
rows     == <<session, task, doc>>
outside  == <<container, notes, digest, server, slack>>
engine   == <<current, gaveUp, verdict>>
vars     == <<day, threads, rows, outside, engine>>

\* Where an attempt can be; the last three are its ends.
Working == {"env", "workspace", "running", "task", "issue", "launch", "wait",
            "verify", "read", "notify", "record", "finish", "close"}
Ended   == {"returned", "raised", "killed"}
Doc     == [status : {"none", "published", "failed"}, day : 0..Days]
Posted  == [chunk : 1..Chunks, day : 0..Days]

\* _read_digest finds no file, or none it takes for a digest.
NoDigest == -1

TypeOK ==
  /\ day \in 0..Days
  /\ pc \in [Attempts -> Working \cup Ended \cup {"idle"}]
  /\ exitOK \in [Attempts -> BOOLEAN]
  /\ published \in [Attempts -> BOOLEAN]
  /\ date \in [Attempts -> 0..Days]
  /\ session \in [Attempts -> {"none", "created", "running", "stopped", "failed"}]
  /\ task \in [Attempts -> {"none", "queued", "succeeded", "failed"}]
  /\ doc \in [Attempts -> Doc]
  /\ container \in [Attempts -> {"none", "running", "succeeded", "failed"}]
  /\ notes \subseteq 0..Days
  /\ digest \in [Attempts -> {NoDigest} \cup 0..Days]
  /\ server \in [Attempts -> {"none", "posting", "ok", "error"}]
  /\ slack \in [Attempts -> Seq(Posted)]
  /\ current \in 0..MaxAttempts
  /\ gaveUp \subseteq Scheduled
  /\ verdict \in {"none", "succeeded", "failed", "killed"}

\* A digest of the day may be there already, from an earlier firing.
Init ==
  /\ day = 0
  /\ pc = [a \in Attempts |-> "idle"]
  /\ exitOK = [a \in Attempts |-> FALSE]
  /\ published = [a \in Attempts |-> FALSE]
  /\ date = [a \in Attempts |-> 0]
  /\ session = [a \in Attempts |-> "none"]
  /\ task = [a \in Attempts |-> "none"]
  /\ doc = [a \in Attempts |-> [status |-> "none", day |-> 0]]
  /\ container = [a \in Attempts |-> "none"]
  /\ notes \in SUBSET {0}
  /\ digest = [a \in Attempts |-> NoDigest]
  /\ server = [a \in Attempts |-> "none"]
  /\ slack = [a \in Attempts |-> <<>>]
  /\ current = 0
  /\ gaveUp = {}
  /\ verdict = "none"

-----------------------------------------------------------------------------
(* The scheduler (see SchedulerEngine), and the one who types the command. *)

Goes(a, from, to) == pc[a] = from /\ pc' = [pc EXCEPT ![a] = to]

\* The attempt waited for is over for the scheduler, without success.
Lost(a) == pc[a] = "raised" \/ a \in gaveUp

StartAttempt ==
  /\ verdict = "none"
  /\ current < MaxAttempts
  /\ current > 0 => Lost(current)
  /\ current' = current + 1
  /\ pc' = [pc EXCEPT ![current + 1] = "env"]
  /\ UNCHANGED <<day, exitOK, published, date, rows, outside, gaveUp, verdict>>

DeadlineExceeded ==
  /\ verdict = "none"
  /\ current > 0
  /\ pc[current] \in Working
  /\ current \notin gaveUp
  /\ gaveUp' = gaveUp \cup {current}
  /\ UNCHANGED <<day, threads, rows, outside, current, verdict>>

Report ==
  /\ verdict = "none"
  /\ current > 0
  /\ \/ /\ pc[current] = "returned"
        /\ current \notin gaveUp
        /\ verdict' = "succeeded"
     \/ /\ current = MaxAttempts
        /\ Lost(current)
        /\ verdict' = "failed"
  /\ UNCHANGED <<day, threads, rows, outside, current, gaveUp>>

\* A command started by hand, at any time.
StartByHand(a) ==
  /\ a \in ByHand
  /\ Goes(a, "idle", "env")
  /\ UNCHANGED <<day, exitOK, published, date, rows, outside, engine>>

\* It is interrupted.
Interrupted(a) ==
  /\ a \in ByHand
  /\ pc[a] \in Working
  /\ pc' = [pc EXCEPT ![a] = "killed"]
  /\ UNCHANGED <<day, exitOK, published, date, rows, outside, engine>>

\* The scheduler's process is killed, its threads with it.
Killed ==
  /\ verdict = "none"
  /\ current > 0
  /\ verdict' = "killed"
  /\ pc' = [a \in Attempts |->
              IF a \in Scheduled /\ pc[a] \in Working THEN "killed" ELSE pc[a]]
  /\ UNCHANGED <<day, exitOK, published, date, rows, outside, current, gaveUp>>

-----------------------------------------------------------------------------
(* The executor.                                                           *)

CreateSession(a) ==
  /\ Goes(a, "env", "workspace")
  /\ session' = [session EXCEPT ![a] = "created"]
  /\ UNCHANGED <<day, exitOK, published, date, task, doc, outside, engine>>

CreateWorkspace(a) ==
  /\ Goes(a, "workspace", "running")
  /\ UNCHANGED <<day, exitOK, published, date, rows, outside, engine>>

StartSession(a) ==
  /\ Goes(a, "running", "task")
  /\ session' = [session EXCEPT ![a] = "running"]
  /\ UNCHANGED <<day, exitOK, published, date, task, doc, outside, engine>>

CreateTask(a) ==
  /\ Goes(a, "task", "issue")
  /\ task' = [task EXCEPT ![a] = "queued"]
  /\ UNCHANGED <<day, exitOK, published, date, session, doc, outside, engine>>

\* issue_session answered; claude_digest fixes the date here, once.
IssueSession(a) ==
  /\ Goes(a, "issue", "launch")
  /\ date' = IF Target = "git" THEN [date EXCEPT ![a] = day] ELSE date
  /\ UNCHANGED <<day, exitOK, published, rows, outside, engine>>

Raises(a) == pc' = [pc EXCEPT ![a] = "raised"]

\* The exceptions no one below the scheduler catches: a missing environment
\* variable, no workspace, a refused session, no docker, a digest that is not
\* UTF-8, a write SQLite does not accept (locked beyond the busy timeout).
StepRaises(a) ==
  /\ pc[a] \in {"env", "workspace", "running", "task", "issue", "launch", "read",
                "record", "finish", "close"}
  /\ Raises(a)
  /\ UNCHANGED <<day, exitOK, published, date, rows, outside, engine>>

\* docker run, or the POST that creates the Job.
Launch(a) ==
  /\ Goes(a, "launch", "wait")
  /\ container' = [container EXCEPT ![a] = "running"]
  /\ UNCHANGED <<day, exitOK, published, date, rows, notes, digest, server, slack,
                 engine>>

\* Where run_claude_digest and run_invest_digest go on with an exit code.
AfterRun(ok) ==
  CASE Target = "slack"      -> "read"
    [] Target = "git" /\ ok  -> "verify"
    [] Target = "git" /\ ~ok -> "record"

\* The POST fails: with an HTTP error or no connection the launcher returns 1,
\* with no answer in time it raises.  The Job may have been created.
CreateJobFails(a) ==
  /\ Backend = "kubernetes"
  /\ pc[a] = "launch"
  /\ Raises(a) \/ Goes(a, "launch", AfterRun(FALSE))
  /\ container' \in {container, [container EXCEPT ![a] = "running"]}
  /\ UNCHANGED <<day, exitOK, published, date, rows, notes, digest, server, slack,
                 engine>>

\* The end of the container is seen: its exit code, or the Job's status.
WaitReturns(a) ==
  /\ container[a] \in {"succeeded", "failed"}
  /\ LET ok == container[a] = "succeeded"
     IN  /\ exitOK' = [exitOK EXCEPT ![a] = ok]
         /\ Goes(a, "wait", AfterRun(ok))
  /\ UNCHANGED <<day, published, date, rows, outside, engine>>

\* Mutant: docker run is waited for without a timeout.
WaitForEver(a) ==
  /\ pc[a] = "wait"
  /\ Backend = "kubernetes" /\ Goes(a, "wait", AfterRun(FALSE))
  /\ UNCHANGED <<day, exitOK, published, date, rows, outside, engine>>

\* subprocess.run's timeout raises; the poll loop's gives exit code 1, like a
\* failed GET, while a GET without an answer raises.  The container is not
\* stopped in any of the cases.
WaitGivesUp(a) ==
  /\ pc[a] = "wait"
  /\ \/ Raises(a)
     \/ Backend = "kubernetes" /\ Goes(a, "wait", AfterRun(FALSE))
  /\ UNCHANGED <<day, exitOK, published, date, rows, outside, engine>>

\* _verify_published: the file of the date is in a fresh clone, whoever pushed
\* it; a clone that fails counts as not verified, one that hangs raises.
VerifyPublished(a) ==
  /\ pc[a] = "verify"
  /\ \/ \E cloned \in BOOLEAN :
          /\ published' = [published EXCEPT ![a] = cloned /\ date[a] \in notes]
          /\ Goes(a, "verify", "record")
     \/ Raises(a) /\ UNCHANGED published
  /\ UNCHANGED <<day, exitOK, date, rows, outside, engine>>

\* run_invest_digest after the run: the date, _read_digest, PreToolUse, and the
\* request to auth-proxy if there is a digest and the policy allows to post.
ReadDigest(a) ==
  /\ pc[a] = "read"
  /\ date' = [date EXCEPT ![a] = day]
  /\ \/ /\ exitOK[a]
        /\ digest[a] # NoDigest
        /\ Goes(a, "read", "notify")
        /\ server' = [server EXCEPT ![a] = "posting"]
     \/ Goes(a, "read", "record") /\ UNCHANGED server
  /\ UNCHANGED <<day, exitOK, published, rows, container, notes, digest, slack,
                 engine>>

\* Mutant: a request that timed out is taken for one that was answered.
NotifiedAnyway(a) ==
  /\ Goes(a, "notify", "record")
  /\ published' = [published EXCEPT ![a] = server[a] # "error"]
  /\ UNCHANGED <<day, exitOK, date, rows, outside, engine>>

\* SlackNotifyClient.notify returns on a 200, and turns everything else into an
\* error: a 502, and its own timeout while auth-proxy is still posting.
Notified(a) ==
  /\ Goes(a, "notify", "record")
  /\ \/ server[a] = "ok" /\ published' = [published EXCEPT ![a] = TRUE]
     \/ UNCHANGED published
  /\ UNCHANGED <<day, exitOK, date, rows, outside, engine>>

\* Mutant: the date is read again instead of kept.
RecordToday(a) ==
  /\ Goes(a, "record", "finish")
  /\ doc' = [doc EXCEPT ![a] =
               [status |-> IF published[a] THEN "published" ELSE "failed", day |-> day]]
  /\ UNCHANGED <<day, exitOK, published, date, session, task, outside, engine>>

RecordDocument(a) ==
  /\ Goes(a, "record", "finish")
  /\ doc' = [doc EXCEPT ![a] =
               [status |-> IF published[a] THEN "published" ELSE "failed",
                day |-> date[a]]]
  /\ UNCHANGED <<day, exitOK, published, date, session, task, outside, engine>>

\* Mutant: the exit code of the run is returned as it is.
ExitCodeDecides(a) == exitOK[a]

\* ClaudeDigestResult.exit_code = 0, InvestDigestResult.exit_code = 0.
Succeeded(a) == exitOK[a] /\ published[a]

\* A digest that did not come out is an exception for the scheduler; the command
\* started by hand returns 1.
Outcome(a) == IF Succeeded(a) THEN "returned" ELSE "raised"

FinishTask(a) ==
  /\ Goes(a, "finish", "close")
  /\ task' = [task EXCEPT ![a] = IF Succeeded(a) THEN "succeeded" ELSE "failed"]
  /\ UNCHANGED <<day, exitOK, published, date, session, doc, outside, engine>>

\* Mutant: the executor returns whatever the exit code was.
CloseWithoutRaising(a) ==
  /\ Goes(a, "close", "returned")
  /\ session' = [session EXCEPT ![a] = IF Succeeded(a) THEN "stopped" ELSE "failed"]
  /\ UNCHANGED <<day, exitOK, published, date, task, doc, outside, engine>>

\* Mutant: a session is stopped whatever became of its task.
CloseStopped(a) ==
  /\ Goes(a, "close", IF Succeeded(a) THEN "returned" ELSE "raised")
  /\ session' = [session EXCEPT ![a] = "stopped"]
  /\ UNCHANGED <<day, exitOK, published, date, task, doc, outside, engine>>

CloseSession(a) ==
  /\ Goes(a, "close", Outcome(a))
  /\ session' = [session EXCEPT ![a] = IF Succeeded(a) THEN "stopped" ELSE "failed"]
  /\ UNCHANGED <<day, exitOK, published, date, task, doc, outside, engine>>

-----------------------------------------------------------------------------
(* The container, auth-proxy and the calendar.                             *)

\* Claude Code pushes the digest to the path in its prompt, or leaves it in
\* its workspace.
WriteDigest(a) ==
  /\ container[a] = "running"
  /\ IF Target = "git"
       THEN notes' = notes \cup {date[a]} /\ UNCHANGED digest
       ELSE digest' = [digest EXCEPT ![a] = day] /\ UNCHANGED notes
  /\ UNCHANGED <<day, threads, rows, container, server, slack, engine>>

\* It exits, or the Job's own activeDeadlineSeconds ends it.
ContainerEnds(a, outcome) ==
  /\ container[a] = "running"
  /\ container' = [container EXCEPT ![a] = outcome]
  /\ UNCHANGED <<day, threads, rows, notes, digest, server, slack, engine>>

Post(a) == [slack EXCEPT ![a] = Append(@, [chunk |-> Len(@) + 1, day |-> day])]

\* handleNotify's loop: one chunk at a time, the first error ends it.
PostChunk(a) ==
  /\ server[a] = "posting"
  /\ slack' = Post(a)
  /\ server' = [server EXCEPT ![a] =
                  IF Len(slack[a]) + 1 = Chunks THEN "ok" ELSE "posting"]
  /\ UNCHANGED <<day, threads, rows, container, notes, digest, engine>>

\* The chunk may have been posted all the same when only the answer is lost.
ChunkFails(a) ==
  /\ server[a] = "posting"
  /\ server' = [server EXCEPT ![a] = "error"]
  /\ slack' \in {slack, Post(a)}
  /\ UNCHANGED <<day, threads, rows, container, notes, digest, engine>>

Midnight ==
  /\ day < Days
  /\ day' = day + 1
  /\ UNCHANGED <<threads, rows, outside, engine>>

ExecutorStep(a) ==
  \/ CreateSession(a) \/ CreateWorkspace(a) \/ StartSession(a) \/ CreateTask(a)
  \/ IssueSession(a) \/ StepRaises(a)
  \/ Launch(a) \/ CreateJobFails(a) \/ WaitReturns(a) \/ WaitGivesUp(a)
  \/ VerifyPublished(a) \/ ReadDigest(a) \/ Notified(a)
  \/ RecordDocument(a) \/ FinishTask(a) \/ CloseSession(a)

OutsideStep(a) ==
  \/ WriteDigest(a)
  \/ \E outcome \in {"succeeded", "failed"} : ContainerEnds(a, outcome)
  \/ PostChunk(a) \/ ChunkFails(a)

\* Nothing is left to do for the job in this process.
Over ==
  /\ verdict # "none"
  /\ UNCHANGED vars

Next ==
  \/ StartAttempt \/ DeadlineExceeded \/ Report \/ Killed
  \/ \E a \in Attempts : ExecutorStep(a) \/ OutsideStep(a)
  \/ \E a \in ByHand : StartByHand(a) \/ Interrupted(a)
  \/ Midnight
  \/ Over

Spec == Init /\ [][Next]_vars

\* The threads run; every wait of theirs has a timeout, so they need nothing
\* of the container.
FairSpec ==
  /\ Spec
  /\ WF_vars(StartAttempt) /\ WF_vars(Report)
  /\ \A a \in Attempts : WF_vars(ExecutorStep(a))

-----------------------------------------------------------------------------
(* Properties.                                                             *)

\* Every chunk of a's digest was posted once and in order by a's own request.
AllPosted(a) ==
  Len(slack[a]) = Chunks /\ \A i \in 1..Chunks : slack[a][i].chunk = i

\* The content a documents row speaks of is out: the day's file is in the notes
\* repository; or every chunk of the digest is in the channel, and the row's day
\* is not before the digest was written and not after a chunk of it went out.
ContentOut(a) ==
  IF Target = "git"
    THEN doc[a].day \in notes
    ELSE /\ AllPosted(a)
         /\ digest[a] # NoDigest /\ digest[a] <= doc[a].day
         /\ \A i \in 1..Chunks : doc[a].day <= slack[a][i].day

\* documents.status = "published" is true of the outside world, however long
\* the attempt took, whichever day it began on and whoever gave up on it.
PublishedIsOut ==
  \A a \in Attempts : doc[a].status = "published" => ContentOut(a)

\* A task row says "succeeded" only with a container that exited well and a
\* published document behind it.
SucceededIsPublished ==
  \A a \in Attempts :
    task[a] = "succeeded" =>
      doc[a].status = "published" /\ container[a] = "succeeded"

\* What the scheduler reports as succeeded is what the rows say of the attempt
\* it waited for: never of a detached one that came through later.
SuccessMatchesRows ==
  verdict = "succeeded" =>
    /\ current \notin gaveUp
    /\ task[current] = "succeeded"
    /\ session[current] = "stopped"

\* The rows follow the lifecycle the tables promise.
Lifecycle == INSTANCE TaskLifecycle WITH Executions <- Attempts, Revisable <- {}

RowsFollowLifecycle == Lifecycle!Spec

\* The scheduler comes to a verdict although containers may run for ever.
VerdictReached == <>(verdict # "none")

\* Every attempt ends, the detached ones too.
AttemptsEnd == \A a \in Attempts : (pc[a] \in Working) ~> (pc[a] \in Ended)

-----------------------------------------------------------------------------
(* What detailed-design 21.7.3 says.                                       *)

\* When active_deadline_seconds is exceeded, the task row says so: it does not
\* stay "queued" when the attempt is over.
TimeoutRecorded ==
  \A a \in gaveUp : pc[a] \in {"returned", "raised"} => task[a] # "queued"

-----------------------------------------------------------------------------
(* The inductive invariant behind the properties.                          *)

BeforeRun    == {"idle", "env", "workspace", "running", "task", "issue", "launch"}
BeforeNotify == BeforeRun \cup {"wait", "verify", "read"}

\* The rows at each place of the executor.
RowsAt(a) ==
  /\ pc[a] \in {"idle", "env"} => session[a] = "none" /\ task[a] = "none"
  /\ pc[a] \in {"workspace", "running"} => session[a] = "created" /\ task[a] = "none"
  /\ pc[a] = "task" => session[a] = "running" /\ task[a] = "none"
  /\ pc[a] \in {"issue", "launch", "wait", "verify", "read", "notify", "record",
                "finish"} =>
       session[a] = "running" /\ task[a] = "queued"
  /\ pc[a] = "close" =>
       /\ session[a] = "running"
       /\ task[a] = IF Succeeded(a) THEN "succeeded" ELSE "failed"
  /\ pc[a] = "returned" => session[a] = "stopped" /\ task[a] = "succeeded"

\* The exit code stands for a container that ended, and a digest is taken for
\* published only once it is.
RunAt(a) ==
  /\ pc[a] \in BeforeRun => ~exitOK[a]
  /\ exitOK[a] => container[a] = "succeeded"
  /\ pc[a] = "verify" => Target = "git"
  /\ pc[a] \in {"read", "notify"} => Target = "slack"
  /\ pc[a] \in BeforeNotify \cup {"notify"} => ~published[a]
  /\ pc[a] \in BeforeNotify => server[a] = "none"
  /\ published[a] => IF Target = "git" THEN date[a] \in notes ELSE server[a] = "ok"

\* The documents row, before and after it is written.
DocumentAt(a) ==
  /\ pc[a] \in {"finish", "close"} /\ published[a] => doc[a].status = "published"
  /\ doc[a].status = "published" =>
       IF Target = "git" THEN doc[a].day \in notes
                         ELSE server[a] = "ok" /\ doc[a].day = date[a]
  /\ task[a] = "succeeded" => doc[a].status = "published" /\ exitOK[a]

\* handleNotify posts the chunks in order and stops at the first error; what it
\* posts was written by the date of the row and goes out from then on.
ChunksAt(a) ==
  /\ server[a] = "none" => slack[a] = <<>>
  /\ server[a] # "none" =>
       exitOK[a] /\ digest[a] # NoDigest /\ digest[a] <= date[a] /\ date[a] <= day
  /\ server[a] = "posting" => Len(slack[a]) < Chunks
  /\ server[a] = "ok" => Len(slack[a]) = Chunks
  /\ \A i \in 1..Len(slack[a]) : slack[a][i].chunk = i /\ date[a] <= slack[a][i].day
  /\ digest[a] <= day

\* The scheduler runs its attempts one after another and reports the one it
\* waited for.
AttemptsInTurn ==
  /\ \A a \in Scheduled : a > current => pc[a] = "idle"
  /\ verdict = "succeeded" =>
       current > 0 /\ current \notin gaveUp /\ pc[current] = "returned"

IInv ==
  /\ TypeOK
  /\ \A a \in Attempts : RowsAt(a) /\ RunAt(a) /\ DocumentAt(a) /\ ChunksAt(a)
  /\ AttemptsInTurn

=============================================================================
