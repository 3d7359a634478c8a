--------------------------- MODULE DigestJobProofs ---------------------------
(***************************************************************************)
(* Proofs about the digest jobs, on both backends and for both targets:    *)
(* any number of scheduled attempts and of commands started by hand, any   *)
(* number of chunks and of days.  The invariant speaks of one attempt at a *)
(* time; a step of one attempt leaves the others' clauses as they were.    *)
(***************************************************************************)
EXTENDS DigestJob, TLAPS

USE DigestAssumption

AttemptOK(a) == RowsAt(a) /\ RunAt(a) /\ DocumentAt(a) /\ ChunksAt(a)

\* Only a's own state changes; days pass and the notes repository gains files.
OnlyOf(a) ==
  /\ \A b \in Attempts : b # a =>
       /\ pc'[b] = pc[b] /\ exitOK'[b] = exitOK[b] /\ published'[b] = published[b]
       /\ date'[b] = date[b] /\ session'[b] = session[b] /\ task'[b] = task[b]
       /\ doc'[b] = doc[b] /\ container'[b] = container[b]
       /\ digest'[b] = digest[b] /\ server'[b] = server[b] /\ slack'[b] = slack[b]
  /\ notes \subseteq notes'
  /\ day' \in 0..Days /\ day <= day'

LEMMA OthersStay ==
  ASSUME TypeOK, NEW b \in Attempts, AttemptOK(b), notes \subseteq notes',
         day' \in 0..Days, day <= day',
         pc'[b] = pc[b], exitOK'[b] = exitOK[b], published'[b] = published[b],
         date'[b] = date[b], session'[b] = session[b], task'[b] = task[b],
         doc'[b] = doc[b], container'[b] = container[b], server'[b] = server[b],
         digest'[b] = digest[b], slack'[b] = slack[b]
  PROVE  AttemptOK(b)'
<1>1. RowsAt(b)'
  BY DEF AttemptOK, RowsAt, Succeeded
<1>2. RunAt(b)'
  BY DEF AttemptOK, RunAt
<1>3. DocumentAt(b)'
  BY DEF AttemptOK, DocumentAt
<1>4. ChunksAt(b)'
  <2>1. date[b] \in Int /\ digest[b] \in Int /\ day \in Int /\ day' \in Int
    BY DEF TypeOK, NoDigest
  <2>2. (date[b] <= day => date[b] <= day') /\ (digest[b] <= day => digest[b] <= day')
    BY <2>1
  <2> QED
    BY <2>2 DEF AttemptOK, ChunksAt
<1> QED
  BY <1>1, <1>2, <1>3, <1>4 DEF AttemptOK

\* One attempt's step, given what it does to its own state.
LEMMA OneAttempt ==
  ASSUME IInv, NEW a \in Attempts, TypeOK', OnlyOf(a), AttemptOK(a)', AttemptsInTurn'
  PROVE  IInv'
<1>1. \A b \in Attempts : AttemptOK(b)
  BY DEF IInv, AttemptOK
<1>2. \A b \in Attempts : AttemptOK(b)'
  BY <1>1, OthersStay DEF OnlyOf, IInv
<1> QED
  BY <1>2 DEF IInv, AttemptOK

\* An attempt at work is one the scheduler has started and not reported.
LEMMA WorkingStaysInTurn ==
  ASSUME IInv, NEW a \in Attempts, UNCHANGED engine, OnlyOf(a),
         pc[a] \in Working \/ pc'[a] = pc[a]
  PROVE  AttemptsInTurn'
<1>1. \A b \in Scheduled : b \in Attempts
  BY DEF Attempts
<1>2. pc[a] \in Working => pc[a] # "idle" /\ pc[a] # "returned"
  BY DEF Working
<1>3. verdict = "succeeded" => current \in Attempts
  BY DEF IInv, AttemptsInTurn, TypeOK, Scheduled, Attempts
<1> QED
  BY <1>1, <1>2, <1>3 DEF IInv, AttemptsInTurn, OnlyOf, engine

LEMMA InitIInv == Init => IInv
<1> SUFFICES ASSUME Init PROVE IInv
  OBVIOUS
<1> USE DEF Init
<1>1. 0 \in 0..Days /\ 0 \in 0..MaxAttempts
  OBVIOUS
<1>2. TypeOK
  <2>1. doc \in [Attempts -> Doc]
    BY <1>1 DEF Doc
  <2>2. slack \in [Attempts -> Seq(Posted)]
    OBVIOUS
  <2>3. notes \subseteq 0..Days
    BY <1>1
  <2> QED
    BY <1>1, <2>1, <2>2, <2>3 DEF TypeOK
<1>3. \A a \in Attempts : RowsAt(a) /\ RunAt(a) /\ DocumentAt(a) /\ ChunksAt(a)
  <2>1. \A a \in Attempts : RowsAt(a) /\ RunAt(a) /\ DocumentAt(a)
    BY DEF RowsAt, RunAt, DocumentAt
  <2>2. \A a \in Attempts : ChunksAt(a)
    BY DEF ChunksAt, NoDigest
  <2> QED
    BY <2>1, <2>2
<1>4. AttemptsInTurn
  BY DEF AttemptsInTurn, Scheduled, Attempts
<1> QED
  BY <1>2, <1>3, <1>4 DEF IInv

-----------------------------------------------------------------------------
(* The executor.                                                           *)

\* The steps before the run, and the exceptions: rows and place only.
LEMMA RowStepKeeps ==
  ASSUME IInv, NEW a \in Attempts,
         \/ CreateSession(a) \/ CreateWorkspace(a) \/ StartSession(a) \/ CreateTask(a)
         \/ StepRaises(a) \/ FinishTask(a) \/ CloseSession(a)
  PROVE  IInv'
<1> USE DEF Goes, Raises
<1>1. /\ UNCHANGED <<day, exitOK, published, date, doc, outside, engine>>
      /\ pc[a] \in Working
  BY DEF CreateSession, CreateWorkspace, StartSession, CreateTask, StepRaises, FinishTask,
         CloseSession, rows, Working
<1>2. PICK to \in Working \cup Ended : pc' = [pc EXCEPT ![a] = to]
  BY DEF CreateSession, CreateWorkspace, StartSession, CreateTask, StepRaises, FinishTask,
         CloseSession, Outcome, Working, Ended
<1>3. \E v \in {"created", "running", "stopped", "failed"} :
        session' \in {session, [session EXCEPT ![a] = v]}
  BY DEF CreateSession, CreateWorkspace, StartSession, CreateTask, StepRaises, FinishTask,
         CloseSession, rows
<1>4. \E v \in {"queued", "succeeded", "failed"} : task' \in {task, [task EXCEPT ![a] = v]}
  BY DEF CreateSession, CreateWorkspace, StartSession, CreateTask, StepRaises, FinishTask,
         CloseSession, rows
<1>5. TypeOK'
  <2>1. pc' \in [Attempts -> Working \cup Ended \cup {"idle"}]
    BY <1>2 DEF IInv, TypeOK
  <2>2. session' \in [Attempts -> {"none", "created", "running", "stopped", "failed"}]
    BY <1>3 DEF IInv, TypeOK
  <2>3. task' \in [Attempts -> {"none", "queued", "succeeded", "failed"}]
    BY <1>4 DEF IInv, TypeOK
  <2> QED
    BY <1>1, <2>1, <2>2, <2>3 DEF IInv, TypeOK, outside, engine
<1>6. OnlyOf(a)
  BY <1>1, <1>2, <1>3, <1>4 DEF IInv, TypeOK, outside, OnlyOf
<1>7. AttemptsInTurn'
  BY <1>1, <1>6, WorkingStaysInTurn
<1>8. RowsAt(a) /\ RunAt(a) /\ DocumentAt(a) /\ ChunksAt(a)
  BY DEF IInv
<1>9. pc'[a] = to
  BY <1>2 DEF IInv, TypeOK
<1>10. RowsAt(a)'
  BY <1>1, <1>8
  DEF IInv, TypeOK, RowsAt, Succeeded, Outcome, CreateSession, CreateWorkspace,
      StartSession, CreateTask, StepRaises, FinishTask, CloseSession, rows
<1>11. pc'[a] \in {"workspace", "running", "task", "issue", "raised", "close", "returned"}
  BY DEF IInv, TypeOK, Outcome, CreateSession, CreateWorkspace,
      StartSession, CreateTask, StepRaises, FinishTask, CloseSession
<1>12. pc'[a] \in {"workspace", "running", "task", "issue"} => pc[a] \in BeforeRun
  BY DEF IInv, TypeOK, Outcome, CreateSession, CreateWorkspace, BeforeRun,
      StartSession, CreateTask, StepRaises, FinishTask, CloseSession
<1>13. RunAt(a)'
  BY <1>1, <1>8, <1>11, <1>12 DEF RunAt, outside, BeforeRun, BeforeNotify
<1>14. ChunksAt(a)'
  BY <1>1, <1>8 DEF ChunksAt, outside
<1>15. DocumentAt(a)'
  <2>1. pc'[a] = "close" => pc[a] = "finish"
    BY DEF IInv, TypeOK, Outcome, CreateSession, CreateWorkspace,
        StartSession, CreateTask, StepRaises, FinishTask, CloseSession
  <2>2. task'[a] = "succeeded" =>
          task[a] = "succeeded" \/ (pc[a] = "finish" /\ exitOK[a] /\ published[a])
    BY DEF IInv, TypeOK, Succeeded, CreateSession, CreateWorkspace, rows,
        StartSession, CreateTask, StepRaises, FinishTask, CloseSession
  <2> QED
    BY <1>1, <1>8, <1>11, <2>1, <2>2 DEF DocumentAt, outside
<1> QED
  BY <1>5, <1>6, <1>7, <1>10, <1>13, <1>14, <1>15, OneAttempt DEF AttemptOK

LEMMA IssueSessionKeeps ==
  ASSUME IInv, NEW a \in Attempts, IssueSession(a) PROVE IInv'
<1>1. /\ UNCHANGED <<day, exitOK, published, rows, outside, engine>>
      /\ pc[a] = "issue" /\ pc' = [pc EXCEPT ![a] = "launch"] /\ pc[a] \in Working
      /\ date' \in {date, [date EXCEPT ![a] = day]}
  BY DEF IssueSession, Goes, Working
<1>2. TypeOK'
  BY <1>1 DEF IInv, TypeOK, rows, outside, engine, Working
<1>3. OnlyOf(a)
  BY <1>1 DEF IInv, TypeOK, OnlyOf, rows, outside
<1>4. AttemptsInTurn'
  BY <1>1, <1>3, WorkingStaysInTurn
<1>5. RowsAt(a) /\ RunAt(a) /\ DocumentAt(a) /\ ChunksAt(a) /\ pc'[a] = "launch"
  BY <1>1 DEF IInv, TypeOK
<1>6. RowsAt(a)'
  BY <1>1, <1>5 DEF RowsAt, rows
<1>7. RunAt(a)'
  BY <1>1, <1>5 DEF RunAt, outside, BeforeRun, BeforeNotify
<1>8. DocumentAt(a)' /\ ChunksAt(a)'
  <2>1. server[a] = "none" /\ slack[a] = <<>>
    BY <1>1, <1>5 DEF RunAt, ChunksAt, BeforeRun, BeforeNotify
  <2>2. ChunksAt(a)'
    BY <1>1, <1>5, <2>1 DEF ChunksAt, outside
  <2> QED
    BY <1>1, <1>5, <2>1, <2>2 DEF DocumentAt, rows, outside
<1> QED
  BY <1>2, <1>3, <1>4, <1>6, <1>7, <1>8, OneAttempt DEF AttemptOK

\* Launching and waiting; the attempt goes on with an exit code or is over.
LEMMA RunKeeps ==
  ASSUME IInv, NEW a \in Attempts,
         Launch(a) \/ CreateJobFails(a) \/ WaitReturns(a) \/ WaitGivesUp(a)
  PROVE  IInv'
<1> USE DEF Goes, Raises
<1>1. /\ UNCHANGED <<day, published, date, rows, notes, digest, server, slack, engine>>
      /\ pc[a] \in {"launch", "wait"} /\ pc[a] \in Working
  BY DEF Launch, CreateJobFails, WaitReturns, WaitGivesUp, outside, Working
<1>2. \A ok \in BOOLEAN :
        /\ AfterRun(ok) \in {"verify", "read", "record"}
        /\ AfterRun(ok) = "verify" => Target = "git"
        /\ AfterRun(ok) = "read" => Target = "slack"
  BY DEF AfterRun
<1>3. PICK to \in {"wait", "verify", "read", "record", "raised"} :
        /\ pc' = [pc EXCEPT ![a] = to]
        /\ to = "verify" => Target = "git"
        /\ to = "read" => Target = "slack"
  BY <1>2 DEF Launch, CreateJobFails, WaitReturns, WaitGivesUp
<1>4. /\ exitOK' \in [Attempts -> BOOLEAN]
      /\ \A b \in Attempts : b # a => exitOK'[b] = exitOK[b]
      /\ exitOK'[a] => exitOK[a] \/ container[a] = "succeeded"
  BY DEF IInv, TypeOK, Launch, CreateJobFails, WaitReturns, WaitGivesUp
<1>5. /\ container' \in [Attempts -> {"none", "running", "succeeded", "failed"}]
      /\ \A b \in Attempts : b # a => container'[b] = container[b]
      /\ container'[a] = container[a] \/ (pc[a] = "launch" /\ exitOK'[a] = exitOK[a])
  BY DEF IInv, TypeOK, Launch, CreateJobFails, WaitReturns, WaitGivesUp, outside
<1>6. pc' \in [Attempts -> Working \cup Ended \cup {"idle"}] /\ pc'[a] = to
  BY <1>3 DEF IInv, TypeOK, Working, Ended
<1>7. TypeOK'
  BY <1>1, <1>4, <1>5, <1>6 DEF IInv, TypeOK, rows, engine
<1>8. OnlyOf(a)
  BY <1>1, <1>3, <1>4, <1>5 DEF IInv, TypeOK, OnlyOf, rows
<1>9. AttemptsInTurn'
  BY <1>1, <1>8, WorkingStaysInTurn
<1>10. RowsAt(a) /\ RunAt(a) /\ DocumentAt(a) /\ ChunksAt(a)
  BY DEF IInv
<1>11. RowsAt(a)'
  BY <1>1, <1>6, <1>10 DEF RowsAt, rows
<1>12. exitOK'[a] => container'[a] = "succeeded"
  <2>1. pc[a] = "launch" => ~exitOK[a]
    BY <1>10 DEF RunAt, BeforeRun
  <2> QED
    BY <1>4, <1>5, <1>10, <2>1 DEF RunAt
<1>13. RunAt(a)'
  BY <1>1, <1>3, <1>6, <1>10, <1>12 DEF RunAt, BeforeRun, BeforeNotify
<1>14. DocumentAt(a)' /\ ChunksAt(a)'
  <2>1. task[a] = "queued"
    BY <1>1, <1>10 DEF RowsAt
  <2>2. server[a] = "none"
    BY <1>1, <1>10 DEF RunAt, BeforeRun, BeforeNotify
  <2>3. ChunksAt(a)'
    BY <1>1, <1>10, <2>2 DEF ChunksAt
  <2> QED
    BY <1>1, <1>6, <1>10, <2>1, <2>3 DEF DocumentAt, rows
<1> QED
  BY <1>7, <1>8, <1>9, <1>11, <1>13, <1>14, OneAttempt DEF AttemptOK

\* The digest is found in the notes repository, or auth-proxy has answered: the
\* two ways an attempt comes to take its digest for published.
LEMMA PublishKeeps ==
  ASSUME IInv, NEW a \in Attempts, VerifyPublished(a) \/ Notified(a) PROVE IInv'
<1> USE DEF Goes, Raises
<1>1. /\ UNCHANGED <<day, exitOK, date, rows, outside, engine>>
      /\ pc[a] \in {"verify", "notify"} /\ pc[a] \in Working
  BY DEF VerifyPublished, Notified, Working
<1>2. PICK to \in {"record", "raised"} : pc' = [pc EXCEPT ![a] = to]
  BY DEF VerifyPublished, Notified
<1>3. RowsAt(a) /\ RunAt(a) /\ DocumentAt(a) /\ ChunksAt(a)
  BY DEF IInv
<1>4. /\ published' \in [Attempts -> BOOLEAN]
      /\ \A b \in Attempts : b # a => published'[b] = published[b]
      /\ published'[a] =>
           \/ published[a]
           \/ pc[a] = "verify" /\ date[a] \in notes
           \/ pc[a] = "notify" /\ server[a] = "ok"
  BY DEF IInv, TypeOK, VerifyPublished, Notified
<1>5. pc' \in [Attempts -> Working \cup Ended \cup {"idle"}] /\ pc'[a] = to
  BY <1>2 DEF IInv, TypeOK, Working, Ended
<1>6. TypeOK'
  BY <1>1, <1>4, <1>5 DEF IInv, TypeOK, rows, outside, engine
<1>7. OnlyOf(a)
  BY <1>1, <1>2, <1>4 DEF IInv, TypeOK, OnlyOf, rows, outside
<1>8. AttemptsInTurn'
  BY <1>1, <1>7, WorkingStaysInTurn
<1>9. RowsAt(a)'
  BY <1>1, <1>3, <1>5 DEF RowsAt, rows
<1>10. published'[a] => IF Target = "git" THEN date[a] \in notes ELSE server[a] = "ok"
  BY <1>3, <1>4 DEF RunAt
<1>11. RunAt(a)'
  BY <1>1, <1>3, <1>5, <1>10 DEF RunAt, BeforeRun, BeforeNotify, outside
<1>12. DocumentAt(a)' /\ ChunksAt(a)'
  BY <1>1, <1>3, <1>5 DEF DocumentAt, ChunksAt, rows, outside
<1> QED
  BY <1>6, <1>7, <1>8, <1>9, <1>11, <1>12, OneAttempt DEF AttemptOK

LEMMA ReadDigestKeeps ==
  ASSUME IInv, NEW a \in Attempts, ReadDigest(a) PROVE IInv'
<1>1. /\ UNCHANGED <<day, exitOK, published, rows, container, notes, digest, slack, engine>>
      /\ date' = [date EXCEPT ![a] = day]
      /\ pc[a] = "read" /\ pc[a] \in Working
      /\ \/ /\ pc' = [pc EXCEPT ![a] = "notify"]
            /\ server' = [server EXCEPT ![a] = "posting"]
            /\ exitOK[a] /\ digest[a] # NoDigest
         \/ pc' = [pc EXCEPT ![a] = "record"] /\ UNCHANGED server
  BY DEF ReadDigest, Goes, Working
<1>2. RowsAt(a) /\ RunAt(a) /\ DocumentAt(a) /\ ChunksAt(a)
  BY DEF IInv
<1>3. /\ pc' \in [Attempts -> Working \cup Ended \cup {"idle"}]
      /\ server' \in [Attempts -> {"none", "posting", "ok", "error"}]
      /\ date' \in [Attempts -> 0..Days]
      /\ pc'[a] \in {"notify", "record"}
      /\ server[a] = "none" /\ server'[a] \in {"none", "posting"}
      /\ ~published[a] /\ Target = "slack"
  <2>1. /\ pc \in [Attempts -> Working \cup Ended \cup {"idle"}]
        /\ server \in [Attempts -> {"none", "posting", "ok", "error"}]
        /\ date \in [Attempts -> 0..Days] /\ day \in 0..Days
    BY DEF IInv, TypeOK
  <2>2. server[a] = "none" /\ ~published[a] /\ Target = "slack"
    BY <1>1, <1>2 DEF RunAt, BeforeNotify
  <2>3. "notify" \in Working /\ "record" \in Working
    BY DEF Working
  <2>4. date' \in [Attempts -> 0..Days]
    BY <1>1, <2>1
  <2>5. pc' \in [Attempts -> Working \cup Ended \cup {"idle"}] /\ pc'[a] \in {"notify", "record"}
    BY <1>1, <2>1, <2>3
  <2>6. /\ server' \in [Attempts -> {"none", "posting", "ok", "error"}]
        /\ server'[a] \in {"none", "posting"}
    BY <1>1, <2>1, <2>2
  <2> QED
    BY <2>2, <2>4, <2>5, <2>6
<1>4. TypeOK'
  BY <1>1, <1>3 DEF IInv, TypeOK, rows, engine
<1>5. OnlyOf(a)
  BY <1>1 DEF IInv, TypeOK, OnlyOf, rows
<1>6. AttemptsInTurn'
  BY <1>1, <1>5, WorkingStaysInTurn
<1>7. RowsAt(a)'
  BY <1>1, <1>2, <1>3 DEF RowsAt, rows
<1>8. RunAt(a)'
  BY <1>1, <1>2, <1>3 DEF RunAt, BeforeRun, BeforeNotify
<1>9. DocumentAt(a)'
  BY <1>1, <1>2, <1>3 DEF DocumentAt, rows
<1>10. ChunksAt(a)'
  <2>1. slack'[a] = <<>> /\ Len(slack'[a]) = 0
    BY <1>1, <1>2, <1>3 DEF ChunksAt
  <2>2. date'[a] = day /\ day' = day /\ day \in Int /\ digest'[a] <= day
    BY <1>1, <1>2 DEF IInv, TypeOK, ChunksAt
  <2>3. server'[a] # "none" => exitOK'[a] /\ digest'[a] # NoDigest
    BY <1>1, <1>3
  <2> QED
    BY <1>3, <2>1, <2>2, <2>3 DEF ChunksAt
<1> QED
  BY <1>4, <1>5, <1>6, <1>7, <1>8, <1>9, <1>10, OneAttempt DEF AttemptOK

LEMMA RecordDocumentKeeps ==
  ASSUME IInv, NEW a \in Attempts, RecordDocument(a) PROVE IInv'
<1> DEFINE d == [status |-> IF published[a] THEN "published" ELSE "failed", day |-> date[a]]
<1>1. /\ UNCHANGED <<day, exitOK, published, date, session, task, outside, engine>>
      /\ pc[a] = "record" /\ pc' = [pc EXCEPT ![a] = "finish"] /\ pc[a] \in Working
      /\ doc' = [doc EXCEPT ![a] = d]
  BY DEF RecordDocument, Goes, Working
<1>2. RowsAt(a) /\ RunAt(a) /\ DocumentAt(a) /\ ChunksAt(a)
  BY DEF IInv
<1>3. /\ d \in Doc /\ d.day = date[a]
      /\ d.status = "published" <=> published[a]
  BY DEF IInv, TypeOK, Doc
<1> HIDE DEF d
<1>4. /\ pc' \in [Attempts -> Working \cup Ended \cup {"idle"}] /\ pc'[a] = "finish"
      /\ doc' \in [Attempts -> Doc] /\ doc'[a] = d
  BY <1>1, <1>3 DEF IInv, TypeOK, Working
<1>5. TypeOK'
  BY <1>1, <1>4 DEF IInv, TypeOK, outside, engine
<1>6. OnlyOf(a)
  BY <1>1 DEF IInv, TypeOK, OnlyOf, outside
<1>7. AttemptsInTurn'
  BY <1>1, <1>6, WorkingStaysInTurn
<1>8. RowsAt(a)'
  BY <1>1, <1>2, <1>4 DEF RowsAt
<1>9. RunAt(a)'
  BY <1>1, <1>2, <1>4 DEF RunAt, BeforeRun, BeforeNotify, outside
<1>10. ChunksAt(a)'
  BY <1>1, <1>2 DEF ChunksAt, outside
<1>11. DocumentAt(a)'
  <2>1. task[a] = "queued"
    BY <1>1, <1>2 DEF RowsAt
  <2> QED
    BY <1>1, <1>2, <1>3, <1>4, <2>1 DEF DocumentAt, RunAt, outside
<1> QED
  BY <1>5, <1>6, <1>7, <1>8, <1>9, <1>10, <1>11, OneAttempt DEF AttemptOK

LEMMA ExecutorKeeps == ASSUME IInv, NEW a \in Attempts, ExecutorStep(a) PROVE IInv'
BY RowStepKeeps, IssueSessionKeeps, RunKeeps, PublishKeeps, ReadDigestKeeps,
   RecordDocumentKeeps DEF ExecutorStep

-----------------------------------------------------------------------------
(* The container, auth-proxy and the calendar.                             *)

LEMMA WriteDigestKeeps ==
  ASSUME IInv, NEW a \in Attempts, WriteDigest(a) PROVE IInv'
<1>1. /\ UNCHANGED <<day, threads, rows, container, server, slack, engine>>
      /\ notes' \in {notes, notes \cup {date[a]}}
      /\ digest' \in {digest, [digest EXCEPT ![a] = day]}
      /\ container[a] = "running"
  BY DEF WriteDigest
<1>2. TypeOK'
  <2>1. /\ digest \in [Attempts -> {NoDigest} \cup 0..Days]
        /\ notes \subseteq 0..Days /\ date[a] \in 0..Days /\ day \in 0..Days
    BY DEF IInv, TypeOK
  <2>2. digest' \in [Attempts -> {NoDigest} \cup 0..Days]
    BY <1>1, <2>1
  <2>3. notes' \subseteq 0..Days
    BY <1>1, <2>1
  <2> QED
    BY <1>1, <2>2, <2>3 DEF IInv, TypeOK, threads, rows, engine
<1>3. OnlyOf(a)
  BY <1>1 DEF IInv, TypeOK, OnlyOf, threads, rows
<1>4. AttemptsInTurn'
  BY <1>1, <1>3, WorkingStaysInTurn DEF threads
<1>5. RowsAt(a) /\ RunAt(a) /\ DocumentAt(a) /\ ChunksAt(a)
  BY DEF IInv
<1>6. RowsAt(a)' /\ RunAt(a)' /\ DocumentAt(a)'
  BY <1>1, <1>5 DEF RowsAt, RunAt, DocumentAt, Succeeded, threads, rows
<1>7. ChunksAt(a)'
  <2>1. server[a] = "none"
    BY <1>1, <1>5 DEF RunAt, ChunksAt
  <2>2. digest'[a] <= day /\ day' = day
    BY <1>1, <1>5 DEF IInv, TypeOK, ChunksAt
  <2> QED
    BY <1>1, <1>5, <2>1, <2>2 DEF ChunksAt, threads
<1> QED
  BY <1>2, <1>3, <1>4, <1>6, <1>7, OneAttempt DEF AttemptOK

LEMMA ContainerEndsKeeps ==
  ASSUME IInv, NEW a \in Attempts, NEW outcome \in {"succeeded", "failed"},
         ContainerEnds(a, outcome)
  PROVE  IInv'
<1>1. /\ UNCHANGED <<day, threads, rows, notes, digest, server, slack, engine>>
      /\ container[a] = "running"
      /\ container' = [container EXCEPT ![a] = outcome]
  BY DEF ContainerEnds
<1>2. TypeOK'
  BY <1>1 DEF IInv, TypeOK, threads, rows, engine
<1>3. OnlyOf(a)
  BY <1>1 DEF IInv, TypeOK, OnlyOf, threads, rows
<1>4. AttemptsInTurn'
  BY <1>1, <1>3, WorkingStaysInTurn DEF threads
<1>5. RowsAt(a) /\ RunAt(a) /\ DocumentAt(a) /\ ChunksAt(a)
  BY DEF IInv
<1>6. RunAt(a)'
  BY <1>1, <1>5 DEF RunAt, threads
<1>7. RowsAt(a)' /\ DocumentAt(a)' /\ ChunksAt(a)'
  BY <1>1, <1>5 DEF RowsAt, DocumentAt, ChunksAt, Succeeded, threads, rows
<1> QED
  BY <1>2, <1>3, <1>4, <1>6, <1>7, OneAttempt DEF AttemptOK

\* One more chunk of a digest that is posted in order from the day d on.
LEMMA OneMore ==
  ASSUME NEW s \in Seq(Posted), NEW d \in Int, NEW c \in Posted,
         Len(s) < Chunks, c.chunk = Len(s) + 1, d <= c.day,
         \A i \in 1..Len(s) : s[i].chunk = i /\ d <= s[i].day
  PROVE  /\ Append(s, c) \in Seq(Posted)
         /\ Len(Append(s, c)) = Len(s) + 1
         /\ \A i \in 1..(Len(s) + 1) : Append(s, c)[i].chunk = i /\ d <= Append(s, c)[i].day
<1>1. Append(s, c) \in Seq(Posted) /\ Len(Append(s, c)) = Len(s) + 1
  OBVIOUS
<1>2. \A i \in 1..Len(s) : Append(s, c)[i] = s[i]
  OBVIOUS
<1>3. Append(s, c)[Len(s) + 1] = c
  OBVIOUS
<1>4. \A i \in 1..(Len(s) + 1) : i \in 1..Len(s) \/ i = Len(s) + 1
  OBVIOUS
<1> QED
  BY <1>1, <1>2, <1>3, <1>4

LEMMA NotifyKeeps ==
  ASSUME IInv, NEW a \in Attempts, PostChunk(a) \/ ChunkFails(a) PROVE IInv'
<1> DEFINE c == [chunk |-> Len(slack[a]) + 1, day |-> day]
           s == Append(slack[a], c)
<1>1. /\ UNCHANGED <<day, threads, rows, container, notes, digest, engine>>
      /\ server[a] = "posting"
      /\ slack' \in {slack, [slack EXCEPT ![a] = s]}
  BY DEF PostChunk, ChunkFails, Post
<1>2. PICK v \in {"ok", "posting", "error"} :
        /\ server' = [server EXCEPT ![a] = v]
        /\ v # "error" => slack' = [slack EXCEPT ![a] = s]
        /\ v = "ok" => Len(slack[a]) + 1 = Chunks
        /\ v = "posting" => Len(slack[a]) + 1 # Chunks
  BY DEF PostChunk, ChunkFails, Post
<1>3. RowsAt(a) /\ RunAt(a) /\ DocumentAt(a) /\ ChunksAt(a)
  BY DEF IInv
<1>4. /\ slack \in [Attempts -> Seq(Posted)] /\ slack[a] \in Seq(Posted)
      /\ server \in [Attempts -> {"none", "posting", "ok", "error"}]
      /\ day \in 0..Days /\ date[a] \in 0..Days
  BY DEF IInv, TypeOK
<1>5. /\ Len(slack[a]) \in Nat /\ Len(slack[a]) < Chunks /\ date[a] <= day
      /\ \A i \in 1..Len(slack[a]) : slack[a][i].chunk = i /\ date[a] <= slack[a][i].day
  BY <1>1, <1>3, <1>4 DEF ChunksAt
<1>6. c \in Posted /\ c.chunk = Len(slack[a]) + 1 /\ c.day = day
  BY <1>4, <1>5 DEF Posted
<1> HIDE DEF c
<1>7. /\ s \in Seq(Posted) /\ Len(s) = Len(slack[a]) + 1
      /\ \A i \in 1..(Len(slack[a]) + 1) : s[i].chunk = i /\ date[a] <= s[i].day
  BY <1>4, <1>5, <1>6, OneMore
<1> HIDE DEF s
<1>8. /\ server' \in [Attempts -> {"none", "posting", "ok", "error"}] /\ server'[a] = v
      /\ slack' \in [Attempts -> Seq(Posted)] /\ slack'[a] \in {slack[a], s}
      /\ v # "error" => slack'[a] = s
  BY <1>1, <1>2, <1>4, <1>7
<1>9. TypeOK'
  BY <1>1, <1>8 DEF IInv, TypeOK, threads, rows, engine
<1>10. OnlyOf(a)
  BY <1>1, <1>2, <1>4 DEF IInv, TypeOK, OnlyOf, threads, rows
<1>11. AttemptsInTurn'
  BY <1>1, <1>10, WorkingStaysInTurn DEF threads
<1>12. RowsAt(a)'
  BY <1>1, <1>3 DEF RowsAt, Succeeded, threads, rows
<1>13. RunAt(a)'
  BY <1>1, <1>3, <1>8 DEF RunAt, threads
<1>14. DocumentAt(a)'
  BY <1>1, <1>3 DEF DocumentAt, threads, rows
<1>15. ChunksAt(a)'
  <2>1. \A i \in 1..Len(slack'[a]) : slack'[a][i].chunk = i /\ date[a] <= slack'[a][i].day
    BY <1>5, <1>7, <1>8
  <2>2. (v = "posting" => Len(slack'[a]) < Chunks) /\ (v = "ok" => Len(slack'[a]) = Chunks)
    BY <1>2, <1>5, <1>7, <1>8
  <2> QED
    BY <1>1, <1>3, <1>8, <2>1, <2>2 DEF ChunksAt, threads
<1> QED
  BY <1>9, <1>10, <1>11, <1>12, <1>13, <1>14, <1>15, OneAttempt DEF AttemptOK

-----------------------------------------------------------------------------
(* The scheduler, the commands started by hand and the calendar.           *)

\* An attempt is begun, or a command is interrupted.
LEMMA BeginOrEndKeeps ==
  ASSUME IInv, NEW a \in Attempts, NEW to \in {"env", "killed"},
         to = "env" => pc[a] = "idle",
         pc' = [pc EXCEPT ![a] = to],
         UNCHANGED <<day, exitOK, published, date, rows, outside>>,
         current' \in 0..MaxAttempts, UNCHANGED <<gaveUp, verdict>>, AttemptsInTurn'
  PROVE  IInv'
<1>1. pc' \in [Attempts -> Working \cup Ended \cup {"idle"}] /\ pc'[a] = to
  BY DEF IInv, TypeOK, Working, Ended
<1>2. TypeOK'
  BY <1>1 DEF IInv, TypeOK, rows, outside
<1>3. OnlyOf(a)
  BY DEF IInv, TypeOK, OnlyOf, rows, outside
<1>4. RowsAt(a) /\ RunAt(a) /\ DocumentAt(a) /\ ChunksAt(a)
  BY DEF IInv
<1>5. RowsAt(a)' /\ RunAt(a)'
  BY <1>1, <1>4 DEF RowsAt, RunAt, BeforeRun, BeforeNotify, rows, outside
<1>6. DocumentAt(a)' /\ ChunksAt(a)'
  BY <1>1, <1>4 DEF DocumentAt, ChunksAt, rows, outside
<1> QED
  BY <1>2, <1>3, <1>5, <1>6, OneAttempt DEF AttemptOK

LEMMA StartAttemptKeeps == ASSUME IInv, StartAttempt PROVE IInv'
<1>1. /\ current \in Nat /\ current + 1 \in Scheduled /\ current + 1 \in Attempts
      /\ current' = current + 1 /\ current' \in 0..MaxAttempts
  BY DEF IInv, TypeOK, StartAttempt, Scheduled, Attempts
<1>2. pc[current + 1] = "idle"
  BY <1>1 DEF IInv, AttemptsInTurn
<1>3. AttemptsInTurn'
  <2>1. \A b \in Scheduled : b > current + 1 => b > current /\ b # current + 1
    BY <1>1 DEF Scheduled
  <2> QED
    BY <1>1, <2>1 DEF IInv, TypeOK, AttemptsInTurn, StartAttempt, Scheduled, Attempts
<1> QED
  BY <1>1, <1>2, <1>3, BeginOrEndKeeps DEF StartAttempt

LEMMA ByHandKeeps ==
  ASSUME IInv, NEW a \in ByHand, StartByHand(a) \/ Interrupted(a) PROVE IInv'
<1>1. a \in Attempts /\ a \notin Scheduled /\ a \notin 1..MaxAttempts
  BY DEF Attempts, Scheduled
<1>2. PICK to \in {"env", "killed"} :
        pc' = [pc EXCEPT ![a] = to] /\ (to = "env" => pc[a] = "idle")
  BY DEF StartByHand, Interrupted, Goes
<1>3. UNCHANGED <<day, exitOK, published, date, rows, outside, engine>>
  BY DEF StartByHand, Interrupted
<1>4. \A b \in Attempts : b # a => pc'[b] = pc[b]
  BY <1>2 DEF IInv, TypeOK
<1>5. AttemptsInTurn'
  <2>1. verdict = "succeeded" => current \in Attempts /\ current # a
    BY <1>1 DEF IInv, TypeOK, AttemptsInTurn, Scheduled, Attempts
  <2>2. \A b \in Scheduled : b \in Attempts /\ b # a
    BY <1>1 DEF Attempts
  <2> QED
    BY <1>3, <1>4, <2>1, <2>2 DEF IInv, AttemptsInTurn, engine
<1> QED
  BY <1>1, <1>2, <1>3, <1>5, BeginOrEndKeeps DEF IInv, TypeOK, engine

\* The steps that leave every attempt as it is.
LEMMA EngineKeeps ==
  ASSUME IInv, UNCHANGED <<threads, rows, outside>>,
         day' \in 0..Days, day <= day', current' = current, gaveUp' \subseteq Scheduled,
         verdict' \in {"none", "succeeded", "failed", "killed"}, AttemptsInTurn'
  PROVE  IInv'
<1>1. TypeOK'
  BY DEF IInv, TypeOK, threads, rows, outside
<1>2. \A a \in Attempts : AttemptOK(a)
  BY DEF IInv, AttemptOK
<1>3. \A a \in Attempts : AttemptOK(a)'
  BY <1>2, OthersStay DEF IInv, threads, rows, outside
<1> QED
  BY <1>1, <1>3 DEF IInv, AttemptOK

LEMMA SchedulerKeeps ==
  ASSUME IInv, DeadlineExceeded \/ Report \/ Midnight \/ UNCHANGED vars PROVE IInv'
<1> DEFINE Kept == /\ UNCHANGED <<threads, rows, outside, current>>
                   /\ day' \in 0..Days /\ day <= day' /\ gaveUp' \subseteq Scheduled
                   /\ verdict' \in {"none", "succeeded", "failed", "killed"}
<1>1. Kept
  <2>1. CASE DeadlineExceeded
    <3>1. current \in Scheduled
      BY <2>1, DigestAssumption DEF DeadlineExceeded, IInv, TypeOK, Scheduled
    <3>2. gaveUp' = gaveUp \cup {current} /\ UNCHANGED <<day, threads, rows, outside, current, verdict>>
      BY <2>1 DEF DeadlineExceeded
    <3> QED
      BY <3>1, <3>2 DEF IInv, TypeOK
  <2>2. CASE Report
    BY <2>2 DEF Report, IInv, TypeOK
  <2>3. CASE Midnight
    <3>1. day' \in 0..Days /\ day <= day'
      BY <2>3, DigestAssumption DEF Midnight, IInv, TypeOK
    <3> QED
      BY <2>3, <3>1 DEF Midnight, engine, IInv, TypeOK
  <2>4. CASE UNCHANGED vars
    BY <2>4 DEF vars, engine, IInv, TypeOK
  <2> QED
    BY <2>1, <2>2, <2>3, <2>4
<1>2. AttemptsInTurn'
  BY DEF DeadlineExceeded, Report, Midnight, vars, engine, threads, IInv, AttemptsInTurn
<1> QED
  BY <1>1, <1>2, EngineKeeps

\* The scheduler's process dies and its threads end where they are.
LEMMA KilledKeeps == ASSUME IInv, Killed PROVE IInv'
<1>1. /\ UNCHANGED <<day, exitOK, published, date, rows, outside, current, gaveUp>>
      /\ verdict' = "killed"
      /\ \A a \in Attempts : pc'[a] = pc[a] \/ (pc[a] \in Working /\ pc'[a] = "killed")
      /\ pc' = [a \in Attempts |->
                  IF a \in Scheduled /\ pc[a] \in Working THEN "killed" ELSE pc[a]]
  BY DEF Killed
<1>2. TypeOK'
  BY <1>1 DEF IInv, TypeOK, rows, outside, Working, Ended
<1>3. ASSUME NEW a \in Attempts PROVE AttemptOK(a)'
  <2>1. AttemptOK(a)
    BY DEF IInv, AttemptOK
  <2>2. CASE pc'[a] = pc[a]
    BY <1>1, <2>1, <2>2, OthersStay DEF IInv, TypeOK, rows, outside
  <2>3. CASE pc'[a] = "killed"
    <3>1. RowsAt(a)' /\ RunAt(a)'
      BY <1>1, <2>1, <2>3
      DEF AttemptOK, RowsAt, RunAt, BeforeRun, BeforeNotify, rows, outside
    <3>2. DocumentAt(a)' /\ ChunksAt(a)'
      BY <1>1, <2>1, <2>3 DEF AttemptOK, DocumentAt, ChunksAt, rows, outside
    <3> QED
      BY <3>1, <3>2 DEF AttemptOK
  <2> QED
    BY <1>1, <2>2, <2>3
<1>4. AttemptsInTurn'
  BY <1>1 DEF IInv, AttemptsInTurn, Attempts, Working
<1> QED
  BY <1>2, <1>3, <1>4 DEF IInv, AttemptOK

LEMMA NextIInv == IInv /\ [Next]_vars => IInv'
<1> SUFFICES ASSUME IInv, [Next]_vars PROVE IInv'
  OBVIOUS
<1>1. ASSUME NEW a \in Attempts, OutsideStep(a) PROVE IInv'
  BY <1>1, WriteDigestKeeps, ContainerEndsKeeps, NotifyKeeps DEF OutsideStep
<1> QED
  BY <1>1, ExecutorKeeps, StartAttemptKeeps, ByHandKeeps, SchedulerKeeps, KilledKeeps
  DEF Next, Over

LEMMA Invariance == Spec => []IInv
BY InitIInv, NextIInv, PTL DEF Spec

-----------------------------------------------------------------------------
(* The theorems.                                                           *)

\* Every variable keeps its type: the attempts of run_claude_digest and
\* run_invest_digest are always at a place of the executor, and the chunks in
\* the channel are chunks of the digest.
THEOREM TypeCorrect == Spec => []TypeOK
BY Invariance, PTL DEF IInv

\* documents.status = "published" is true of the outside world: the file of the
\* row's day is in the notes repository, or auth-proxy posted every chunk once and
\* in order, with the row's day (run_invest_digest's `date') between the day the
\* digest was written and the days it went out, whatever midnights, retries,
\* deadlines and kills there were.
THEOREM PublishedIsTrue == Spec => []PublishedIsOut
<1>1. IInv => PublishedIsOut
  <2> SUFFICES ASSUME IInv, NEW a \in Attempts, doc[a].status = "published"
               PROVE  ContentOut(a)
    BY DEF PublishedIsOut
  <2>1. DocumentAt(a) /\ ChunksAt(a)
    BY DEF IInv
  <2>2. CASE Target = "git"
    BY <2>1, <2>2 DEF DocumentAt, ContentOut
  <2>3. CASE Target # "git"
    <3>1. server[a] = "ok" /\ doc[a].day = date[a]
      BY <2>1, <2>3 DEF DocumentAt
    <3> QED
      BY <2>1, <2>3, <3>1 DEF ChunksAt, ContentOut, AllPosted
  <2> QED
    BY <2>2, <2>3
<1> QED
  BY <1>1, Invariance, PTL

\* tasks.status = "succeeded" stands for a container that exited with 0 and a
\* document that was published (ClaudeDigestResult, InvestDigestResult).
THEOREM SuccessIsPublished == Spec => []SucceededIsPublished
<1>1. IInv => SucceededIsPublished
  BY DEF IInv, DocumentAt, RunAt, SucceededIsPublished
<1> QED
  BY <1>1, Invariance, PTL

\* The scheduler's "succeeded" is the success of the attempt it waited for, as
\* that attempt's rows have it, and never of one it gave up on before.
THEOREM ReportMatchesRows == Spec => []SuccessMatchesRows
<1>1. IInv => SuccessMatchesRows
  <2> SUFFICES ASSUME IInv, verdict = "succeeded"
               PROVE  current \notin gaveUp /\ task[current] = "succeeded"
                      /\ session[current] = "stopped"
    BY DEF SuccessMatchesRows
  <2>1. current \in Attempts
    BY DEF IInv, TypeOK, AttemptsInTurn, Attempts, Scheduled
  <2> QED
    BY <2>1 DEF IInv, AttemptsInTurn, RowsAt
<1> QED
  BY <1>1, Invariance, PTL

LEMMA StepIsLifecycle ==
  ASSUME IInv, NEW a \in Attempts, ExecutorStep(a)
  PROVE  Lifecycle!Next \/ UNCHANGED <<session, task>>
<1>1. RowsAt(a)
  BY DEF IInv
<1>2. CASE CreateSession(a) \/ StartSession(a)
  BY <1>1, <1>2 DEF CreateSession, StartSession, Goes, RowsAt,
                    Lifecycle!Next, Lifecycle!CreateSession, Lifecycle!StartSession,
                    Lifecycle!SetSession
<1>3. CASE CreateTask(a)
  BY <1>1, <1>3 DEF CreateTask, Goes, RowsAt, Lifecycle!Next, Lifecycle!CreateTask
<1>4. CASE FinishTask(a)
  BY <1>1, <1>4 DEF FinishTask, Goes, RowsAt, Lifecycle!Next, Lifecycle!FinishTask
<1>5. CASE CloseSession(a)
  BY <1>1, <1>5 DEF CloseSession, Goes, RowsAt, Lifecycle!Next,
                    Lifecycle!CloseSession, Lifecycle!SetSession, Lifecycle!ClosedAs
<1>6. CASE \/ CreateWorkspace(a) \/ IssueSession(a) \/ StepRaises(a)
           \/ Launch(a) \/ CreateJobFails(a) \/ WaitReturns(a) \/ WaitGivesUp(a)
           \/ VerifyPublished(a) \/ ReadDigest(a) \/ Notified(a) \/ RecordDocument(a)
  BY <1>6 DEF CreateWorkspace, IssueSession, StepRaises, Launch, CreateJobFails,
              WaitReturns, WaitGivesUp, VerifyPublished, ReadDigest, Notified,
              RecordDocument, rows
<1> QED
  BY <1>2, <1>3, <1>4, <1>5, <1>6 DEF ExecutorStep

\* The rows of every attempt, the detached ones too, follow the lifecycle the
\* tables promise (db/repository.py): finished once, closed after the task and to
\* match it, and left where they are by an exception, a deadline or a kill.
THEOREM RowsImplementLifecycle == Spec => RowsFollowLifecycle
<1>1. Init => Lifecycle!Init
  BY DEF Init, Lifecycle!Init
<1>2. ASSUME IInv, [Next]_vars PROVE [Lifecycle!Next]_<<session, task>>
  <2>1. CASE StartAttempt \/ DeadlineExceeded \/ Report \/ Killed \/ Midnight
    BY <2>1 DEF StartAttempt, DeadlineExceeded, Report, Killed, Midnight, rows
  <2>2. ASSUME NEW a \in Attempts, OutsideStep(a) PROVE UNCHANGED <<session, task>>
    BY <2>2 DEF OutsideStep, WriteDigest, ContainerEnds, PostChunk, ChunkFails, rows
  <2>3. ASSUME NEW a \in ByHand, StartByHand(a) \/ Interrupted(a)
        PROVE  UNCHANGED <<session, task>>
    BY <2>3 DEF StartByHand, Interrupted, rows
  <2>4. CASE UNCHANGED vars
    BY <2>4 DEF vars, rows
  <2> QED
    BY <1>2, <2>1, <2>2, <2>3, <2>4, StepIsLifecycle DEF Next, Over
<1> QED
  BY <1>1, <1>2, Invariance, PTL DEF Spec, RowsFollowLifecycle, Lifecycle!Spec

=============================================================================
