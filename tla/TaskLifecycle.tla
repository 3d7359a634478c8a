---------------------------- MODULE TaskLifecycle ----------------------------
(***************************************************************************)
(* What the sessions and tasks tables promise of one execution: the rows   *)
(* db/repository.py writes, in the order every executor is meant to write  *)
(* them.  A row may stop changing at any point (an executor that raises, a *)
(* process that dies), but a task is finished once, and a session is       *)
(* closed only after its task and to match it.  The one exception is       *)
(* run-job, which finishes its task inside its try: it may take a success  *)
(* back, but never a failure.                                              *)
(***************************************************************************)
CONSTANTS
  Executions,
  Revisable   \* the executions that may take a success back

VARIABLES session, task

SessionStatus == {"none", "created", "running", "stopped", "failed"}
TaskStatus    == {"none", "queued", "succeeded", "failed"}

Init ==
  /\ session = [e \in Executions |-> "none"]
  /\ task = [e \in Executions |-> "none"]

SetSession(e, from, to) ==
  /\ session[e] = from
  /\ session' = [session EXCEPT ![e] = to]
  /\ UNCHANGED task

CreateSession(e) == SetSession(e, "none", "created")

StartSession(e) == SetSession(e, "created", "running")

CreateTask(e) ==
  /\ session[e] = "running"
  /\ task[e] = "none"
  /\ task' = [task EXCEPT ![e] = "queued"]
  /\ UNCHANGED session

FinishTask(e, status) ==
  /\ \/ task[e] = "queued"
     \/ e \in Revisable /\ task[e] = "succeeded" /\ status = "failed"
  /\ task' = [task EXCEPT ![e] = status]
  /\ UNCHANGED session

\* The session's last status, given its task's.
ClosedAs(status) == IF status = "succeeded" THEN "stopped" ELSE "failed"

CloseSession(e) ==
  /\ task[e] \in {"succeeded", "failed"}
  /\ \E from \in {"running"} \cup (IF e \in Revisable THEN {"stopped"} ELSE {}) :
       SetSession(e, from, ClosedAs(task[e]))

Next ==
  \E e \in Executions :
    \/ CreateSession(e) \/ StartSession(e) \/ CreateTask(e) \/ CloseSession(e)
    \/ \E status \in {"succeeded", "failed"} : FinishTask(e, status)

Spec == Init /\ [][Next]_<<session, task>>

=============================================================================
