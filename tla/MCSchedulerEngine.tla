-------------------------- MODULE MCSchedulerEngine --------------------------
(***************************************************************************)
(* Values for SchedulerEngine's constants.                                 *)
(***************************************************************************)
EXTENDS SchedulerEngine

\* Job 1 is like ai-it-x-daily-digest: an executor under a deadline, one
\* retry.  Job 2 is malformed, job 3 runs inline with a negative backoff_limit,
\* job 4 has no executor.
FourDue      == <<{0}, {0, 1}, {1}, {0, 1}>>
FourBackoff  == <<1, 0, -1, 0>>
FourDeadline == <<1, 0, 0, 0>>

\* Jobs 1 and 3 of these alone.
PairDue      == <<{0, 1}, {0, 1}>>
PairBackoff  == <<1, -1>>
PairDeadline == <<2, 0>>
=============================================================================
