---------------------------- MODULE RunJobProofs ----------------------------
(***************************************************************************)
(* Proofs about the commands that run tools themselves, for every pair of  *)
(* policies, every set of targets and any number of queries.               *)
(***************************************************************************)
EXTENDS RunJob, TLAPS

USE RunJobAssumption

-----------------------------------------------------------------------------
(* The plans.                                                              *)

\* The environment of a command decides its plan and its role once and for all.
LEMMA PlanConstant ==
  ASSUME UNCHANGED cmd
  PROVE  /\ Plan' = Plan /\ Role' = Role
         /\ MayCommit' = MayCommit
         /\ \A tool : Permits(tool)' = Permits(tool)
<1>1. Plan' = Plan /\ Role' = Role
  BY DEF Plan, Role
<1>2. \A tool : Permits(tool)' = Permits(tool)
  BY <1>1 DEF Permits
<1>3. MayCommit' = MayCommit
  BY <1>2 DEF MayCommit
<1> QED
  BY <1>1, <1>2, <1>3

LEMMA StepFields ==
  ASSUME NEW tool, NEW mode
  PROVE  Step(tool, mode).tool = tool /\ Step(tool, mode).mode = mode
BY DEF Step

\* What the argument uses of a plan: it is not empty; a digest's ends with the
\* commit, which is only asked for; a summary follows a search that must be
\* answered, and has searches and summaries only around it.
PlanShape ==
  /\ Len(Plan) \in Nat /\ Len(Plan) >= 1
  /\ cmd.kind \in Digests =>
       Plan[Len(Plan)].tool = Commit /\ Plan[Len(Plan)].mode = "gate"
  /\ cmd.kind \in Digests /\ cmd.mcp =>
       \A i \in 1..(Len(Plan) - 1) : Plan[i].tool \in {Search, Summarize}
  /\ \A i \in 1..Len(Plan) : Plan[i].tool = Summarize =>
       /\ i > 1 /\ Plan[i].mode = "optional"
       /\ Plan[i - 1].tool = Search /\ Plan[i - 1].mode = "required"

LEMMA StockShape == ASSUME cmd.kind = "stock" PROVE PlanShape
<1>1. Plan = <<Step("jq.get_listed_info", "required"),
               Step("jq.get_daily_quotes", "required"),
               Step("jq.get_statements", "required"), Step(Search, "optional")>>
  BY DEF Plan, Digests, Detached
<1>2. /\ Len(Plan) = 4
      /\ Plan[1] = Step("jq.get_listed_info", "required")
      /\ Plan[2] = Step("jq.get_daily_quotes", "required")
      /\ Plan[3] = Step("jq.get_statements", "required")
      /\ Plan[4] = Step(Search, "optional")
  BY <1>1
<1>3. \A i \in 1..Len(Plan) : Plan[i].tool # Summarize
  <2>1. \A i \in 1..Len(Plan) : i = 1 \/ i = 2 \/ i = 3 \/ i = 4
    BY <1>2
  <2> QED
    BY <1>2, <2>1, StepFields DEF Search, Summarize
<1> QED
  BY <1>2, <1>3 DEF PlanShape, Digests, Detached

LEMMA SmokeShape == ASSUME cmd.kind = "xsmoke" PROVE PlanShape
<1>1. Plan = <<Step(Search, "required")>>
  BY DEF Plan, Digests, Detached
<1>2. Len(Plan) = 1 /\ Plan[1] = Step(Search, "required")
  BY <1>1
<1>3. \A i \in 1..Len(Plan) : Plan[i].tool # Summarize
  <2>1. \A i \in 1..Len(Plan) : i = 1
    BY <1>2
  <2> QED
    BY <1>2, <2>1, StepFields DEF Search, Summarize
<1> QED
  BY <1>2, <1>3 DEF PlanShape, Digests, Detached

LEMMA RealShape == ASSUME cmd.kind \in Digests, cmd.mcp PROVE PlanShape
<1> DEFINE front == [i \in 1..(2 * Queries) |->
                       IF i % 2 = 1 THEN Step(Search, "required")
                                    ELSE Step(Summarize, "optional")]
<1>1. Plan = front \o <<Step(Commit, "gate")>>
  BY DEF Plan, Digests, Detached
<1>2. front \in Seq({Step(Search, "required"), Step(Summarize, "optional")})
      /\ Len(front) = 2 * Queries
  OBVIOUS
<1>3. \A i \in 1..(2 * Queries) :
        front[i] = IF i % 2 = 1 THEN Step(Search, "required")
                                ELSE Step(Summarize, "optional")
  OBVIOUS
<1> HIDE DEF front
<1>4. /\ Len(Plan) = 2 * Queries + 1
      /\ Plan[2 * Queries + 1] = Step(Commit, "gate")
      /\ \A i \in 1..(2 * Queries) : Plan[i] = front[i]
  BY <1>1, <1>2
<1>5. \A i \in 1..(2 * Queries) :
        /\ i % 2 = 1 => Plan[i].tool = Search /\ Plan[i].mode = "required"
        /\ i % 2 # 1 => Plan[i].tool = Summarize /\ Plan[i].mode = "optional"
  BY <1>3, <1>4, StepFields
<1>6. Plan[Len(Plan)].tool = Commit /\ Plan[Len(Plan)].mode = "gate"
  BY <1>4, StepFields
<1>7. Search # Summarize /\ Commit # Summarize
  BY DEF Search, Summarize, Commit
<1>8. ASSUME NEW i \in 1..Len(Plan), Plan[i].tool = Summarize
      PROVE  /\ i > 1 /\ Plan[i].mode = "optional"
             /\ Plan[i - 1].tool = Search /\ Plan[i - 1].mode = "required"
  <2>1. i \in 1..(2 * Queries)
    BY <1>4, <1>6, <1>7, <1>8
  <2>2. i % 2 # 1
    BY <1>5, <1>7, <1>8, <2>1
  <2>3. i > 1 /\ i - 1 \in 1..(2 * Queries) /\ (i - 1) % 2 = 1
    BY <2>1, <2>2
  <2> QED
    BY <1>5, <2>1, <2>2, <2>3
<1>9. \A i \in 1..(Len(Plan) - 1) : Plan[i].tool \in {Search, Summarize}
  BY <1>4, <1>5
<1> QED
  BY <1>4, <1>6, <1>8, <1>9 DEF PlanShape

LEMMA MockShape == ASSUME cmd.kind \in Digests, ~cmd.mcp PROVE PlanShape
<1>1. Plan = [i \in 1..(Queries + 1) |->
                Step(IF i <= Queries THEN Search ELSE Commit, "gate")]
  BY DEF Plan, Digests, Detached
<1>2. Len(Plan) = Queries + 1
  BY <1>1
<1>3. \A i \in 1..(Queries + 1) :
        Plan[i] = Step(IF i <= Queries THEN Search ELSE Commit, "gate")
  BY <1>1
<1>4. Plan[Queries + 1].tool = Commit /\ Plan[Queries + 1].mode = "gate"
  BY <1>3, StepFields
<1>5. \A i \in 1..(Queries + 1) : Plan[i].tool # Summarize
  BY <1>3, StepFields DEF Search, Summarize, Commit
<1> QED
  BY <1>2, <1>4, <1>5 DEF PlanShape

LEMMA PlanFacts == ASSUME TypeOK PROVE PlanShape
<1>1. cmd.kind \in Kinds
  BY DEF TypeOK, Commands
<1> QED
  BY <1>1, StockShape, SmokeShape, RealShape, MockShape DEF Kinds

-----------------------------------------------------------------------------
(* The runner.                                                             *)

LEMMA InitIInv == Init => IInv
<1> SUFFICES ASSUME Init PROVE IInv
  OBVIOUS
<1> USE DEF Init
<1>1. cmd \in Commands /\ cmd.kind \in Kinds
  BY DEF Commands
<1>2. PlanShape
  BY <1>1, StockShape, SmokeShape, RealShape, MockShape DEF Kinds
<1>3. TypeOK
  <2>1. step \in 1..(Len(Plan) + 1) /\ answered \subseteq 1..Len(Plan)
    BY <1>2 DEF PlanShape
  <2>2. empty \subseteq answered /\ called \subseteq {Plan[i].tool : i \in 1..Len(Plan)}
    OBVIOUS
  <2> QED
    BY <1>1, <2>1, <2>2 DEF TypeOK, HostPhases, RunnerPhases
<1>4. RowsAtPlace /\ ProgressAtPlace /\ SuccessSettled
  BY DEF RowsAtPlace, ExitTellsRows, ProgressAtPlace, SuccessSettled
<1>5. AnswersBehind /\ Granted
  BY <1>2 DEF AnswersBehind, Granted, PlanShape
<1> QED
  BY <1>3, <1>4, <1>5 DEF IInv

\* A step of the runner that leaves its position, and what is behind it, alone.
LEMMA RunnerMoves ==
  ASSUME IInv, UNCHANGED <<cmd, hostVars, step, answered, empty>>,
         runner' \in RunnerPhases, file' \in BOOLEAN, document' \in BOOLEAN,
         result' \in {"none", "ok", "failed", "broken"},
         called' = called \/ (runner = "call" /\ called' = called \cup {Plan[step].tool}),
         runner' # "call", ProgressAtPlace', SuccessSettled'
  PROVE  IInv'
<1>1. Plan' = Plan /\ MayCommit' = MayCommit /\ \A tool : Permits(tool)' = Permits(tool)
  BY PlanConstant
<1>2. PlanShape
  BY PlanFacts DEF IInv
<1>3. \A tool \in called' : Permits(tool)
  BY DEF IInv, Granted
<1>4. called' \subseteq {Plan[i].tool : i \in 1..Len(Plan)}
  BY <1>2 DEF IInv, TypeOK, ProgressAtPlace, PlanShape
<1>5. TypeOK'
  BY <1>1, <1>4 DEF IInv, TypeOK, hostVars
<1>6. RowsAtPlace'
  BY DEF IInv, RowsAtPlace, ExitTellsRows, hostVars
<1>7. AnswersBehind'
  BY <1>1 DEF IInv, AnswersBehind
<1>8. Granted'
  BY <1>1, <1>3 DEF IInv, Granted
<1> QED
  BY <1>5, <1>6, <1>7, <1>8 DEF IInv

\* A success is not touched by a runner that is still at work.
LEMMA StillOpen ==
  ASSUME IInv, UNCHANGED <<cmd, hostVars>>,
         runner \notin {"exit0", "returned", "escaped"}
         \/ (runner = "returned" /\ cmd.kind \in Detached)
  PROVE  SuccessSettled'
BY DEF IInv, SuccessSettled, hostVars

LEMMA Raised ==
  ASSUME Raises \/ Escapes
  PROVE  /\ runner' \in {"except", "raised", "escaped"}
         /\ runner' = "except" => cmd.kind \in Detached
BY DEF Raises, Escapes

LEMMA BeginKeeps == ASSUME IInv, Begin PROVE IInv'
<1>1. /\ runner' \in {"auth", "except", "raised", "escaped"} /\ runner = "start"
      /\ runner' = "except" => cmd.kind \in Detached
  BY Raised DEF Begin
<1>2. PlanShape /\ Plan' = Plan /\ UNCHANGED <<cmd, hostVars>>
  BY PlanFacts, PlanConstant DEF IInv, Begin
<1>3. ProgressAtPlace'
  BY <1>1, <1>2 DEF IInv, TypeOK, ProgressAtPlace, PlanShape, Begin, hostVars
<1> QED
  BY <1>1, <1>3, RunnerMoves, StillOpen DEF IInv, TypeOK, RunnerPhases, Begin

LEMMA EndKeeps ==
  ASSUME IInv, UNCHANGED <<cmd, hostVars, step, answered, empty, file>>,
         called' = called \/ (runner = "call" /\ called' = called \cup {Plan[step].tool}),
         document' = document, result' \in {"none", "ok", "failed", "broken"},
         runner # "idle",
         \/ runner \notin {"exit0", "returned", "escaped"}
         \/ (runner = "returned" /\ cmd.kind \in Detached),
         runner' \in {"except", "raised", "escaped", "exit1"},
         runner' \in {"except", "exit1"} => cmd.kind \in Detached
  PROVE  IInv'
<1>1. Plan' = Plan
  BY PlanConstant
<1>2. ProgressAtPlace'
  BY <1>1 DEF IInv, ProgressAtPlace, hostVars
<1> QED
  BY <1>2, RunnerMoves, StillOpen DEF IInv, TypeOK, RunnerPhases

LEMMA WriteFileKeeps == ASSUME IInv, WriteFile PROVE IInv'
<1>1. /\ runner = "write" /\ UNCHANGED <<cmd, hostVars>>
      /\ file' \in BOOLEAN
      /\ \/ runner' = "record" /\ file'
         \/ runner' \in {"except", "raised", "escaped"}
      /\ runner' = "except" => cmd.kind \in Detached
  BY Raised DEF WriteFile
<1>2. Plan' = Plan
  BY <1>1, PlanConstant
<1>3. ProgressAtPlace'
  BY <1>1, <1>2 DEF IInv, ProgressAtPlace, WriteFile, hostVars
<1> QED
  BY <1>1, <1>3, RunnerMoves, StillOpen DEF IInv, TypeOK, RunnerPhases, WriteFile

LEMMA RecordDocumentKeeps == ASSUME IInv, RecordDocument PROVE IInv'
<1>1. /\ runner = "record" /\ UNCHANGED <<cmd, hostVars>>
      /\ \/ runner' = "returned" /\ document' = TRUE
         \/ runner' \in {"except", "raised", "escaped"} /\ document' = document
      /\ runner' = "except" => cmd.kind \in Detached
  BY Raised DEF RecordDocument
<1>2. Plan' = Plan
  BY <1>1, PlanConstant
<1>3. ProgressAtPlace'
  BY <1>1, <1>2 DEF IInv, ProgressAtPlace, RecordDocument, hostVars
<1> QED
  BY <1>1, <1>3, RunnerMoves, StillOpen DEF IInv, TypeOK, RunnerPhases, RecordDocument

\* runner-execute after its body.
LEMMA PayloadKeeps == ASSUME IInv, PrintPayload \/ WriteResult PROVE IInv'
<1>1. /\ UNCHANGED <<cmd, hostVars, step, answered, empty, called, file, document>>
      /\ \/ runner = "returned" /\ cmd.kind \in Detached
         \/ runner = "result"
      /\ runner' \in {"result", "except", "exit0"}
      /\ result' \in {"none", "ok", "failed", "broken"}
  BY DEF PrintPayload, WriteResult, IInv, TypeOK
<1>2. Plan' = Plan
  BY <1>1, PlanConstant
<1>3. ProgressAtPlace'
  BY <1>1, <1>2 DEF IInv, ProgressAtPlace, hostVars
<1> QED
  BY <1>1, <1>3, RunnerMoves, StillOpen DEF IInv, TypeOK, RunnerPhases

\* The runner goes on to the next step, with this one answered or not needed.
LEMMA Advance ==
  ASSUME IInv, UNCHANGED <<cmd, hostVars, file, document, result>>,
         runner \in {"auth", "call"}, NextStep,
         \/ answered' = answered /\ Plan[step].mode # "required"
         \/ /\ answered' = answered \cup {step}
            /\ Plan[step].tool = Summarize => step - 1 \notin empty,
         empty' = empty \/ (empty' = empty \cup {step} /\ step \in answered'),
         called' = called \/ (runner = "call" /\ called' = called \cup {Plan[step].tool}),
         step = Len(Plan) /\ cmd.kind \in Digests =>
           /\ MayCommit /\ answered' = answered /\ empty' = empty
           /\ cmd.mcp => ~(answered \subseteq empty)
  PROVE  IInv'
<1>1. Plan' = Plan /\ MayCommit' = MayCommit /\ \A tool : Permits(tool)' = Permits(tool)
  BY PlanConstant
<1>2. PlanShape /\ Len(Plan) \in Nat
  BY PlanFacts DEF IInv, PlanShape
<1>3. /\ step \in Nat /\ step >= 1 /\ step <= Len(Plan)
      /\ step' = step + 1 /\ step' \in 1..(Len(Plan) + 1)
  BY <1>2 DEF IInv, TypeOK, ProgressAtPlace, NextStep
<1>4. /\ step < Len(Plan) => runner' = "auth"
      /\ step = Len(Plan) => runner' = IF cmd.kind = "xsmoke" THEN "returned" ELSE "write"
  BY <1>2, <1>3 DEF NextStep
<1>5. runner' \in {"auth", "write", "returned"} /\ runner' \in RunnerPhases
  BY <1>2, <1>3, <1>4 DEF RunnerPhases
<1>6. file = FALSE /\ file' = FALSE
  BY <1>2, <1>3 DEF IInv, TypeOK, ProgressAtPlace
<1>7. ProgressAtPlace'
  BY <1>1, <1>2, <1>3, <1>4, <1>5, <1>6 DEF IInv, ProgressAtPlace, hostVars
<1>8. SuccessSettled'
  BY StillOpen
<1>9. \A tool \in called' : Permits(tool)
  BY DEF IInv, Granted
<1>10. answered \subseteq 1..(step - 1) /\ answered' \subseteq 1..step /\ empty \subseteq answered
       /\ empty' \subseteq answered'
  <2>1. answered \subseteq 1..(step - 1) /\ empty \subseteq answered
    BY DEF IInv, AnswersBehind, TypeOK
  <2>2. 1..(step - 1) \subseteq 1..step /\ step \in 1..step
    BY <1>3
  <2>3. answered' \subseteq answered \cup {step} /\ answered \subseteq answered'
    OBVIOUS
  <2> QED
    BY <2>1, <2>2, <2>3
<1>11. TypeOK'
  <2>1. called' \subseteq {Plan[i].tool : i \in 1..Len(Plan)}
    BY <1>2, <1>3 DEF IInv, TypeOK
  <2>2. answered' \subseteq 1..Len(Plan)
    BY <1>2, <1>3, <1>10
  <2> QED
    BY <1>1, <1>3, <1>5, <1>10, <2>1, <2>2 DEF IInv, TypeOK, hostVars
<1>12. RowsAtPlace'
  BY DEF IInv, RowsAtPlace, ExitTellsRows, hostVars
<1>13. Granted'
  <2>1. step' > Len(Plan) => step = Len(Plan)
    BY <1>2, <1>3
  <2> QED
    BY <1>1, <1>5, <1>9, <2>1 DEF Granted
<1>14. AnswersBehind'
  <2>1. \A i \in 1..step : Plan[i].mode = "required" => i \in answered'
    <3>1. \A i \in 1..step : i = step \/ i \in 1..(step - 1)
      BY <1>3
    <3> QED
      BY <3>1 DEF IInv, AnswersBehind
  <2>2. ASSUME NEW i \in answered', Plan[i].tool = Summarize
        PROVE  i - 1 \in answered' \ empty'
    <3>1. i - 1 # step /\ i \in 1..step
      BY <1>3, <1>10
    <3>2. CASE i \in answered
      BY <2>2, <3>1, <3>2 DEF IInv, AnswersBehind
    <3>3. CASE i = step /\ Plan[step].tool = Summarize /\ step - 1 \notin empty
      <4>1. step > 1 /\ Plan[step - 1].mode = "required"
        BY <1>2, <1>3, <3>3 DEF PlanShape
      <4>2. step - 1 \in answered
        BY <1>3, <4>1 DEF IInv, AnswersBehind
      <4> QED
        BY <3>1, <3>3, <4>2
    <3> QED
      BY <2>2, <3>2, <3>3
  <2>3. step' > Len(Plan) /\ cmd.kind \in Digests /\ cmd.mcp =>
          \E i \in answered' \ empty' : Plan[i].tool = Search
    <3> SUFFICES ASSUME step = Len(Plan), cmd.kind \in Digests, cmd.mcp
                 PROVE  \E i \in answered \ empty : Plan[i].tool = Search
      BY <1>2, <1>3
    <3>1. PICK i \in answered : i \notin empty
      OBVIOUS
    <3>2. i \in 1..(Len(Plan) - 1) /\ i \in 1..Len(Plan)
      BY <1>2, <1>10
    <3>3. CASE Plan[i].tool = Search
      BY <3>1, <3>3
    <3>4. CASE Plan[i].tool = Summarize
      <4>1. i - 1 \in answered \ empty
        BY <3>4 DEF IInv, AnswersBehind
      <4>2. Plan[i - 1].tool = Search
        BY <1>2, <3>2, <3>4 DEF PlanShape
      <4> QED
        BY <4>1, <4>2
    <3> QED
      BY <1>2, <3>2, <3>3, <3>4 DEF PlanShape
  <2>4. answered' \subseteq 1..(step' - 1) /\ 1..(step' - 1) = 1..step
    BY <1>3, <1>10
  <2> QED
    BY <1>1, <1>5, <2>1, <2>2, <2>3, <2>4 DEF AnswersBehind
<1> QED
  BY <1>7, <1>8, <1>11, <1>12, <1>13, <1>14 DEF IInv

\* What the gate lets through, the configured authority permits.
LEMMA GateSpeaksForAuthority ==
  ASSUME NEW tool,
         TRUE \in Authorize(cmd.remote, cmd.reachable, Role, tool, cmd.target)
  PROVE  Permits(tool) /\ (tool = Commit => MayCommit)
<1>1. CASE cmd.remote
  <2>1. cmd.reachable /\ Decide(RemotePolicy, Role, tool)
    BY <1>1 DEF Authorize
  <2> QED
    BY <1>1, <2>1 DEF Permits, MayCommit
<1>2. CASE ~cmd.remote
  <2>1. DecideToolCall(Role, tool, cmd.target)
    BY <1>2 DEF Authorize
  <2>2. Decide(LocalPolicy, Role, tool)
    BY <2>1 DEF DecideToolCall
  <2>3. tool = Commit /\ NamesPlace(cmd.target) =>
          /\ cmd.target.repo \in DOMAIN Repositories
          /\ PathAllowed(cmd.target.repo, cmd.target.path)
    BY <2>1 DEF DecideToolCall, DocumentTools, Commit
  <2> QED
    BY <1>2, <2>2, <2>3 DEF Permits, MayCommit
<1> QED
  BY <1>1, <1>2

\* A decision is a yes or a no.
LEMMA DecisionBoolean ==
  ASSUME NEW tool,
         NEW allowed \in Authorize(cmd.remote, cmd.reachable, Role, tool, cmd.target)
  PROVE  allowed \in BOOLEAN
BY DEF Authorize, DecideToolCall, Decide

LEMMA SkipKeeps == ASSUME IInv, Skip PROVE IInv'
<1>1. runner = "auth" /\ step <= Len(Plan) /\ PlanShape /\ step \in 1..Len(Plan)
  BY PlanFacts DEF Skip, IInv, ProgressAtPlace, TypeOK, PlanShape
<1>2. CASE SkipsSummary /\ NextStep
  <2>1. Plan[step].tool = Summarize /\ Plan[step].mode = "optional"
    BY <1>1, <1>2 DEF SkipsSummary, PlanShape
  <2>2. step = Len(Plan) => cmd.kind \notin Digests
    BY <1>1, <2>1 DEF PlanShape, Summarize, Commit
  <2> QED
    BY <1>1, <1>2, <2>1, <2>2, Advance DEF Skip
<1>3. CASE NoSignals /\ Raises /\ UNCHANGED step
  <2>1. /\ runner' \in {"except", "raised", "escaped"}
        /\ runner' = "except" => cmd.kind \in Detached
    BY <1>3, Raised
  <2> QED
    BY <1>1, <1>3, <2>1, EndKeeps DEF Skip, IInv, TypeOK
<1> QED
  BY <1>2, <1>3 DEF Skip

LEMMA AskPermissionKeeps == ASSUME IInv, AskPermission PROVE IInv'
<1>1. runner = "auth" /\ step <= Len(Plan) /\ PlanShape /\ step \in 1..Len(Plan)
  BY PlanFacts DEF AskPermission, IInv, ProgressAtPlace, TypeOK, PlanShape
<1>2. UNCHANGED <<cmd, hostVars, answered, empty, called, file, document, result>>
  BY DEF AskPermission
<1>3. ASSUME Raises, UNCHANGED step PROVE IInv'
  <2>1. /\ runner' \in {"except", "raised", "escaped"}
        /\ runner' = "except" => cmd.kind \in Detached
    BY <1>3, Raised
  <2> QED
    BY <1>1, <1>2, <1>3, <2>1, EndKeeps DEF IInv, TypeOK
<1>4. PICK allowed \in Authorize(cmd.remote, cmd.reachable, Role, Plan[step].tool,
                                 cmd.target) :
        CASE allowed /\ Plan[step].mode = "gate" -> NextStep
          [] allowed /\ Plan[step].mode # "gate" ->
               /\ IF cmd.token THEN runner' = "call" ELSE Raises
               /\ UNCHANGED step
          [] ~allowed /\ Plan[step].mode = "optional" -> NextStep
          [] OTHER -> Raises /\ UNCHANGED step
  BY DEF AskPermission
<1>5. allowed \in BOOLEAN
  BY <1>4, DecisionBoolean
<1>6. allowed => /\ Permits(Plan[step].tool)
                 /\ Plan[step].tool = Commit => MayCommit
  BY <1>4, <1>5, GateSpeaksForAuthority
<1>7. \/ allowed /\ Plan[step].mode = "gate" /\ NextStep
      \/ /\ allowed /\ Plan[step].mode # "gate"
         /\ runner' = "call" \/ Raises
         /\ UNCHANGED step
      \/ ~allowed /\ Plan[step].mode = "optional" /\ NextStep
      \/ Raises /\ UNCHANGED step
  BY <1>4, <1>5
<1>8. CASE allowed /\ Plan[step].mode = "gate" /\ NextStep
  <2>1. step = Len(Plan) /\ cmd.kind \in Digests => MayCommit
    BY <1>1, <1>6, <1>8 DEF PlanShape
  <2>2. step = Len(Plan) /\ cmd.kind \in Digests /\ cmd.mcp => ~(answered \subseteq empty)
    BY DEF AskPermission, NoSignals
  <2> QED
    BY <1>1, <1>2, <1>8, <2>1, <2>2, Advance
<1>9. CASE ~allowed /\ Plan[step].mode = "optional" /\ NextStep
  <2>1. step = Len(Plan) => cmd.kind \notin Digests
    BY <1>1, <1>9 DEF PlanShape
  <2> QED
    BY <1>1, <1>2, <1>9, <2>1, Advance
<1>10. CASE allowed /\ Plan[step].mode # "gate" /\ runner' = "call" /\ UNCHANGED step
  <2>1. Plan' = Plan /\ MayCommit' = MayCommit /\ \A tool : Permits(tool)' = Permits(tool)
    BY <1>2, PlanConstant
  <2>2. TypeOK' /\ RowsAtPlace'
    BY <1>2, <1>10, <2>1
    DEF IInv, TypeOK, RowsAtPlace, ExitTellsRows, hostVars, RunnerPhases
  <2>3. ProgressAtPlace'
    BY <1>1, <1>2, <1>10, <2>1 DEF IInv, ProgressAtPlace, hostVars
  <2>4. AnswersBehind'
    BY <1>2, <1>10, <2>1 DEF IInv, AnswersBehind, AskPermission, SkipsSummary
  <2>5. Granted'
    BY <1>2, <1>6, <1>10, <2>1 DEF IInv, Granted
  <2>6. SuccessSettled'
    BY <1>1, <1>2, StillOpen
  <2> QED
    BY <2>2, <2>3, <2>4, <2>5, <2>6 DEF IInv
<1> QED
  BY <1>3, <1>7, <1>8, <1>9, <1>10

LEMMA CallAnsweredKeeps == ASSUME IInv, CallAnswered PROVE IInv'
<1>1. /\ runner = "call" /\ step \in 1..Len(Plan) /\ PlanShape
      /\ Plan[step].mode # "gate"
  BY PlanFacts DEF CallAnswered, IInv, ProgressAtPlace, TypeOK, PlanShape
<1>2. step = Len(Plan) => cmd.kind \notin Digests
  BY <1>1 DEF PlanShape
<1>3. Plan[step].tool = Summarize => step - 1 \notin empty
  BY <1>1 DEF IInv, AnswersBehind
<1>4. empty' = empty \/ empty' = empty \cup {step}
  BY DEF CallAnswered
<1> QED
  BY <1>1, <1>2, <1>3, <1>4, Advance DEF CallAnswered

LEMMA CallFailsKeeps == ASSUME IInv, CallFails PROVE IInv'
<1>1. /\ runner = "call" /\ step \in 1..Len(Plan) /\ PlanShape
      /\ Plan[step].mode # "gate"
  BY PlanFacts DEF CallFails, IInv, ProgressAtPlace, TypeOK, PlanShape
<1>2. called' = called \/ called' = called \cup {Plan[step].tool}
  BY DEF CallFails
<1>3. CASE Plan[step].mode = "optional"
  <2>1. step = Len(Plan) => cmd.kind \notin Digests
    BY <1>1 DEF PlanShape
  <2> QED
    BY <1>1, <1>2, <1>3, <2>1, Advance DEF CallFails
<1>4. CASE Plan[step].mode # "optional"
  <2>1. /\ runner' \in {"except", "raised", "escaped"} /\ UNCHANGED step
        /\ runner' = "except" => cmd.kind \in Detached
    BY <1>4, Raised DEF CallFails
  <2> QED
    BY <1>1, <1>2, <2>1, EndKeeps DEF CallFails, IInv, TypeOK
<1> QED
  BY <1>3, <1>4

\* The runner's process ends before its time, or reports its failure.
LEMMA RunnerEndKeeps == ASSUME IInv, BeginFails \/ ReportFailure \/ RunnerKilled PROVE IInv'
<1>1. /\ UNCHANGED <<cmd, hostVars, step, answered, empty, called, file, document>>
      /\ runner' = "exit1" /\ cmd.kind \in Detached
      /\ result' \in {"none", "ok", "failed", "broken"}
  BY DEF BeginFails, ReportFailure, RunnerKilled, RunnerGoes, IInv, TypeOK, ProgressAtPlace
<1>2. CASE BeginFails \/ ReportFailure
  BY <1>1, <1>2, EndKeeps DEF BeginFails, ReportFailure, RunnerGoes
<1>3. CASE RunnerKilled
  <2>1. CASE runner = "escaped"
    <3>1. cmd.kind \in Detached
      BY <1>3 DEF RunnerKilled
    <3>2. SuccessSettled'
      BY <1>1, <2>1, <3>1 DEF IInv, SuccessSettled, hostVars
    <3>3. Plan' = Plan
      BY <1>1, PlanConstant
    <3>4. ProgressAtPlace'
      BY <1>1, <2>1, <3>3 DEF IInv, ProgressAtPlace, hostVars
    <3> QED
      BY <1>1, <3>2, <3>4, RunnerMoves DEF RunnerPhases, IInv, TypeOK
  <2>2. CASE runner # "escaped"
    BY <1>1, <1>3, <2>2, EndKeeps DEF RunnerKilled, Exited
  <2> QED
    BY <2>1, <2>2
<1> QED
  BY <1>2, <1>3

LEMMA RunnerKeeps == ASSUME IInv, RunnerStep \/ RunnerKilled PROVE IInv'
BY BeginKeeps, SkipKeeps, AskPermissionKeeps, CallAnsweredKeeps, CallFailsKeeps,
   WriteFileKeeps, RecordDocumentKeeps, PayloadKeeps, RunnerEndKeeps DEF RunnerStep

-----------------------------------------------------------------------------
(* The command.                                                            *)

EarlyPlaces == {"session", "workspace", "running", "task", "launch"}
SessionStatus == {"none", "created", "running", "stopped", "failed"}
TaskStatus == {"none", "queued", "succeeded", "failed"}
ExitCodes == {"none", "0", "1", "raised", "killed"}

\* A step of the command that leaves the runner's work alone; the runner's
\* place may change to one where nothing was done yet, or to its end.
LEMMA HostMoves ==
  ASSUME IInv, UNCHANGED <<cmd, step, answered, empty, called, file, document, result>>,
         \/ UNCHANGED runner
         \/ runner = "idle" /\ runner' = "start" /\ host' \notin EarlyPlaces
         \/ runner' = "escaped" /\ host' \notin EarlyPlaces,
         host' \in HostPhases, exit' \in ExitCodes,
         session' \in SessionStatus, task' \in TaskStatus,
         host' \in EarlyPlaces => runner = "idle",
         RowsAtPlace', SuccessSettled'
  PROVE  IInv'
<1>1. Plan' = Plan /\ MayCommit' = MayCommit /\ \A tool : Permits(tool)' = Permits(tool)
  BY PlanConstant
<1>2. runner' = runner \/ runner' \in {"start", "escaped"}
  OBVIOUS
<1>3. TypeOK'
  BY <1>1, <1>2
  DEF IInv, TypeOK, RunnerPhases, ExitCodes, SessionStatus, TaskStatus
<1>4. ProgressAtPlace'
  BY <1>1 DEF IInv, ProgressAtPlace, EarlyPlaces
<1>5. AnswersBehind'
  BY <1>1, <1>2 DEF IInv, AnswersBehind
<1>6. Granted'
  BY <1>1, <1>2 DEF IInv, Granted
<1> QED
  BY <1>3, <1>4, <1>5, <1>6 DEF IInv

LEMMA OpeningKeeps ==
  ASSUME IInv, CreateSession \/ CreateWorkspace \/ StartSession PROVE IInv'
<1>1. /\ UNCHANGED <<cmd, task, runnerVars, exit>>
      /\ host \in {"session", "workspace", "running"}
      /\ host' \in {"workspace", "running", "task"}
      /\ session' \in SessionStatus
  BY DEF CreateSession, CreateWorkspace, StartSession, HostGoes, SessionStatus, IInv, TypeOK
<1>2. RowsAtPlace'
  BY DEF IInv, RowsAtPlace, ExitTellsRows, CreateSession, CreateWorkspace, StartSession,
         HostGoes
<1>3. SuccessSettled'
  BY <1>1 DEF IInv, RowsAtPlace, SuccessSettled
<1> QED
  BY <1>1, <1>2, <1>3, HostMoves
  DEF IInv, TypeOK, HostPhases, EarlyPlaces, ExitCodes, TaskStatus, runnerVars,
      ProgressAtPlace

\* The task row is there and the runner is about to be at work.
LEMMA LaunchKeeps ==
  ASSUME IInv, CreateTask \/ Launch \/ LaunchFails PROVE IInv'
<1>1. /\ UNCHANGED <<cmd, session, exit, step, answered, empty, called, file, document,
                     result>>
      /\ host \in {"task", "launch"} /\ host' \in {"launch", "wait", "fail"}
      /\ runner = "idle" /\ runner' \in {runner, "start"}
      /\ host' = "launch" => UNCHANGED runner
      /\ session' = "running" /\ task' = "queued"
  BY DEF CreateTask, Launch, LaunchFails, HostGoes, IInv, RowsAtPlace, ProgressAtPlace
<1>2. RowsAtPlace'
  BY <1>1 DEF IInv, RowsAtPlace, ExitTellsRows
<1>3. SuccessSettled'
  BY <1>1 DEF SuccessSettled
<1> QED
  BY <1>1, <1>2, <1>3, HostMoves
  DEF IInv, TypeOK, HostPhases, EarlyPlaces, ExitCodes, TaskStatus, SessionStatus

\* The command learns how the runner ended, or gives up.
LEMMA WaitEndsKeeps ==
  ASSUME IInv, BodyReturns \/ RunnerSeen \/ WaitGivesUp PROVE IInv'
<1>1. /\ UNCHANGED <<cmd, session, task, runnerVars>>
      /\ host = "wait" /\ host' \in {"finish", "fail", "done"}
      /\ host' = "done" => exit' = "raised"
      /\ host' # "done" => UNCHANGED exit
      /\ host' = "finish" => /\ cmd.kind \notin Detached => runner = "returned"
                             /\ cmd.kind \in Detached => runner = "exit0"
  <2>1. CASE BodyReturns
    BY <2>1 DEF BodyReturns, HostGoes, Ends
  <2>2. CASE RunnerSeen
    <3>1. runner = "exit0" => cmd.kind \in Detached
      BY DEF IInv, ProgressAtPlace
    <3> QED
      BY <2>2, <3>1 DEF RunnerSeen, HostGoes, Exited
  <2>3. CASE WaitGivesUp
    BY <2>3 DEF WaitGivesUp, HostGoes
  <2> QED
    BY <2>1, <2>2, <2>3
<1>2. RowsAtPlace'
  BY <1>1 DEF IInv, RowsAtPlace, ExitTellsRows
<1>3. SuccessSettled'
  <2>1. Plan' = Plan
    BY <1>1, PlanConstant
  <2> QED
    BY <1>1, <2>1 DEF IInv, RowsAtPlace, ProgressAtPlace, SuccessSettled, runnerVars
<1> QED
  BY <1>1, <1>2, <1>3, HostMoves
  DEF IInv, TypeOK, HostPhases, EarlyPlaces, ExitCodes, runnerVars, TaskStatus, SessionStatus

LEMMA FinalizeKeeps ==
  ASSUME IInv, FinishSucceeded \/ CloseStopped \/ PrintResult \/ FinishFailed \/ CloseFailed
  PROVE  IInv'
<1>1. /\ UNCHANGED <<cmd, runnerVars>>
      /\ host' \in {"close", "print", "done", "failClose"}
      /\ exit' \in ExitCodes /\ session' \in SessionStatus /\ task' \in TaskStatus
      /\ host \in {"finish", "close", "print", "fail", "failClose"}
  BY DEF FinishSucceeded, CloseStopped, PrintResult, FinishFailed, CloseFailed,
         HostGoes, Ends, ExitCodes, SessionStatus, TaskStatus, IInv, TypeOK
<1>2. RowsAtPlace'
  BY DEF FinishSucceeded, CloseStopped, PrintResult, FinishFailed, CloseFailed,
         HostGoes, Ends, IInv, RowsAtPlace, ExitTellsRows
<1>3. SuccessSettled'
  <2>1. host' \in {"finish", "close", "print"} \/ task' = "succeeded" =>
          host \in {"finish", "close", "print"} \/ task = "succeeded"
    BY DEF FinishSucceeded, CloseStopped, PrintResult, FinishFailed, CloseFailed,
           HostGoes, Ends
  <2>2. Plan' = Plan
    BY <1>1, PlanConstant
  <2> QED
    BY <1>1, <2>1, <2>2 DEF IInv, SuccessSettled, runnerVars
<1> QED
  BY <1>1, <1>2, <1>3, HostMoves DEF HostPhases, EarlyPlaces, runnerVars

LEMMA StepRaisesKeeps == ASSUME IInv, StepRaises PROVE IInv'
<1>1. /\ UNCHANGED <<cmd, session, task, runnerVars>>
      /\ host' \in {"fail", "done"} /\ exit' \in ExitCodes
  BY DEF StepRaises, Ends, ExitCodes, IInv, TypeOK
<1>2. RowsAtPlace'
  BY DEF StepRaises, Ends, IInv, RowsAtPlace, ExitTellsRows
<1>3. SuccessSettled'
  <2>1. Plan' = Plan
    BY <1>1, PlanConstant
  <2> QED
    BY <1>1, <2>1 DEF IInv, SuccessSettled, runnerVars
<1> QED
  BY <1>1, <1>2, <1>3, HostMoves
  DEF IInv, TypeOK, HostPhases, EarlyPlaces, runnerVars, TaskStatus, SessionStatus

\* A killed command takes its own thread along and leaves a detached runner.
LEMMA HostKilledKeeps == ASSUME IInv, HostKilled PROVE IInv'
<1>1. /\ UNCHANGED <<cmd, session, task, step, answered, empty, called, file, document,
                     result>>
      /\ host' = "done" /\ exit' = "killed"
      /\ cmd.kind \in Detached => UNCHANGED runner
      /\ cmd.kind \notin Detached => runner' = "escaped"
  BY DEF HostKilled, Ends
<1>2. RowsAtPlace'
  BY <1>1 DEF RowsAtPlace, ExitTellsRows
<1>3. SuccessSettled'
  <2>1. Plan' = Plan
    BY <1>1, PlanConstant
  <2> QED
    BY <1>1, <2>1 DEF IInv, SuccessSettled
<1> QED
  BY <1>1, <1>2, <1>3, HostMoves
  DEF IInv, TypeOK, HostPhases, EarlyPlaces, TaskStatus, SessionStatus, ExitCodes

LEMMA NextIInv == IInv /\ [Next]_vars => IInv'
<1> SUFFICES ASSUME IInv, [Next]_vars PROVE IInv'
  OBVIOUS
<1>1. CASE UNCHANGED vars
  <2>1. UNCHANGED <<cmd, hostVars, runnerVars>>
    BY <1>1 DEF vars
  <2>2. Plan' = Plan
    BY <2>1, PlanConstant
  <2>3. RowsAtPlace' /\ SuccessSettled'
    BY <2>1, <2>2
    DEF IInv, RowsAtPlace, ExitTellsRows, SuccessSettled, hostVars, runnerVars
  <2> QED
    BY <2>1, <2>3, HostMoves
    DEF IInv, TypeOK, ProgressAtPlace, EarlyPlaces, ExitCodes, SessionStatus, TaskStatus,
        hostVars, runnerVars
<1>2. CASE HostStep
  BY <1>2, OpeningKeeps, LaunchKeeps, WaitEndsKeeps, FinalizeKeeps, StepRaisesKeeps
  DEF HostStep
<1> QED
  BY <1>1, <1>2, RunnerKeeps, HostKilledKeeps DEF Next, Over

LEMMA Invariance == Spec => []IInv
BY InitIInv, NextIInv, PTL DEF Spec

-----------------------------------------------------------------------------
(* What the commands promise.                                              *)

\* The state of a command and of its runner has the shape the code gives it.
THEOREM TypeCorrect == Spec => []TypeOK
<1>1. IInv => TypeOK
  BY DEF IInv
<1> QED
  BY <1>1, Invariance, PTL

\* The exit code and the rows agree, also when run-job finalizes twice
\* (cmd_run_job's try and except).
THEOREM ExitIsTrue == Spec => []ExitTellsRows
<1>1. IInv => ExitTellsRows
  BY DEF IInv, RowsAtPlace
<1> QED
  BY <1>1, Invariance, PTL

\* No request without the permission of the configured authority and no digest
\* without its permission to commit, nor for a repository it names and the local
\* policy does not list with the path, for all policies and for targets with or
\* without a repository (pre_tool_use, "fail-closed"; decide_tool_call).
THEOREM FailClosed == Spec => []NothingWithoutAuthority
<1>1. IInv => NothingWithoutAuthority
  <2> SUFFICES ASSUME IInv PROVE NothingWithoutAuthority
    OBVIOUS
  <2>1. \A tool \in called : Permits(tool)
    BY DEF IInv, Granted
  <2>2. ASSUME file, cmd.kind \in Digests PROVE MayCommit
    <3>1. step = Len(Plan) + 1 /\ Len(Plan) \in Nat
      BY <2>2, PlanFacts DEF IInv, ProgressAtPlace, PlanShape
    <3>2. step > Len(Plan)
      BY <3>1
    <3> QED
      BY <2>2, <3>2 DEF IInv, Granted
  <2> QED
    BY <2>1, <2>2 DEF NothingWithoutAuthority
<1> QED
  BY <1>1, Invariance, PTL

\* "succeeded" rests on every required answer, on posts found, on the file and
\* its row and, for a detached runner, on its exit code 0, for any number of
\* queries and whenever the runner answers.
THEOREM SuccessIsEarned == Spec => []SucceededRestsOnEvidence
<1>1. IInv => SucceededRestsOnEvidence
  <2> SUFFICES ASSUME IInv, task = "succeeded"
               PROVE  /\ \A i \in 1..Len(Plan) : Plan[i].mode = "required" => i \in answered
                      /\ cmd.kind \in Digests /\ cmd.mcp =>
                           \E i \in answered \ empty : Plan[i].tool = Search
                      /\ cmd.kind # "xsmoke" => file /\ document
                      /\ cmd.kind \in Detached => runner = "exit0"
    BY DEF SucceededRestsOnEvidence
  <2>1. step = Len(Plan) + 1 /\ Len(Plan) \in Nat
    BY PlanFacts DEF IInv, SuccessSettled, PlanShape
  <2>2. step > Len(Plan) /\ 1..(step - 1) = 1..Len(Plan)
    BY <2>1
  <2> QED
    BY <2>2 DEF IInv, AnswersBehind, SuccessSettled
<1> QED
  BY <1>1, Invariance, PTL

-----------------------------------------------------------------------------
(* The rows implement TaskLifecycle.                                       *)

rowsOf(row) == [k \in Kinds |-> IF k = cmd.kind THEN row ELSE "none"]

\* A new status of the command's own row, in the mapped rows.
LEMMA RowSet ==
  ASSUME NEW from, NEW to, cmd.kind \in Kinds
  PROVE  /\ rowsOf(from)[cmd.kind] = from
         /\ [rowsOf(from) EXCEPT ![cmd.kind] = to] = rowsOf(to)
BY DEF rowsOf

\* The steps of the lifecycle, for the command's own rows.
LEMMA OpenIsLifecycle ==
  ASSUME cmd.kind \in Kinds, UNCHANGED <<cmd, task>>,
         \/ session = "none" /\ session' = "created"
         \/ session = "created" /\ session' = "running"
  PROVE  Lifecycle!Next
<1>1. /\ rowsOf(session)[cmd.kind] = session
      /\ rowsOf(session)' = [rowsOf(session) EXCEPT ![cmd.kind] = session']
      /\ UNCHANGED rowsOf(task)
  BY RowSet DEF rowsOf
<1> QED
  BY <1>1 DEF Lifecycle!Next, Lifecycle!CreateSession, Lifecycle!StartSession,
              Lifecycle!SetSession, rowsOf

LEMMA QueueIsLifecycle ==
  ASSUME cmd.kind \in Kinds, UNCHANGED <<cmd, session>>,
         session = "running", task = "none", task' = "queued"
  PROVE  Lifecycle!Next
<1>1. /\ rowsOf(session)[cmd.kind] = session /\ rowsOf(task)[cmd.kind] = task
      /\ rowsOf(task)' = [rowsOf(task) EXCEPT ![cmd.kind] = task']
      /\ UNCHANGED rowsOf(session)
  BY RowSet DEF rowsOf
<1> QED
  BY <1>1 DEF Lifecycle!Next, Lifecycle!CreateTask, rowsOf

LEMMA FinishIsLifecycle ==
  ASSUME cmd.kind \in Kinds, UNCHANGED <<cmd, session>>, task' \in {"succeeded", "failed"},
         \/ task = "queued"
         \/ cmd.kind \in Digests /\ task = "succeeded" /\ task' = "failed"
  PROVE  Lifecycle!Next
<1>1. /\ rowsOf(task)[cmd.kind] = task
      /\ rowsOf(task)' = [rowsOf(task) EXCEPT ![cmd.kind] = task']
      /\ UNCHANGED rowsOf(session)
  BY RowSet DEF rowsOf
<1> QED
  BY <1>1 DEF Lifecycle!Next, Lifecycle!FinishTask, rowsOf

LEMMA CloseIsLifecycle ==
  ASSUME cmd.kind \in Kinds, UNCHANGED <<cmd, task>>, task \in {"succeeded", "failed"},
         session' = IF task = "succeeded" THEN "stopped" ELSE "failed",
         session = "running" \/ (cmd.kind \in Digests /\ session = "stopped")
  PROVE  Lifecycle!Next
<1>1. /\ rowsOf(task)[cmd.kind] = task /\ rowsOf(session)[cmd.kind] = session
      /\ rowsOf(session)' = [rowsOf(session) EXCEPT ![cmd.kind] = session']
      /\ UNCHANGED rowsOf(task)
  BY RowSet DEF rowsOf
<1> QED
  BY <1>1 DEF Lifecycle!Next, Lifecycle!CloseSession, Lifecycle!SetSession,
              Lifecycle!ClosedAs, rowsOf

\* Every step of the command or of its runner is a step of the lifecycle, or
\* leaves the rows alone.
LEMMA RowsStep ==
  ASSUME IInv, [Next]_vars
  PROVE  Lifecycle!Next \/ UNCHANGED <<rowsOf(session), rowsOf(task)>>
<1> DEFINE rows == <<rowsOf(session), rowsOf(task)>>
<1>1. cmd.kind \in Kinds
  BY DEF IInv, TypeOK, Commands
<1>2. ASSUME UNCHANGED <<cmd, session, task>> PROVE UNCHANGED rows
  BY <1>2 DEF rowsOf
<1>3. CASE RunnerStep \/ RunnerKilled \/ UNCHANGED vars
  <2>1. UNCHANGED <<cmd, hostVars>>
    BY <1>3 DEF RunnerStep, RunnerKilled, vars, Begin, BeginFails, Skip, AskPermission,
       CallAnswered, CallFails, WriteFile, RecordDocument, PrintPayload, WriteResult,
       ReportFailure
  <2> QED
    BY <1>2, <2>1 DEF hostVars
<1>4. CASE CreateSession \/ StartSession
  <2>1. /\ \/ session = "none" /\ session' = "created"
           \/ session = "created" /\ session' = "running"
        /\ UNCHANGED <<cmd, task>>
    BY <1>4 DEF CreateSession, StartSession, HostGoes, IInv, RowsAtPlace
  <2> QED
    BY <1>1, <2>1, OpenIsLifecycle
<1>5. CASE CreateTask
  <2>1. /\ session = "running" /\ task = "none" /\ task' = "queued"
        /\ UNCHANGED <<cmd, session>>
    BY <1>5 DEF CreateTask, HostGoes, IInv, RowsAtPlace
  <2> QED
    BY <1>1, <2>1, QueueIsLifecycle
<1>6. CASE FinishSucceeded \/ FinishFailed
  <2>1. /\ UNCHANGED <<cmd, session>> /\ task' \in {"succeeded", "failed"}
        /\ \/ task = "queued"
           \/ cmd.kind \in Digests /\ task = "succeeded" /\ task' = "failed"
    BY <1>6 DEF FinishSucceeded, FinishFailed, HostGoes, IInv, RowsAtPlace
  <2> QED
    BY <1>1, <2>1, FinishIsLifecycle
<1>7. CASE CloseStopped \/ CloseFailed
  <2>1. /\ UNCHANGED <<cmd, task>> /\ task \in {"succeeded", "failed"}
        /\ session' = IF task = "succeeded" THEN "stopped" ELSE "failed"
        /\ session = "running" \/ (cmd.kind \in Digests /\ session = "stopped")
    BY <1>7 DEF CloseStopped, CloseFailed, HostGoes, IInv, RowsAtPlace
  <2> QED
    BY <1>1, <2>1, CloseIsLifecycle
<1>8. CASE \/ CreateWorkspace \/ Launch \/ LaunchFails \/ BodyReturns \/ RunnerSeen
           \/ WaitGivesUp \/ PrintResult \/ StepRaises \/ HostKilled
  <2>1. UNCHANGED <<cmd, session, task>>
    BY <1>8 DEF CreateWorkspace, Launch, LaunchFails, BodyReturns, RunnerSeen, WaitGivesUp,
       PrintResult, StepRaises, HostKilled
  <2> QED
    BY <1>2, <2>1
<1> QED
  BY <1>3, <1>4, <1>5, <1>6, <1>7, <1>8 DEF Next, HostStep, Over

\* The rows every command writes follow the lifecycle the tables promise: a
\* task is finished once, only run-job takes a success back, and a session is
\* closed after its task and to match it (db/repository.py, cmd_run_job).
THEOREM RowsImplementLifecycle == Spec => RowsFollowLifecycle
<1>1. Init => Lifecycle!Init
  BY DEF Init, Lifecycle!Init
<1>2. IInv /\ [Next]_vars => [Lifecycle!Next]_<<rowsOf(session), rowsOf(task)>>
  BY RowsStep
<1> QED
  BY <1>1, <1>2, Invariance, PTL
  DEF Spec, RowsFollowLifecycle, Lifecycle!Spec, rowsOf

=============================================================================
