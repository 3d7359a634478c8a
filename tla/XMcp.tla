-------------------------------- MODULE XMcp --------------------------------
(***************************************************************************)
(* services/auth-proxy/internal/xmcp on top of the session store: POST     *)
(* /session/issue mints a role-bound token, POST /mcp authorizes it, asks  *)
(* the policy, charges the token's call budget and calls the tool.         *)
(* Each request is served by its own goroutine; the store may change       *)
(* between the lookup that authorizes a request and the charge it makes.   *)
(***************************************************************************)
EXTENDS SessionStore

CONSTANTS
  Requests,        \* goroutines serving /mcp
  Tools,           \* tool names a caller may ask for
  Mounted,         \* the tools this handler serves (built-in and extra)
  KnownRoles,      \* the roles with a policy; a token may be issued for others
  AllowTools,      \* AllowTools[r]: the tools r's allow patterns match
  DenyTools,       \* DenyTools[r]: the tools r's deny patterns match
  HasPolicyEngine, \* WithSession was given an engine
  MaxCalls,        \* bound: a token charged this often is not presented again
  Static,          \* AUTH_PROXY_SESSION_TOKEN
  Admin            \* the empty role the static token resolves to

NoTool == "none"

ASSUME XMcpAssumption ==
  /\ Mounted \subseteq Tools
  /\ KnownRoles \subseteq Roles
  /\ AllowTools \in [KnownRoles -> SUBSET Tools]
  /\ DenyTools \in [KnownRoles -> SUBSET Tools]
  /\ HasPolicyEngine \in BOOLEAN
  /\ MaxCalls \in Nat
  /\ NoTool \notin Tools
  /\ Static \notin Tokens
  /\ Admin \notin Roles

VARIABLES
  req,        \* the state of each request's goroutine
  dispatched  \* history: the calls that reached a tool on a minted token

vars == <<storeVars, req, dispatched>>

\* Mutant: the deny patterns are not looked at.
DecideAllowFirst(role, tool) ==
  /\ role \in KnownRoles
  /\ tool \in AllowTools[role]

\* policy.Engine.Decide: deny wins, and what is not allowed is blocked.
Decide(role, tool) ==
  /\ role \in KnownRoles
  /\ tool \notin DenyTools[role]
  /\ tool \in AllowTools[role]

Stages  == {"idle", "authorized", "charging", "dispatching", "done"}
Replies == {"none", "unauthorized", "other method", "unknown tool",
            "not permitted", "cap exceeded", "result"}

\* ticket: the value of the token's call counter that a charge returned with.
Goroutine == [stage : Stages, token : Tokens \cup {Static},
              role : Roles \cup {Admin}, tool : Tools \cup {NoTool},
              reply : Replies, ticket : Nat]

Call == [token : Tokens, role : Roles, tool : Tools, ticket : Nat]

TypeOK ==
  /\ StoreTypeOK
  /\ req \in [Requests -> Goroutine]
  /\ dispatched \in Seq(Call)

Idle == [stage |-> "idle", token |-> Static, role |-> Admin, tool |-> NoTool,
         reply |-> "none", ticket |-> 0]

Init ==
  /\ StoreInit
  /\ req = [r \in Requests |-> Idle]
  /\ dispatched = <<>>

-----------------------------------------------------------------------------

\* Mutant: a request without a role is not refused.
IssueWithoutRole(t, role) ==
  /\ Issue(t, Admin)
  /\ UNCHANGED <<req, dispatched>>

\* POST /session/issue: only the static token may mint, and only for a role.
SessionIssue(t, role) ==
  /\ Issue(t, role)
  /\ UNCHANGED <<req, dispatched>>

\* Mutant: an unknown token resolves to the empty role and is let through.
AuthorizeUnchecked(r, t, tool) ==
  /\ req[r].stage = "idle"
  /\ t \in DOMAIN issued \cup {Static}
  /\ t \in DOMAIN entries => entries[t].calls < MaxCalls
  /\ req' = [req EXCEPT ![r] =
       [stage |-> "authorized", token |-> t, tool |-> tool, reply |-> "none", ticket |-> 0,
        role |-> IF t = Static \/ ~Live(t) THEN Admin ELSE entries[t].role]]
  /\ IF t = Static THEN UNCHANGED storeVars ELSE Resolve(t)
  /\ UNCHANGED dispatched

\* authorizeToken.  The static token is compared first and never looked up;
\* a token that was issued once may be presented at any later time.
Authorize(r, t, tool) ==
  /\ req[r].stage = "idle"
  /\ t \in DOMAIN issued \cup {Static}
  /\ t \in DOMAIN entries => entries[t].calls < MaxCalls
  /\ LET ok   == t = Static \/ Live(t)
         role == IF t = Static \/ ~Live(t) THEN Admin ELSE entries[t].role
     IN  req' = [req EXCEPT ![r] =
           [stage |-> IF ok THEN "authorized" ELSE "done",
            token |-> t, role |-> role, tool |-> tool,
            reply |-> IF ok THEN "none" ELSE "unauthorized", ticket |-> 0]]
  /\ IF t = Static THEN UNCHANGED storeVars ELSE Resolve(t)
  /\ UNCHANGED dispatched

Answer(r, reply) == req' = [req EXCEPT ![r].stage = "done", ![r].reply = reply]

\* The methods of handlePost other than tools/call (and a body that does not
\* parse): they are answered from the role alone and change nothing.
HandleOther(r) ==
  /\ req[r].stage = "authorized"
  /\ Answer(r, "other method")
  /\ UNCHANGED <<storeVars, dispatched>>

\* handleToolsCall up to the charge.
HandleToolsCall(r) ==
  /\ req[r].stage = "authorized"
  /\ LET role == req[r].role
         tool == req[r].tool
     IN  \/ tool \notin Mounted /\ Answer(r, "unknown tool")
         \/ /\ tool \in Mounted
            /\ role # Admin
            /\ ~(HasPolicyEngine /\ Decide(role, tool))
            /\ Answer(r, "not permitted")
         \/ /\ tool \in Mounted
            /\ role # Admin
            /\ HasPolicyEngine /\ Decide(role, tool)
            /\ req' = [req EXCEPT ![r].stage = "charging"]
         \/ /\ tool \in Mounted
            /\ role = Admin
            /\ req' = [req EXCEPT ![r].stage = "dispatching"]
  /\ UNCHANGED <<storeVars, dispatched>>

\* A charge is refused for a spent budget and for a token that expired, was
\* swept or was lost since it was authorized; the answer is the same.
HandleCharge(r) ==
  /\ req[r].stage = "charging"
  /\ LET t == req[r].token
     IN  /\ IF WithinBudget(t)
              THEN req' = [req EXCEPT ![r].stage = "dispatching",
                                      ![r].ticket = entries[t].calls + 1]
              ELSE Answer(r, "cap exceeded")
         /\ Charge(t)
  /\ UNCHANGED dispatched

\* callTool: the upstream request and the answer.
CallTool(r) ==
  /\ req[r].stage = "dispatching"
  /\ dispatched' =
       IF req[r].role = Admin THEN dispatched
       ELSE Append(dispatched, [token |-> req[r].token, role |-> req[r].role,
                                tool |-> req[r].tool, ticket |-> req[r].ticket])
  /\ Answer(r, "result")
  /\ UNCHANGED storeVars

\* The connection ends and the goroutine serves the next request.
NextRequest(r) ==
  /\ req[r].stage = "done"
  /\ req' = [req EXCEPT ![r] = Idle]
  /\ UNCHANGED <<storeVars, dispatched>>

\* gitrelay authorizes with the same store (Valid), without charging.
GitAuthorize(t) ==
  /\ t \in DOMAIN issued
  /\ Known(t) /\ Expired(t)
  /\ Resolve(t)
  /\ UNCHANGED <<req, dispatched>>

SweepLoop == Sweep /\ UNCHANGED <<req, dispatched>>

TimePasses == Tick /\ UNCHANGED <<req, dispatched>>

\* A restart ends the requests being served.
Restart ==
  /\ entries # NoEntries
  /\ LoseEntries
  /\ req' = [r \in Requests |-> Idle]
  /\ UNCHANGED dispatched

Next ==
  \/ \E t \in Tokens, role \in Roles : SessionIssue(t, role)
  \/ \E r \in Requests, t \in Tokens \cup {Static}, tool \in Tools :
       Authorize(r, t, tool)
  \/ \E r \in Requests : \/ HandleOther(r) \/ HandleToolsCall(r)
                         \/ HandleCharge(r) \/ CallTool(r) \/ NextRequest(r)
  \/ \E t \in Tokens : GitAuthorize(t)
  \/ SweepLoop
  \/ TimePasses
  \/ Restart

Spec == Init /\ [][Next]_vars

-----------------------------------------------------------------------------
(* Properties.                                                             *)

\* The hard cap of ADR-028: however requests interleave, expire or are retried,
\* a minted token pays for at most CallCap tool calls.  Every call was made on a
\* ticket of its own, numbered within the cap.
TicketsWithinCap ==
  /\ \A i \in DOMAIN dispatched : dispatched[i].ticket \in 1..CallCap
  /\ \A i, j \in DOMAIN dispatched :
       i # j /\ dispatched[i].token = dispatched[j].token
         => dispatched[i].ticket # dispatched[j].ticket

\* Role and tool of every dispatched call: the role is the one the token was
\* issued for, and the policy allows that role the tool (handleToolsCall).
DispatchPermitted ==
  \A i \in DOMAIN dispatched :
    LET c == dispatched[i]
    IN  /\ c.token \in DOMAIN issued
        /\ c.role = issued[c.token].role
        /\ HasPolicyEngine /\ c.tool \in Mounted
        /\ c.role \in KnownRoles
        /\ c.tool \in AllowTools[c.role] \ DenyTools[c.role]

\* A request never acts with more than the role of the token it presented: the
\* unfiltered path is the static token's alone.
AdminOnlyByStaticToken ==
  \A r \in Requests :
    req[r].stage \in {"authorized", "charging", "dispatching"} =>
      (req[r].role = Admin) = (req[r].token = Static)

\* No budget is spent after the expiry: a step that lets a call through happens
\* within the token's lifetime (Charge checks again what Resolve checked).
ChargedWhileLive ==
  [][\A r \in Requests :
       req[r].stage = "charging" /\ req'[r].stage = "dispatching"
         => time <= issued[req[r].token].expiresAt]_vars

\* "cap exceeded" is answered only when the token's budget is spent or the
\* token is no longer there to charge.
CapReplyJustified ==
  \A r \in Requests :
    req[r].stage = "done" /\ req[r].reply = "cap exceeded" =>
      \/ req[r].token \notin DOMAIN entries
      \/ entries[req[r].token].calls > CallCap

-----------------------------------------------------------------------------
(* The inductive invariant behind the properties.                          *)

\* A request past the lookup carries the role its token was issued with, and one
\* past handleToolsCall a tool that the policy allows that role.
RequestsAuthorized ==
  \A r \in Requests :
    /\ req[r].stage \in {"authorized", "charging", "dispatching"} =>
         /\ req[r].tool \in Tools
         /\ req[r].role # Admin =>
              /\ req[r].token \in DOMAIN issued
              /\ req[r].role = issued[req[r].token].role
    /\ req[r].stage = "charging" => req[r].role # Admin
    /\ req[r].stage \in {"charging", "dispatching"} /\ req[r].role # Admin =>
         /\ HasPolicyEngine /\ req[r].tool \in Mounted
         /\ Decide(req[r].role, req[r].tool)
    /\ req[r].stage = "done" /\ req[r].reply = "cap exceeded" =>
         req[r].token \in DOMAIN issued

\* r was charged and has not called its tool yet.
Holding(r) == req[r].stage = "dispatching" /\ req[r].role # Admin

\* A ticket is one the token's counter has passed, and no two are the same,
\* whether they were used or are still held.
TicketsDistinct ==
  /\ \A r \in Requests : Holding(r) =>
       /\ req[r].ticket \in 1..CallCap
       /\ Known(req[r].token) => req[r].ticket <= entries[req[r].token].calls
       /\ \A q \in Requests :
            q # r /\ Holding(q) /\ req[q].token = req[r].token =>
              req[q].ticket # req[r].ticket
       /\ \A i \in DOMAIN dispatched :
            dispatched[i].token = req[r].token => dispatched[i].ticket # req[r].ticket
  /\ \A i \in DOMAIN dispatched :
       Known(dispatched[i].token) =>
         dispatched[i].ticket <= entries[dispatched[i].token].calls

IInv ==
  /\ TypeOK
  /\ EntriesAsIssued
  /\ RequestsAuthorized
  /\ AdminOnlyByStaticToken
  /\ DispatchPermitted
  /\ TicketsWithinCap
  /\ TicketsDistinct
  /\ CapReplyJustified

=============================================================================
