----------------------------- MODULE XMcpProofs -----------------------------
(***************************************************************************)
(* Proofs about the session store and the MCP endpoint, for any number of  *)
(* requests, tokens, roles and tools, every cap, lifetime and policy.      *)
(* The store's operations are reduced to one fact, StoreAdvances; what a   *)
(* handler does to its own request is then argued from that fact alone.    *)
(***************************************************************************)
EXTENDS XMcp, FiniteSetTheorems, TLAPS

LEMMA StaysAbove == \A a, b, c \in Nat : a <= b /\ a > c => b > c
OBVIOUS

USE StoreAssumption, XMcpAssumption

IssuedRecord == [role : Roles, expiresAt : Nat]

\* What every step does to the store: history is kept, a token that was issued
\* does not come back once its entry is gone, and no counter goes down.
StoreAdvances ==
  /\ \A t \in DOMAIN issued : t \in DOMAIN issued' /\ issued'[t] = issued[t]
  /\ \A t \in DOMAIN issued :
       t \in DOMAIN entries' =>
         t \in DOMAIN entries /\ entries[t].calls <= entries'[t].calls

StoreInv == StoreTypeOK /\ EntriesAsIssued

-----------------------------------------------------------------------------
(* The maps of the store.                                                  *)

\* The counters after a step.
LEMMA NextCalls ==
  ASSUME StoreInv' PROVE \A t \in DOMAIN entries' : entries'[t].calls \in Nat
<1>1. PICK D \in SUBSET Tokens : entries' \in [D -> Entry]
  BY DEF StoreInv, StoreTypeOK
<1> QED
  BY <1>1 DEF Entry

LEMMA WithType ==
  ASSUME NEW S, NEW D \in SUBSET Tokens, NEW m \in [D -> S], NEW t \in Tokens, NEW e \in S
  PROVE  /\ With(m, t, e) \in [D \cup {t} -> S]
         /\ D \cup {t} \in SUBSET Tokens
BY DEF With

LEMMA WithoutType ==
  ASSUME NEW S, NEW D \in SUBSET Tokens, NEW m \in [D -> S], NEW gone
  PROVE  /\ Without(m, gone) \in [D \ gone -> S]
         /\ D \ gone \in SUBSET Tokens
BY DEF Without

\* The type of the store, at one token.
LEMMA StoreTyped ==
  ASSUME StoreTypeOK
  PROVE  /\ time \in Nat
         /\ DOMAIN entries \in SUBSET Tokens
         /\ entries \in [DOMAIN entries -> Entry]
         /\ \A t \in DOMAIN entries : /\ entries[t].calls \in Nat
                                      /\ entries[t].expiresAt \in Nat
                                      /\ entries[t].role \in Roles
         /\ DOMAIN issued \in SUBSET Tokens
         /\ issued \in [DOMAIN issued -> IssuedRecord]
         /\ \A t \in DOMAIN issued : /\ issued[t].role \in Roles
                                     /\ issued[t].expiresAt \in Nat
<1>1. PICK D \in SUBSET Tokens : entries \in [D -> Entry]
  BY DEF StoreTypeOK
<1>2. PICK E \in SUBSET Tokens : issued \in [E -> IssuedRecord]
  BY DEF StoreTypeOK, IssuedRecord
<1>3. D = DOMAIN entries /\ E = DOMAIN issued
  BY <1>1, <1>2
<1>4. time \in Nat
  BY DEF StoreTypeOK
<1>5. /\ \A t \in DOMAIN entries : entries[t] \in Entry
      /\ \A t \in DOMAIN issued : issued[t] \in IssuedRecord
  BY <1>1, <1>2, <1>3
<1> QED
  BY <1>1, <1>2, <1>3, <1>4, <1>5 DEF Entry, IssuedRecord

\* The entries that a step leaves alone or drops.
LEMMA DropKeeps ==
  ASSUME StoreInv, NEW gone, entries' = Without(entries, gone), UNCHANGED issued,
         time' \in Nat
  PROVE  StoreInv' /\ StoreAdvances
<1>1. Without(entries, gone) \in [DOMAIN entries \ gone -> Entry]
      /\ DOMAIN entries \ gone \in SUBSET Tokens
  BY StoreTyped, WithoutType DEF StoreInv
<1>2. StoreTypeOK'
  BY <1>1, StoreTyped DEF StoreInv, StoreTypeOK, IssuedRecord
<1>3. \A t \in DOMAIN entries' : t \in DOMAIN entries /\ entries'[t] = entries[t]
  BY DEF Without
<1> QED
  BY <1>2, <1>3, StoreTyped DEF StoreInv, EntriesAsIssued, StoreAdvances

LEMMA SameKeeps ==
  ASSUME StoreInv, UNCHANGED <<entries, issued>>, time' \in Nat
  PROVE  StoreInv' /\ StoreAdvances
BY StoreTyped DEF StoreInv, StoreTypeOK, EntriesAsIssued, StoreAdvances

LEMMA LookupKeeps ==
  ASSUME StoreInv, NEW t, entries' = AfterLookup(t), UNCHANGED <<time, issued>>
  PROVE  StoreInv' /\ StoreAdvances
<1>1. time' \in Nat
  BY StoreTyped DEF StoreInv
<1>2. CASE Known(t) /\ Expired(t)
  BY <1>1, <1>2, DropKeeps DEF AfterLookup
<1>3. CASE ~(Known(t) /\ Expired(t))
  BY <1>1, <1>3, SameKeeps DEF AfterLookup
<1> QED
  BY <1>2, <1>3

LEMMA IssueKeeps ==
  ASSUME StoreInv, NEW t \in Tokens, NEW role \in Roles, Issue(t, role)
  PROVE  StoreInv' /\ StoreAdvances
<1> DEFINE e == [role |-> role, expiresAt |-> time + TTL, calls |-> 0]
           h == [role |-> role, expiresAt |-> time + TTL]
<1>1. e \in Entry /\ h \in IssuedRecord
  BY StoreTyped DEF StoreInv, Entry, IssuedRecord
<1>2. entries' = With(entries, t, e) /\ issued' = With(issued, t, h) /\ time' = time
  BY DEF Issue
<1>3. t \notin DOMAIN issued /\ t \notin DOMAIN entries
  BY DEF Issue, StoreInv, EntriesAsIssued
<1>4. e.role = h.role /\ e.expiresAt = h.expiresAt
  OBVIOUS
<1> HIDE DEF e, h
<1>5. StoreTypeOK'
  <2>1. entries' \in [DOMAIN entries \cup {t} -> Entry]
        /\ DOMAIN entries \cup {t} \in SUBSET Tokens
    BY <1>1, <1>2, StoreTyped, WithType DEF StoreInv
  <2>2. issued' \in [DOMAIN issued \cup {t} -> IssuedRecord]
        /\ DOMAIN issued \cup {t} \in SUBSET Tokens
    BY <1>1, <1>2, StoreTyped, WithType DEF StoreInv
  <2> QED
    BY <1>2, <2>1, <2>2, StoreTyped DEF StoreInv, StoreTypeOK, IssuedRecord
<1>6. /\ DOMAIN entries' = DOMAIN entries \cup {t}
      /\ DOMAIN issued' = DOMAIN issued \cup {t}
      /\ entries'[t] = e /\ issued'[t] = h
      /\ \A u \in DOMAIN entries : u # t /\ entries'[u] = entries[u]
      /\ \A u \in DOMAIN issued : u # t /\ issued'[u] = issued[u]
  BY <1>2, <1>3 DEF With
<1>7. EntriesAsIssued'
  BY <1>4, <1>6 DEF StoreInv, EntriesAsIssued
<1>8. StoreAdvances
  BY <1>6, StoreTyped DEF StoreInv, StoreAdvances
<1> QED
  BY <1>5, <1>7, <1>8 DEF StoreInv

\* A charge counts, on a token that is there and has not expired.
LEMMA ChargeCounts ==
  ASSUME StoreInv, NEW t, Charge(t), Live(t)
  PROVE  /\ DOMAIN entries' = DOMAIN entries
         /\ entries'[t].calls = entries[t].calls + 1
         /\ entries'[t].role = entries[t].role
         /\ entries'[t].expiresAt = entries[t].expiresAt
         /\ entries'[t] \in Entry
         /\ \A u \in DOMAIN entries : u # t => entries'[u] = entries[u]
<1> DEFINE e == [entries[t] EXCEPT !.calls = @ + 1]
<1>1. t \in DOMAIN entries
  BY DEF Live, Known
<1>2. entries[t] \in Entry
  BY <1>1, StoreTyped DEF StoreInv
<1>3. /\ e \in Entry
      /\ e.calls = entries[t].calls + 1
      /\ e.role = entries[t].role
      /\ e.expiresAt = entries[t].expiresAt
  BY <1>2 DEF Entry
<1>4. entries' = With(entries, t, e)
  BY DEF Charge
<1> HIDE DEF e
<1> QED
  BY <1>1, <1>3, <1>4 DEF With

LEMMA ChargeKeeps ==
  ASSUME StoreInv, NEW t, Charge(t)
  PROVE  StoreInv' /\ StoreAdvances
<1>1. CASE ~Live(t)
  BY <1>1, LookupKeeps DEF Charge
<1>2. CASE Live(t)
  <2>1. t \in DOMAIN entries /\ UNCHANGED <<time, issued>>
    BY <1>2 DEF Live, Known, Charge
  <2>2. \A u \in DOMAIN entries : entries'[u] \in Entry
    BY <1>2, ChargeCounts, StoreTyped DEF StoreInv
  <2>3. entries' \in [DOMAIN entries -> Entry]
    <3>1. entries' = With(entries, t, [entries[t] EXCEPT !.calls = @ + 1])
      BY <1>2 DEF Charge
    <3>2. entries' = [u \in DOMAIN entries' |-> entries'[u]]
      BY <3>1 DEF With
    <3> QED
      BY <1>2, <2>2, <3>2, ChargeCounts
  <2>4. StoreTypeOK'
    BY <2>1, <2>3, StoreTyped DEF StoreInv, StoreTypeOK, IssuedRecord
  <2>5. EntriesAsIssued'
    BY <1>2, <2>1, ChargeCounts DEF StoreInv, EntriesAsIssued
  <2>6. StoreAdvances
    BY <1>2, <2>1, ChargeCounts, StoreTyped DEF StoreInv, StoreAdvances
  <2> QED
    BY <2>4, <2>5, <2>6 DEF StoreInv
<1> QED
  BY <1>1, <1>2

LEMMA SweepKeeps == ASSUME StoreInv, Sweep PROVE StoreInv' /\ StoreAdvances
<1>1. time' \in Nat
  BY StoreTyped DEF StoreInv, Sweep
<1> QED
  BY <1>1, DropKeeps DEF Sweep

LEMMA TickKeeps == ASSUME StoreInv, Tick PROVE StoreInv' /\ StoreAdvances
<1>1. time' \in Nat
  BY StoreTyped DEF StoreInv, Tick
<1> QED
  BY <1>1, SameKeeps DEF Tick

LEMMA LoseKeeps == ASSUME StoreInv, LoseEntries PROVE StoreInv' /\ StoreAdvances
<1>1. DOMAIN entries' = {} /\ entries' \in [{} -> Entry]
  BY DEF LoseEntries, NoEntries
<1> QED
  BY <1>1, StoreTyped
  DEF LoseEntries, StoreInv, StoreTypeOK, EntriesAsIssued, StoreAdvances, IssuedRecord

-----------------------------------------------------------------------------
(* Requests.                                                               *)

\* The clauses of the invariant that speak of one request.
RequestOK(r) ==
  /\ req[r].stage \in {"authorized", "charging", "dispatching"} =>
       /\ req[r].tool \in Tools
       /\ (req[r].role = Admin) = (req[r].token = Static)
       /\ req[r].role # Admin =>
            /\ req[r].token \in DOMAIN issued
            /\ req[r].role = issued[req[r].token].role
  /\ req[r].stage = "charging" => req[r].role # Admin
  /\ req[r].stage \in {"charging", "dispatching"} /\ req[r].role # Admin =>
       /\ HasPolicyEngine /\ req[r].tool \in Mounted
       /\ Decide(req[r].role, req[r].tool)
  /\ req[r].stage = "done" /\ req[r].reply = "cap exceeded" =>
       /\ req[r].token \in DOMAIN issued
       /\ \/ req[r].token \notin DOMAIN entries
          \/ entries[req[r].token].calls > CallCap

LEMMA RequestClauses ==
  RequestsAuthorized /\ AdminOnlyByStaticToken /\ CapReplyJustified
    <=> \A r \in Requests : RequestOK(r)
BY DEF RequestsAuthorized, AdminOnlyByStaticToken, CapReplyJustified, RequestOK

\* The state as the handlers find it.
LEMMA Typed ==
  ASSUME IInv
  PROVE  /\ StoreInv
         /\ \A r \in Requests : req[r] \in Goroutine /\ RequestOK(r)
         /\ dispatched \in Seq(Call)
BY RequestClauses DEF IInv, TypeOK, StoreInv

\* Whatever the store does, a request that makes no step stays as good as it was.
LEMMA RequestStays ==
  ASSUME IInv, StoreInv', StoreAdvances, NEW q \in Requests, req'[q] = req[q]
  PROVE  RequestOK(q)'
<1>1. RequestOK(q)
  BY Typed
<1>2. req[q].token \in DOMAIN issued =>
        /\ req[q].token \in DOMAIN issued'
        /\ issued'[req[q].token] = issued[req[q].token]
        /\ req[q].token \in DOMAIN entries' =>
             /\ req[q].token \in DOMAIN entries
             /\ entries[req[q].token].calls <= entries'[req[q].token].calls
  BY DEF StoreAdvances
<1>3. req[q].token \in DOMAIN entries => entries[req[q].token].calls \in Nat
  BY StoreTyped, Typed DEF StoreInv
<1>4. req[q].token \in DOMAIN entries' => entries'[req[q].token].calls \in Nat
  BY NextCalls
<1>5. req[q].stage = "done" /\ req[q].reply = "cap exceeded" =>
        /\ req[q].token \in DOMAIN issued'
        /\ \/ req[q].token \notin DOMAIN entries'
           \/ entries'[req[q].token].calls > CallCap
  <2> SUFFICES ASSUME req[q].stage = "done", req[q].reply = "cap exceeded",
                      req[q].token \in DOMAIN entries'
               PROVE  entries'[req[q].token].calls > CallCap
    BY <1>1, <1>2 DEF RequestOK
  <2>1. /\ req[q].token \in DOMAIN entries
        /\ entries[req[q].token].calls <= entries'[req[q].token].calls
        /\ entries[req[q].token].calls > CallCap
    BY <1>1, <1>2 DEF RequestOK
  <2>2. CallCap \in Nat
    OBVIOUS
  <2>3. entries[req[q].token].calls \in Nat /\ entries'[req[q].token].calls \in Nat
    BY <1>3, <1>4, <2>1
  <2> QED
    BY <2>1, <2>2, <2>3, StaysAbove, Zenon
<1>6. req[q].stage \in {"authorized", "charging", "dispatching"} =>
        /\ req[q].tool \in Tools
        /\ (req[q].role = Admin) = (req[q].token = Static)
        /\ req[q].role # Admin =>
             /\ req[q].token \in DOMAIN issued'
             /\ req[q].role = issued'[req[q].token].role
  BY <1>1, <1>2 DEF RequestOK
<1> QED
  BY <1>1, <1>5, <1>6 DEF RequestOK

\* The calls made so far, while no call is made.
LEMMA HistoryStays ==
  ASSUME IInv, StoreInv', StoreAdvances, UNCHANGED dispatched
  PROVE  /\ DispatchPermitted' /\ TicketsWithinCap'
         /\ \A i \in DOMAIN dispatched' :
              Known(dispatched[i].token)' =>
                dispatched'[i].ticket <= entries'[dispatched'[i].token].calls
<1>1. TicketsWithinCap'
  BY DEF IInv, TicketsWithinCap
<1>2. ASSUME NEW i \in DOMAIN dispatched
      PROVE  /\ dispatched[i].token \in DOMAIN issued
             /\ dispatched[i].token \in DOMAIN issued'
             /\ issued'[dispatched[i].token] = issued[dispatched[i].token]
  BY DEF IInv, DispatchPermitted, StoreAdvances
<1>3. DispatchPermitted'
  BY <1>2 DEF IInv, DispatchPermitted
<1>4. ASSUME NEW i \in DOMAIN dispatched, dispatched[i].token \in DOMAIN entries'
      PROVE  dispatched[i].ticket <= entries'[dispatched[i].token].calls
  <2>1. /\ dispatched[i].token \in DOMAIN entries
        /\ entries[dispatched[i].token].calls <= entries'[dispatched[i].token].calls
    BY <1>2, <1>4 DEF StoreAdvances
  <2>2. dispatched[i].ticket <= entries[dispatched[i].token].calls
    BY <2>1 DEF IInv, TicketsDistinct, Known
  <2>3. dispatched[i].ticket \in Nat
    BY DEF IInv, TicketsWithinCap
  <2>4. entries[dispatched[i].token].calls \in Nat
    BY <2>1, Typed, StoreTyped DEF StoreInv
  <2>5. entries'[dispatched[i].token].calls \in Nat
    BY <1>4, NextCalls
  <2> QED
    BY <2>1, <2>2, <2>3, <2>4, <2>5
<1> QED
  BY <1>1, <1>3, <1>4 DEF Known

\* A ticket in hand stays covered by its token's counter.
LEMMA TicketStays ==
  ASSUME IInv, StoreInv', StoreAdvances, NEW q \in Requests, Holding(q)
  PROVE  /\ req[q].ticket \in 1..CallCap
         /\ req[q].token \in DOMAIN entries' =>
              req[q].ticket <= entries'[req[q].token].calls
<1>1. req[q].ticket \in 1..CallCap
  BY DEF IInv, TicketsDistinct
<1> SUFFICES ASSUME req[q].token \in DOMAIN entries'
             PROVE  req[q].ticket <= entries'[req[q].token].calls
  BY <1>1
<1>2. req[q].token \in DOMAIN issued
  BY Typed DEF Holding, RequestOK
<1>3. /\ req[q].token \in DOMAIN entries
      /\ entries[req[q].token].calls <= entries'[req[q].token].calls
  BY <1>2 DEF StoreAdvances
<1>4. req[q].ticket <= entries[req[q].token].calls
  BY <1>3 DEF IInv, TicketsDistinct, Known
<1>5. entries[req[q].token].calls \in Nat
  BY <1>3, Typed, StoreTyped DEF StoreInv
<1>6. entries'[req[q].token].calls \in Nat
  BY NextCalls
<1> QED
  BY <1>1, <1>3, <1>4, <1>5, <1>6

\* A step of one request that takes no ticket and makes no call.
LEMMA OneRequestStep ==
  ASSUME IInv, StoreInv', StoreAdvances, UNCHANGED dispatched,
         NEW r \in Requests, NEW g \in Goroutine, req' = [req EXCEPT ![r] = g],
         RequestOK(r)', ~Holding(r)'
  PROVE  IInv'
<1>1. TypeOK' /\ EntriesAsIssued'
  BY DEF IInv, TypeOK, StoreInv
<1>2. \A q \in Requests : q # r => req'[q] = req[q]
  BY DEF IInv, TypeOK
<1>3. \A q \in Requests : RequestOK(q)'
  BY <1>2, RequestStays
<1>4. (RequestsAuthorized /\ AdminOnlyByStaticToken /\ CapReplyJustified)'
  BY <1>3
  DEF RequestsAuthorized, AdminOnlyByStaticToken, CapReplyJustified, RequestOK
<1>5. \A q \in Requests : Holding(q)' => q # r /\ Holding(q) /\ req'[q] = req[q]
  BY <1>2 DEF Holding
<1>6. TicketsDistinct'
  <2>1. ASSUME NEW q \in Requests, Holding(q)'
        PROVE  /\ req'[q].ticket \in 1..CallCap
               /\ Known(req[q].token)' => req'[q].ticket <= entries'[req'[q].token].calls
    BY <1>5, <2>1, TicketStays DEF Known
  <2>2. ASSUME NEW q \in Requests, Holding(q)', NEW p \in Requests, p # q, Holding(p)',
               req'[p].token = req'[q].token
        PROVE  req'[p].ticket # req'[q].ticket
    BY <1>5, <2>2 DEF IInv, TicketsDistinct
  <2>3. ASSUME NEW q \in Requests, Holding(q)', NEW i \in DOMAIN dispatched',
               dispatched'[i].token = req'[q].token
        PROVE  dispatched'[i].ticket # req'[q].ticket
    BY <1>5, <2>3 DEF IInv, TicketsDistinct
  <2> QED
    BY <2>1, <2>2, <2>3, HistoryStays DEF TicketsDistinct
<1> QED
  BY <1>1, <1>4, <1>6, HistoryStays DEF IInv

-----------------------------------------------------------------------------
(* One lemma per action.                                                   *)

LEMMA InitIInv == Init => IInv
<1> SUFFICES ASSUME Init PROVE IInv
  OBVIOUS
<1>1. DOMAIN entries = {} /\ DOMAIN issued = {} /\ DOMAIN dispatched = {}
  BY DEF Init, StoreInit, NoEntries
<1>2. \A r \in Requests : req[r] = Idle
  BY DEF Init
<1>3. /\ Idle \in Goroutine
      /\ Idle.stage = "idle"
  BY DEF Idle, Goroutine, Stages, Replies
<1>4. TypeOK
  <2>1. entries \in [{} -> Entry] /\ issued \in [{} -> [role : Roles, expiresAt : Nat]]
    BY DEF Init, StoreInit, NoEntries
  <2>2. StoreTypeOK
    BY <2>1 DEF Init, StoreInit, StoreTypeOK
  <2>3. req \in [Requests -> Goroutine] /\ dispatched \in Seq(Call)
    BY <1>3 DEF Init
  <2> QED
    BY <2>2, <2>3 DEF TypeOK
<1>5. EntriesAsIssued /\ DispatchPermitted /\ TicketsWithinCap
  BY <1>1 DEF EntriesAsIssued, DispatchPermitted, TicketsWithinCap
<1>6. RequestsAuthorized /\ AdminOnlyByStaticToken /\ CapReplyJustified
  BY <1>2, <1>3 DEF RequestsAuthorized, AdminOnlyByStaticToken, CapReplyJustified
<1>7. TicketsDistinct
  BY <1>1, <1>2, <1>3 DEF TicketsDistinct, Holding
<1> QED
  BY <1>4, <1>5, <1>6, <1>7 DEF IInv

\* The steps of the store that no request makes.
LEMMA StoreStep ==
  ASSUME IInv, StoreInv', StoreAdvances, UNCHANGED <<req, dispatched>>
  PROVE  IInv'
<1>1. TypeOK' /\ EntriesAsIssued'
  BY DEF IInv, TypeOK, StoreInv
<1>2. \A q \in Requests : RequestOK(q)'
  BY RequestStays
<1>3. (RequestsAuthorized /\ AdminOnlyByStaticToken /\ CapReplyJustified)'
  BY <1>2
  DEF RequestsAuthorized, AdminOnlyByStaticToken, CapReplyJustified, RequestOK
<1>4. TicketsDistinct'
  <2>1. \A q \in Requests : Holding(q)' <=> Holding(q)
    BY DEF Holding
  <2> QED
    BY <2>1, TicketStays, HistoryStays DEF IInv, TicketsDistinct, Known
<1> QED
  BY <1>1, <1>3, <1>4, HistoryStays DEF IInv

LEMMA AuthorizeKeeps ==
  ASSUME IInv, NEW r \in Requests, NEW t \in Tokens \cup {Static}, NEW tool \in Tools,
         Authorize(r, t, tool)
  PROVE  IInv'
<1> DEFINE ok   == t = Static \/ Live(t)
           role == IF t = Static \/ ~Live(t) THEN Admin ELSE entries[t].role
           g    == [stage |-> IF ok THEN "authorized" ELSE "done",
                    token |-> t, role |-> role, tool |-> tool,
                    reply |-> IF ok THEN "none" ELSE "unauthorized", ticket |-> 0]
<1>1. StoreInv' /\ StoreAdvances
  <2>1. time' \in Nat
    BY Typed, StoreTyped DEF StoreInv, Authorize, Resolve, storeVars
  <2>2. CASE t = Static
    BY <2>1, <2>2, Typed, SameKeeps DEF Authorize, storeVars
  <2>3. CASE t # Static
    BY <2>3, Typed, LookupKeeps DEF Authorize, Resolve
  <2> QED
    BY <2>2, <2>3
<1>2. Live(t) /\ t # Static =>
        /\ role \in Roles /\ role # Admin
        /\ t \in DOMAIN issued /\ t \in DOMAIN issued'
        /\ role = issued[t].role /\ issued'[t] = issued[t]
  BY <1>1, Typed, StoreTyped DEF Live, Known, StoreInv, EntriesAsIssued, StoreAdvances
<1>3. role \in Roles \cup {Admin} /\ (role = Admin) = (t = Static \/ ~Live(t))
  BY <1>2
<1>4. g \in Goroutine
  <2> HIDE DEF role, ok
  <2> QED
    BY <1>3 DEF Goroutine, Stages, Replies
<1>5. req' = [req EXCEPT ![r] = g] /\ UNCHANGED dispatched
  BY DEF Authorize
<1>6. req'[r] = g
  BY <1>5 DEF IInv, TypeOK
<1>7. RequestOK(r)' /\ ~Holding(r)'
  <2>1. /\ g.stage = IF ok THEN "authorized" ELSE "done"
        /\ g.token = t /\ g.role = role /\ g.tool = tool
        /\ g.reply = IF ok THEN "none" ELSE "unauthorized"
    OBVIOUS
  <2>2. ok => (role = Admin) = (t = Static)
    BY <1>3
  <2>3. ok /\ role # Admin => t \in DOMAIN issued' /\ role = issued'[t].role
    BY <1>2, <1>3
  <2> HIDE DEF g, ok, role
  <2> QED
    BY <1>6, <2>1, <2>2, <2>3 DEF RequestOK, Holding
<1> QED
  BY <1>1, <1>4, <1>5, <1>7, OneRequestStep

\* An answer closes a request that was not charged, or whose charge was refused.
LEMMA AnswerKeeps ==
  ASSUME IInv, StoreInv', StoreAdvances, UNCHANGED dispatched,
         NEW r \in Requests, NEW reply \in Replies, Answer(r, reply),
         reply = "cap exceeded" =>
           /\ req[r].token \in DOMAIN issued'
           /\ \/ req[r].token \notin DOMAIN entries'
              \/ entries'[req[r].token].calls > CallCap
  PROVE  IInv'
<1> DEFINE g == [req[r] EXCEPT !.stage = "done", !.reply = reply]
<1>1. req[r] \in Goroutine
  BY Typed
<1>2. /\ g \in Goroutine
      /\ g.stage = "done" /\ g.reply = reply /\ g.token = req[r].token
  BY <1>1 DEF Goroutine, Stages
<1>3. req' = [req EXCEPT ![r] = g] /\ req'[r] = g
  BY DEF Answer, IInv, TypeOK
<1> HIDE DEF g
<1>4. RequestOK(r)' /\ ~Holding(r)'
  BY <1>2, <1>3 DEF RequestOK, Holding
<1> QED
  BY <1>2, <1>3, <1>4, OneRequestStep

LEMMA StoreUntouched ==
  ASSUME IInv, UNCHANGED storeVars PROVE StoreInv' /\ StoreAdvances
<1>1. time' \in Nat
  BY Typed, StoreTyped DEF StoreInv, storeVars
<1> QED
  BY <1>1, Typed, SameKeeps DEF storeVars

LEMMA HandleOtherKeeps ==
  ASSUME IInv, NEW r \in Requests, HandleOther(r) PROVE IInv'
BY StoreUntouched, AnswerKeeps DEF HandleOther, Replies

LEMMA HandleToolsCallKeeps ==
  ASSUME IInv, NEW r \in Requests, HandleToolsCall(r) PROVE IInv'
<1>1. /\ StoreInv' /\ StoreAdvances /\ UNCHANGED dispatched
      /\ UNCHANGED <<entries, issued>>
  BY StoreUntouched DEF HandleToolsCall, storeVars
<1>2. req[r] \in Goroutine /\ RequestOK(r) /\ req[r].stage = "authorized"
  BY Typed DEF HandleToolsCall
<1>3. ASSUME NEW reply \in {"unknown tool", "not permitted"}, Answer(r, reply)
      PROVE  IInv'
  BY <1>1, <1>3, AnswerKeeps DEF Replies
<1>4. ASSUME NEW stage \in {"charging", "dispatching"},
             req' = [req EXCEPT ![r].stage = stage],
             req[r].tool \in Mounted,
             stage = "charging" =>
               /\ req[r].role # Admin
               /\ HasPolicyEngine /\ Decide(req[r].role, req[r].tool),
             stage = "dispatching" => req[r].role = Admin
      PROVE  IInv'
  <2> DEFINE g == [req[r] EXCEPT !.stage = stage]
  <2>1. /\ g \in Goroutine
        /\ g.stage = stage /\ g.token = req[r].token /\ g.role = req[r].role
        /\ g.tool = req[r].tool
    BY <1>2 DEF Goroutine, Stages
  <2>2. req' = [req EXCEPT ![r] = g] /\ req'[r] = g
    BY <1>4 DEF IInv, TypeOK
  <2> HIDE DEF g
  <2>3. RequestOK(r)' /\ ~Holding(r)'
    BY <1>1, <1>2, <1>4, <2>1, <2>2 DEF RequestOK, Holding
  <2> QED
    BY <1>1, <2>1, <2>2, <2>3, OneRequestStep
<1> QED
  BY <1>3, <1>4 DEF HandleToolsCall

\* The charge that goes through takes a ticket above all those the token paid for.
LEMMA TicketTaken ==
  ASSUME IInv, NEW r \in Requests, HandleCharge(r), WithinBudget(req[r].token)
  PROVE  IInv'
<1> DEFINE t == req[r].token
           n == entries[t].calls + 1
           g == [req[r] EXCEPT !.stage = "dispatching", !.ticket = n]
<1>1. /\ StoreInv /\ StoreInv' /\ StoreAdvances /\ UNCHANGED <<issued, dispatched>>
      /\ req[r] \in Goroutine /\ RequestOK(r) /\ req[r].stage = "charging"
  BY Typed, ChargeKeeps DEF HandleCharge, Charge
<1>2. Live(t) /\ Known(t) /\ t \in DOMAIN entries /\ n <= CallCap
  BY DEF WithinBudget, Live, Known
<1>3. entries[t].calls \in Nat /\ n \in 1..CallCap
  BY <1>1, <1>2, StoreTyped DEF StoreInv
<1>4. entries'[t].calls = n
  BY <1>1, <1>2, ChargeCounts DEF HandleCharge
<1>5. /\ g \in Goroutine
      /\ g.stage = "dispatching" /\ g.ticket = n /\ g.token = t
      /\ g.role = req[r].role /\ g.tool = req[r].tool
  <2>1. n \in Nat
    BY <1>3
  <2> HIDE DEF n, t
  <2>2. t = req[r].token
    BY DEF t
  <2> QED
    BY <1>1, <2>1, <2>2 DEF Goroutine, Stages
<1>6. req' = [req EXCEPT ![r] = g] /\ req'[r] = g
  BY DEF HandleCharge, IInv, TypeOK
<1> HIDE DEF g
<1>7. \A q \in Requests : q # r => req'[q] = req[q]
  BY <1>6 DEF IInv, TypeOK
<1>8. TypeOK' /\ EntriesAsIssued'
  BY <1>1, <1>5, <1>6 DEF IInv, TypeOK, StoreInv
<1>9. (RequestsAuthorized /\ AdminOnlyByStaticToken /\ CapReplyJustified)'
  <2>1. RequestOK(r)'
    BY <1>1, <1>5, <1>6 DEF RequestOK
  <2>2. \A q \in Requests : RequestOK(q)'
    BY <1>1, <1>7, <2>1, RequestStays
  <2> QED
    BY <2>2
    DEF RequestsAuthorized, AdminOnlyByStaticToken, CapReplyJustified, RequestOK
<1>10. TicketsDistinct'
  <2>1. \A q \in Requests : q # r /\ Holding(q)' => Holding(q) /\ req'[q] = req[q]
    BY <1>7 DEF Holding
  <2>2. ASSUME NEW q \in Requests, q # r, Holding(q)', req[q].token = t
        PROVE  req[q].ticket # n
    <3>1. req[q].ticket \in 1..CallCap /\ req[q].ticket <= entries[t].calls
      BY <1>2, <2>1, <2>2 DEF IInv, TicketsDistinct
    <3> QED
      BY <1>3, <3>1
  <2>3. ASSUME NEW i \in DOMAIN dispatched, dispatched[i].token = t
        PROVE  dispatched[i].ticket # n
    <3>1. dispatched[i].ticket \in 1..CallCap /\ dispatched[i].ticket <= entries[t].calls
      BY <1>2, <2>3 DEF IInv, TicketsDistinct, TicketsWithinCap
    <3> QED
      BY <1>3, <3>1
  <2>4. ASSUME NEW q \in Requests, Holding(q)'
        PROVE  /\ req'[q].ticket \in 1..CallCap
               /\ Known(req[q].token)' => req'[q].ticket <= entries'[req'[q].token].calls
    <3>1. CASE q = r
      BY <1>3, <1>4, <1>5, <1>6, <3>1
    <3>2. CASE q # r
      BY <1>1, <2>1, <2>4, <3>2, TicketStays DEF Known
    <3> QED
      BY <3>1, <3>2
  <2>5. ASSUME NEW q \in Requests, Holding(q)', NEW p \in Requests, p # q, Holding(p)',
               req'[p].token = req'[q].token
        PROVE  req'[p].ticket # req'[q].ticket
    <3>1. CASE q = r
      BY <1>5, <1>6, <2>1, <2>2, <2>5, <3>1
    <3>2. CASE p = r
      BY <1>5, <1>6, <2>1, <2>2, <2>5, <3>2
    <3>3. CASE p # r /\ q # r
      BY <2>1, <2>5, <3>3 DEF IInv, TicketsDistinct
    <3> QED
      BY <3>1, <3>2, <3>3
  <2>6. ASSUME NEW q \in Requests, Holding(q)', NEW i \in DOMAIN dispatched',
               dispatched'[i].token = req'[q].token
        PROVE  dispatched'[i].ticket # req'[q].ticket
    <3>1. CASE q = r
      BY <1>1, <1>5, <1>6, <2>3, <2>6, <3>1
    <3>2. CASE q # r
      BY <1>1, <2>1, <2>6, <3>2 DEF IInv, TicketsDistinct
    <3> QED
      BY <3>1, <3>2
  <2> QED
    BY <1>1, <2>4, <2>5, <2>6, HistoryStays DEF TicketsDistinct
<1> QED
  BY <1>1, <1>8, <1>9, <1>10, HistoryStays DEF IInv

LEMMA ChargeRefused ==
  ASSUME IInv, NEW r \in Requests, HandleCharge(r), ~WithinBudget(req[r].token)
  PROVE  IInv'
<1> DEFINE t == req[r].token
<1>1. /\ StoreInv /\ StoreInv' /\ StoreAdvances /\ UNCHANGED <<issued, dispatched>>
      /\ Charge(t) /\ Answer(r, "cap exceeded")
  BY Typed, ChargeKeeps DEF HandleCharge, Charge
<1>2. t \in DOMAIN issued'
  BY <1>1, Typed DEF HandleCharge, RequestOK
<1>3. t \notin DOMAIN entries' \/ entries'[t].calls > CallCap
  <2>1. CASE ~Known(t)
    BY <1>1, <2>1 DEF Charge, Live, AfterLookup, Known
  <2>2. CASE Known(t) /\ Expired(t)
    BY <1>1, <2>2 DEF Charge, Live, AfterLookup, Known, Without
  <2>3. CASE Live(t)
    <3>1. t \in DOMAIN entries /\ entries'[t].calls = entries[t].calls + 1
      BY <1>1, <2>3, ChargeCounts DEF Live, Known
    <3>2. entries[t].calls \in Nat /\ ~(entries[t].calls + 1 <= CallCap)
      BY <1>1, <2>3, <3>1, StoreTyped DEF StoreInv, WithinBudget
    <3> HIDE DEF t
    <3> QED
      BY <3>1, <3>2
  <2> QED
    BY <2>1, <2>2, <2>3 DEF Live
<1> QED
  BY <1>1, <1>2, <1>3, AnswerKeeps DEF Replies

\* The ticket held becomes the ticket of a call.
LEMMA CallToolKeeps ==
  ASSUME IInv, NEW r \in Requests, CallTool(r) PROVE IInv'
<1>1. /\ StoreInv' /\ StoreAdvances
      /\ UNCHANGED <<entries, issued>>
      /\ Answer(r, "result")
  BY StoreUntouched DEF CallTool, storeVars
<1>2. CASE req[r].role = Admin
  BY <1>1, <1>2, AnswerKeeps DEF CallTool, Replies
<1>3. CASE req[r].role # Admin
  <2> DEFINE c == [token |-> req[r].token, role |-> req[r].role,
                   tool |-> req[r].tool, ticket |-> req[r].ticket]
             g == [req[r] EXCEPT !.stage = "done", !.reply = "result"]
  <2>1. /\ req[r] \in Goroutine /\ RequestOK(r) /\ Holding(r)
        /\ dispatched' = Append(dispatched, c)
        /\ dispatched \in Seq(Call)
    BY <1>3, Typed DEF CallTool, Holding
  <2>2. /\ req[r].token \in DOMAIN issued /\ req[r].token \in Tokens
        /\ req[r].role = issued[req[r].token].role /\ req[r].role \in Roles
        /\ HasPolicyEngine /\ req[r].tool \in Mounted /\ req[r].tool \in Tools
        /\ Decide(req[r].role, req[r].tool)
        /\ req[r].ticket \in 1..CallCap
    BY <1>3, <2>1, Typed, StoreTyped
    DEF Holding, RequestOK, StoreInv, IInv, TicketsDistinct
  <2>3. /\ c \in Call
        /\ c.token = req[r].token /\ c.role = req[r].role
        /\ c.tool = req[r].tool /\ c.ticket = req[r].ticket
    BY <2>2 DEF Call
  <2>4. /\ g \in Goroutine /\ g.stage = "done" /\ g.reply = "result"
    BY <2>1 DEF Goroutine, Stages, Replies
  <2>5. req' = [req EXCEPT ![r] = g] /\ req'[r] = g
    BY <1>1 DEF Answer, IInv, TypeOK
  <2> HIDE DEF c, g
  <2>6. /\ dispatched' \in Seq(Call)
        /\ Len(dispatched') = Len(dispatched) + 1
        /\ DOMAIN dispatched' = DOMAIN dispatched \cup {Len(dispatched) + 1}
        /\ Len(dispatched) + 1 \notin DOMAIN dispatched
        /\ dispatched'[Len(dispatched) + 1] = c
        /\ \A i \in DOMAIN dispatched : dispatched'[i] = dispatched[i]
    BY <2>1, <2>3
  <2>7. \A i \in DOMAIN dispatched' :
          \/ i \in DOMAIN dispatched /\ dispatched'[i] = dispatched[i]
          \/ i = Len(dispatched) + 1 /\ dispatched'[i] = c
    BY <2>6
  <2>8. \A q \in Requests : q # r => req'[q] = req[q]
    BY <2>5 DEF IInv, TypeOK
  <2>9. TypeOK' /\ EntriesAsIssued'
    BY <1>1, <2>4, <2>5, <2>6 DEF IInv, TypeOK, StoreInv
  <2>10. (RequestsAuthorized /\ AdminOnlyByStaticToken /\ CapReplyJustified)'
    <3>1. RequestOK(r)'
      BY <2>4, <2>5 DEF RequestOK
    <3>2. \A q \in Requests : RequestOK(q)'
      BY <1>1, <2>8, <3>1, RequestStays
    <3> QED
      BY <3>2
      DEF RequestsAuthorized, AdminOnlyByStaticToken, CapReplyJustified, RequestOK
  <2>11. DispatchPermitted'
    BY <1>1, <2>2, <2>3, <2>7 DEF IInv, DispatchPermitted, Decide
  <2>12. TicketsWithinCap'
    <3>1. \A i \in DOMAIN dispatched' : dispatched'[i].ticket \in 1..CallCap
      BY <2>2, <2>3, <2>7 DEF IInv, TicketsWithinCap
    <3>2. \A i \in DOMAIN dispatched :
            dispatched[i].token = c.token => dispatched[i].ticket # c.ticket
      BY <2>1, <2>3 DEF IInv, TicketsDistinct
    <3> QED
      BY <2>7, <3>1, <3>2 DEF IInv, TicketsWithinCap
  <2>13. TicketsDistinct'
    <3>1. \A q \in Requests : Holding(q)' => q # r /\ Holding(q) /\ req'[q] = req[q]
      BY <2>4, <2>5, <2>8 DEF Holding
    <3>2. ASSUME NEW i \in DOMAIN dispatched', Known(dispatched[i].token)'
          PROVE  dispatched'[i].ticket <= entries'[dispatched'[i].token].calls
      BY <1>1, <2>1, <2>3, <2>7, <3>2 DEF IInv, TicketsDistinct, Known
    <3>3. ASSUME NEW q \in Requests, Holding(q)'
          PROVE  /\ req'[q].ticket \in 1..CallCap
                 /\ Known(req[q].token)' =>
                      req'[q].ticket <= entries'[req'[q].token].calls
      BY <1>1, <3>1, <3>3, TicketStays DEF Known
    <3>4. ASSUME NEW q \in Requests, Holding(q)', NEW p \in Requests, p # q, Holding(p)',
                 req'[p].token = req'[q].token
          PROVE  req'[p].ticket # req'[q].ticket
      BY <3>1, <3>4 DEF IInv, TicketsDistinct
    <3>5. ASSUME NEW q \in Requests, Holding(q)', NEW i \in DOMAIN dispatched',
                 dispatched'[i].token = req'[q].token
          PROVE  dispatched'[i].ticket # req'[q].ticket
      BY <2>1, <2>3, <2>7, <3>1, <3>5 DEF IInv, TicketsDistinct
    <3> QED
      BY <3>2, <3>3, <3>4, <3>5 DEF TicketsDistinct
  <2> QED
    BY <2>9, <2>10, <2>11, <2>12, <2>13 DEF IInv
<1> QED
  BY <1>2, <1>3

LEMMA NextRequestKeeps ==
  ASSUME IInv, NEW r \in Requests, NextRequest(r) PROVE IInv'
<1>1. Idle \in Goroutine /\ Idle.stage = "idle"
  BY DEF Idle, Goroutine, Stages, Replies
<1>2. req' = [req EXCEPT ![r] = Idle] /\ req'[r] = Idle
  BY DEF NextRequest, IInv, TypeOK
<1>3. RequestOK(r)' /\ ~Holding(r)'
  BY <1>1, <1>2 DEF RequestOK, Holding
<1> QED
  BY <1>1, <1>2, <1>3, StoreUntouched, OneRequestStep DEF NextRequest

\* A restart forgets tickets in hand; those already used are out of reach, since
\* no entry of their tokens is left to charge.
LEMMA RestartKeeps == ASSUME IInv, Restart PROVE IInv'
<1>1. Idle \in Goroutine /\ Idle.stage = "idle"
  BY DEF Idle, Goroutine, Stages, Replies
<1>2. \A r \in Requests : req'[r] = Idle
  BY DEF Restart
<1>3. StoreInv' /\ StoreAdvances /\ UNCHANGED dispatched
  BY Typed, LoseKeeps DEF Restart
<1>4. TypeOK' /\ EntriesAsIssued'
  BY <1>1, <1>3 DEF IInv, TypeOK, StoreInv, Restart
<1>5. (RequestsAuthorized /\ AdminOnlyByStaticToken /\ CapReplyJustified)'
  BY <1>1, <1>2 DEF RequestsAuthorized, AdminOnlyByStaticToken, CapReplyJustified
<1>6. TicketsDistinct'
  BY <1>1, <1>2, <1>3, HistoryStays DEF TicketsDistinct, Holding
<1> QED
  BY <1>3, <1>4, <1>5, <1>6, HistoryStays DEF IInv

LEMMA NextIInv == IInv /\ [Next]_vars => IInv'
<1> SUFFICES ASSUME IInv, [Next]_vars PROVE IInv'
  OBVIOUS
<1>1. ASSUME NEW t \in Tokens, NEW role \in Roles, SessionIssue(t, role) PROVE IInv'
  BY <1>1, Typed, IssueKeeps, StoreStep DEF SessionIssue
<1>2. ASSUME NEW r \in Requests, HandleCharge(r) PROVE IInv'
  BY <1>2, TicketTaken, ChargeRefused
<1>3. ASSUME NEW t \in Tokens, GitAuthorize(t) PROVE IInv'
  BY <1>3, Typed, LookupKeeps, StoreStep DEF GitAuthorize, Resolve
<1>4. CASE SweepLoop
  BY <1>4, Typed, SweepKeeps, StoreStep DEF SweepLoop
<1>5. CASE TimePasses
  BY <1>5, Typed, TickKeeps, StoreStep DEF TimePasses
<1>6. CASE UNCHANGED vars
  BY <1>6, StoreUntouched, StoreStep DEF vars, storeVars
<1> QED
  BY <1>1, <1>2, <1>3, <1>4, <1>5, <1>6, AuthorizeKeeps, HandleOtherKeeps,
     HandleToolsCallKeeps, CallToolKeeps, NextRequestKeeps, RestartKeeps DEF Next

LEMMA Invariance == Spec => []IInv
BY InitIInv, NextIInv, PTL DEF Spec

-----------------------------------------------------------------------------
(* What the endpoint promises.                                             *)

\* The maps, the goroutines and the calls made have the shape the Go types give
\* them, whatever is issued, charged, swept or lost (store.go, xmcp.go).
THEOREM TypeCorrect == Spec => []TypeOK
<1>1. IInv => TypeOK
  BY DEF IInv
<1> QED
  BY <1>1, Invariance, PTL

\* ADR-028's hard cap, for every number of goroutines: each call to a tool on a
\* minted token was made on a ticket of its own, numbered 1..CallCap, so a token
\* pays for at most CallCap calls (Store.Charge, handleToolsCall).
THEOREM CapHolds == Spec => []TicketsWithinCap
<1>1. IInv => TicketsWithinCap
  BY DEF IInv
<1> QED
  BY <1>1, Invariance, PTL

\* The number of calls a token has paid for.
CallsOn(t) == {i \in DOMAIN dispatched : dispatched[i].token = t}

\* The cap as ADR-028 words it: a session makes at most CallCap tool calls.  The
\* tickets map its calls one to one into 1..CallCap.
THEOREM AtMostCapCalls ==
  Spec => [](\A t \in Tokens : Cardinality(CallsOn(t)) <= CallCap)
<1>1. ASSUME TicketsWithinCap, NEW t \in Tokens
      PROVE  Cardinality(CallsOn(t)) <= CallCap
  <2> DEFINE f == [i \in CallsOn(t) |-> dispatched[i].ticket]
  <2>1. f \in [CallsOn(t) -> 1..CallCap]
    BY <1>1 DEF TicketsWithinCap, CallsOn
  <2>2. \A i, j \in CallsOn(t) : f[i] = f[j] => i = j
    BY <1>1 DEF TicketsWithinCap, CallsOn
  <2>3. f \in Injection(CallsOn(t), 1..CallCap)
    <3> HIDE DEF f
    <3> QED
      BY <2>1, <2>2 DEF Injection, IsInjective
  <2>4. IsFiniteSet(1..CallCap) /\ Cardinality(1..CallCap) = CallCap
    BY FS_Interval
  <2> HIDE DEF f
  <2> QED
    BY <2>3, <2>4, FS_Injection
<1>2. TicketsWithinCap => \A t \in Tokens : Cardinality(CallsOn(t)) <= CallCap
  BY <1>1
<1> QED
  BY <1>2, CapHolds, PTL

\* Every call was made with the role the token was issued for, on a mounted tool
\* that the policy allows this role and does not deny (handleToolsCall).
THEOREM CallsPermitted == Spec => []DispatchPermitted
<1>1. IInv => DispatchPermitted
  BY DEF IInv
<1> QED
  BY <1>1, Invariance, PTL

\* The unfiltered role is the static token's alone (authorizeToken).
THEOREM AdminIsStatic == Spec => []AdminOnlyByStaticToken
<1>1. IInv => AdminOnlyByStaticToken
  BY DEF IInv
<1> QED
  BY <1>1, Invariance, PTL

\* "cap exceeded" is answered for a spent budget or a token that is gone, and
\* stays justified while the answer is on its way (Store.Charge).
THEOREM CapReplyTrue == Spec => []CapReplyJustified
<1>1. IInv => CapReplyJustified
  BY DEF IInv
<1> QED
  BY <1>1, Invariance, PTL

\* The only step that takes a request from charging to dispatching is a charge
\* that went through, and Charge looks at the expiry again.
LEMMA PassIsCharge ==
  ASSUME IInv, [Next]_vars, NEW r \in Requests,
         req[r].stage = "charging", req'[r].stage = "dispatching"
  PROVE  HandleCharge(r) /\ WithinBudget(req[r].token)
<1>1. req[r] \in Goroutine /\ req \in [Requests -> Goroutine]
  BY DEF IInv, TypeOK
<1>2. ASSUME req'[r] = req[r] PROVE FALSE
  BY <1>2
<1>3. ASSUME NEW q \in Requests, q # r, NEW g, req' = [req EXCEPT ![q] = g] PROVE FALSE
  BY <1>1, <1>2, <1>3
<1>4. ASSUME NEW q \in Requests, NEW reply, Answer(q, reply) PROVE FALSE
  <2>1. req' = [req EXCEPT ![q] = [req[q] EXCEPT !.stage = "done", !.reply = reply]]
    BY <1>1, <1>4 DEF Answer
  <2>2. CASE q = r
    <3>1. req'[r].stage = "done"
      BY <1>1, <2>1, <2>2 DEF Goroutine
    <3> QED
      BY <3>1
  <2> QED
    BY <1>3, <2>1, <2>2
<1>5. ASSUME NEW q \in Requests, NEW t, NEW tool, Authorize(q, t, tool) PROVE FALSE
  BY <1>3, <1>5 DEF Authorize
<1>6. ASSUME NEW q \in Requests, HandleOther(q) \/ CallTool(q) PROVE FALSE
  BY <1>4, <1>6 DEF HandleOther, CallTool
<1>7. ASSUME NEW q \in Requests, HandleToolsCall(q) PROVE FALSE
  <2>1. q # r
    BY <1>7 DEF HandleToolsCall
  <2>2. ASSUME NEW stage, req' = [req EXCEPT ![q].stage = stage] PROVE FALSE
    BY <1>3, <2>1, <2>2
  <2> QED
    BY <1>4, <1>7, <2>2 DEF HandleToolsCall
<1>8. ASSUME NEW q \in Requests, NextRequest(q) PROVE FALSE
  BY <1>3, <1>8 DEF NextRequest
<1>9. ASSUME Restart PROVE FALSE
  BY <1>9 DEF Restart, Idle
<1>10. ASSUME UNCHANGED req PROVE FALSE
  BY <1>2, <1>10
<1>11. ASSUME NEW q \in Requests, HandleCharge(q)
       PROVE  q = r /\ WithinBudget(req[q].token)
  <2>1. WithinBudget(req[q].token)
    BY <1>4, <1>11 DEF HandleCharge
  <2>2. q = r
    <3>1. req' = [req EXCEPT ![q] = [req[q] EXCEPT !.stage = "dispatching",
                                      !.ticket = entries[req[q].token].calls + 1]]
      BY <1>1, <1>11, <2>1 DEF HandleCharge
    <3> QED
      BY <1>3, <3>1
  <2> QED
    BY <2>1, <2>2
<1> QED
  BY <1>5, <1>6, <1>7, <1>8, <1>9, <1>10, <1>11
  DEF Next, vars, SessionIssue, GitAuthorize, SweepLoop, TimePasses

\* A token pays for a call only within its lifetime, however long the request
\* waited between the lookup and the charge (Store.Charge, expiresAt).
THEOREM ChargesAreLive == Spec => ChargedWhileLive
<1>1. ASSUME IInv, [Next]_vars
      PROVE  [\A r \in Requests :
               req[r].stage = "charging" /\ req'[r].stage = "dispatching"
                 => time <= issued[req[r].token].expiresAt]_vars
  <2> SUFFICES ASSUME NEW r \in Requests,
                      req[r].stage = "charging", req'[r].stage = "dispatching"
               PROVE  time <= issued[req[r].token].expiresAt
    OBVIOUS
  <2>1. Live(req[r].token)
    BY <1>1, PassIsCharge DEF WithinBudget
  <2>2. /\ req[r].token \in DOMAIN entries
        /\ ~(time > entries[req[r].token].expiresAt)
    BY <2>1 DEF Live, Known, Expired
  <2>3. entries[req[r].token].expiresAt = issued[req[r].token].expiresAt
    BY <1>1, <2>2 DEF IInv, EntriesAsIssued
  <2>4. time \in Nat /\ entries[req[r].token].expiresAt \in Nat
    BY <1>1, <2>2, Typed, StoreTyped DEF StoreInv
  <2> QED
    BY <2>2, <2>3, <2>4
<1> QED
  BY <1>1, Invariance, PTL DEF Spec, ChargedWhileLive

=============================================================================
