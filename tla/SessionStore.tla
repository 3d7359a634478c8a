---------------------------- MODULE SessionStore ----------------------------
(***************************************************************************)
(* services/auth-proxy/internal/session: short-lived, role-bound tokens in *)
(* memory.  Every operation holds the store's mutex from start to end, so  *)
(* each is one step; what a caller does between two operations is not.     *)
(***************************************************************************)
EXTENDS Integers, Sequences, FiniteSets

CONSTANTS
  Tokens,    \* what generateToken can return; never the same value twice
  Roles,     \* the (non-empty) role names tokens are issued for
  TTL,       \* defaultTTL, in ticks
  CallCap,   \* callCap: AUTH_PROXY_MCP_CALL_CAP or 60, always positive
  MaxTime    \* bound on the clock

ASSUME StoreAssumption ==
  /\ TTL \in Nat
  /\ CallCap \in Nat \ {0}
  /\ MaxTime \in Nat

VARIABLES
  time,
  entries,  \* the map from token to entry
  issued    \* history: what each token was issued with, kept when it is gone

Entry == [role : Roles, expiresAt : Nat, calls : Nat]

storeVars == <<time, entries, issued>>

StoreTypeOK ==
  /\ time \in Nat
  /\ \E D \in SUBSET Tokens : entries \in [D -> Entry]
  /\ \E D \in SUBSET Tokens : issued \in [D -> [role : Roles, expiresAt : Nat]]

\* NewStore, and again after a restart: nothing of the map is persisted.
NoEntries == [t \in {} |-> 0]

StoreInit ==
  /\ time = 0
  /\ entries = NoEntries
  /\ issued = NoEntries

Known(t) == t \in DOMAIN entries

\* now.After(e.expiresAt): the instant of expiry itself is still valid.
Expired(t) == time > entries[t].expiresAt

Live(t) == Known(t) /\ ~Expired(t)

Without(m, gone) == [t \in DOMAIN m \ gone |-> m[t]]

\* The lookup Resolve, Valid and Charge begin with drops the entry it finds
\* expired.
AfterLookup(t) == IF Known(t) /\ Expired(t) THEN Without(entries, {t}) ELSE entries

With(m, t, e) == [u \in DOMAIN m \cup {t} |-> IF u = t THEN e ELSE m[u]]

Issue(t, role) ==
  /\ t \notin DOMAIN issued
  /\ entries' = With(entries, t, [role |-> role, expiresAt |-> time + TTL, calls |-> 0])
  /\ issued' = With(issued, t, [role |-> role, expiresAt |-> time + TTL])
  /\ UNCHANGED time

\* Resolve and Valid: the caller finds the result with Live(t).
Resolve(t) ==
  /\ entries' = AfterLookup(t)
  /\ UNCHANGED <<time, issued>>

\* Mutant: the counter is read but not written back.
ChargeUncounted(t) ==
  /\ entries' = AfterLookup(t)
  /\ UNCHANGED <<time, issued>>

\* Charge counts every call of a live token, the refused ones too.
Charge(t) ==
  /\ entries' = IF Live(t)
                  THEN With(entries, t, [entries[t] EXCEPT !.calls = @ + 1])
                  ELSE AfterLookup(t)
  /\ UNCHANGED <<time, issued>>

\* Mutant: off by one: the last call of the budget is refused.
OneTooFew(t) == Live(t) /\ entries[t].calls + 1 < CallCap

\* Mutant: the charge relies on the expiry check made when the request was authorized.
BudgetOfKnown(t) == Known(t) /\ entries[t].calls + 1 <= CallCap

\* What Charge returns.
WithinBudget(t) == Live(t) /\ entries[t].calls + 1 <= CallCap

\* The ticker's sweep.
Sweep ==
  /\ \E t \in DOMAIN entries : Expired(t)
  /\ entries' = Without(entries, {t \in DOMAIN entries : Expired(t)})
  /\ UNCHANGED <<time, issued>>

Tick ==
  /\ time < MaxTime
  /\ time' = time + 1
  /\ UNCHANGED <<entries, issued>>

\* The process is restarted: the map is gone, the tokens handed out are not.
LoseEntries ==
  /\ entries' = NoEntries
  /\ UNCHANGED <<time, issued>>

-----------------------------------------------------------------------------

\* What is left in the map is as it was issued, but for the counter: no operation
\* gives a token another role or a longer life.
EntriesAsIssued ==
  \A t \in DOMAIN entries :
    /\ t \in DOMAIN issued
    /\ entries[t].role = issued[t].role
    /\ entries[t].expiresAt = issued[t].expiresAt

=============================================================================
