----------------------------- MODULE TokenSource -----------------------------
(***************************************************************************)
(* The two credential caches of the auth-proxy: githubapp.TokenSource      *)
(* (installation access tokens; the expiry comes with the token) and       *)
(* jquants.TokenSource (idTokens; the expiry is assumed when the token is  *)
(* stored).  The mutex covers the lookup and the store, not the request    *)
(* between them: callers that miss together mint together, and the         *)
(* slowest of them stores last.                                            *)
(* Steps that do not wait for the network take no time.                    *)
(***************************************************************************)
EXTENDS Integers, Sequences

CONSTANTS
  Callers,       \* goroutines that call Token or IDToken
  Lifetime,      \* how long the server honours a token it minted
  AssumedTTL,    \* jquants: idTokenTTL
  Margin,        \* refreshMargin: five minutes, or thirty
  HttpTimeout,   \* the timeout of httpClient
  MaxTime,       \* bound on the clock
  MaxMints       \* bound on the tokens the server mints

\* The relations between the values in the code and the server's lifetime of
\* one hour (GitHub) or 24 hours (J-Quants).
ASSUME TokenAssumption ==
  /\ Lifetime \in Nat /\ AssumedTTL \in Nat /\ Margin \in Nat
  /\ HttpTimeout \in Nat /\ MaxTime \in Nat /\ MaxMints \in Nat
  /\ Margin + HttpTimeout < Lifetime
  /\ Margin < AssumedTTL
  /\ AssumedTTL + HttpTimeout <= Lifetime + Margin

VARIABLES
  kind,       \* which of the two caches this is; it never changes
  time,
  minted,     \* the server's side: every token it minted, in order
  stored,     \* history: the tokens that reached their caller's store
  cached,     \* cachedToken: its place in minted, or NoToken
  expiresAt,  \* expiresAt
  resolved,   \* githubapp: the installation id is configured, or resolvedID set
  stage,      \* each goroutine's place in the code
  held,       \* the token it was answered with or returns
  since       \* when its request was sent, or when it returned

cache     == <<cached, expiresAt>>
callers   == <<stage, held, since>>
vars      == <<kind, time, minted, stored, cache, resolved, callers>>

NoToken == 0

Kinds == {"githubapp", "jquants"}

\* GitHub's answer carries the expiry; that of an idToken is assumed.
ServerExpiry == kind = "githubapp"

Stages == {"idle", "missed", "discovering", "minting", "answered", "returned"}

Token  == [at : Nat, by : Callers]

TypeOK ==
  /\ kind \in Kinds
  /\ time \in Nat
  /\ minted \in Seq(Token)
  /\ stored \subseteq 1..Len(minted)
  /\ cached \in 0..Len(minted)
  /\ expiresAt \in Nat
  /\ resolved \in BOOLEAN
  /\ stage \in [Callers -> Stages]
  /\ held \in [Callers -> 0..Len(minted)]
  /\ since \in [Callers -> Nat]

\* When the server stops honouring a token.
Dies(k) == minted[k].at + Lifetime

\* With GITHUB_APP_INSTALLATION_ID there is nothing to resolve, and jquants has
\* no installations.
Init ==
  /\ kind \in Kinds
  /\ time = 0
  /\ minted = <<>>
  /\ stored = {}
  /\ cached = NoToken
  /\ expiresAt = 0
  /\ resolved \in {TRUE, ~ServerExpiry}
  /\ stage = [c \in Callers |-> "idle"]
  /\ held = [c \in Callers |-> NoToken]
  /\ since = [c \in Callers |-> 0]

-----------------------------------------------------------------------------

Goes(c, to) == stage' = [stage EXCEPT ![c] = to]

\* Mutant: the refresh margin is forgotten.
FreshToTheEnd == cached # NoToken /\ expiresAt - time >= 0

\* time.Until(expiresAt) > refreshMargin
Fresh == cached # NoToken /\ expiresAt - time > Margin

CacheHit(c) ==
  /\ stage[c] = "idle"
  /\ Fresh
  /\ Goes(c, "returned")
  /\ held' = [held EXCEPT ![c] = cached]
  /\ since' = [since EXCEPT ![c] = time]
  /\ UNCHANGED <<kind, time, minted, stored, cache, resolved>>

CacheMiss(c) ==
  /\ stage[c] = "idle"
  /\ ~Fresh
  /\ Goes(c, "missed")
  /\ UNCHANGED <<kind, time, minted, stored, cache, resolved, held, since>>

\* From here on the caller waits for an answer, at most until the timeout.
Asks(c, to) == Goes(c, to) /\ since' = [since EXCEPT ![c] = time]

\* installationIDFor: the configured id or the one resolved before; otherwise
\* the installations are listed first.
InstallationKnown(c) ==
  /\ stage[c] = "missed"
  /\ resolved
  /\ Asks(c, "minting")
  /\ UNCHANGED <<kind, time, minted, stored, cache, resolved, held>>

ListInstallations(c) ==
  /\ stage[c] = "missed"
  /\ ~resolved
  /\ Asks(c, "discovering")
  /\ UNCHANGED <<kind, time, minted, stored, cache, resolved, held>>

\* Exactly one installation was listed.
InstallationFound(c) ==
  /\ stage[c] = "discovering"
  /\ resolved' = TRUE
  /\ Asks(c, "minting")
  /\ UNCHANGED <<kind, time, minted, stored, cache, held>>

ServerMints(c) ==
  /\ stage[c] = "minting"
  /\ Len(minted) < MaxMints
  /\ minted' = Append(minted, [at |-> time, by |-> c])
  /\ Goes(c, "answered")
  /\ held' = [held EXCEPT ![c] = Len(minted) + 1]
  /\ UNCHANGED <<kind, time, stored, cache, resolved, since>>

\* Mutant: the assumed lifetime is subtracted.
StoredExpirySign(k) == IF ServerExpiry THEN Dies(k) ELSE time - AssumedTTL

\* The expiry a token is stored with.
StoredExpiry(k) == IF ServerExpiry THEN Dies(k) ELSE time + AssumedTTL

\* Mutant: the token is returned but not cached.
StoreNothing(c) ==
  /\ stage[c] = "answered"
  /\ stored' = stored \cup {held[c]}
  /\ Asks(c, "returned")
  /\ UNCHANGED <<kind, time, minted, cache, resolved, held>>

\* The second critical section: whatever is cached by now is overwritten.
StoreToken(c) ==
  /\ stage[c] = "answered"
  /\ cached' = held[c]
  /\ expiresAt' = StoredExpiry(held[c])
  /\ stored' = stored \cup {held[c]}
  /\ Asks(c, "returned")
  /\ UNCHANGED <<kind, time, minted, resolved, held>>

StartsOver(c) ==
  /\ Goes(c, "idle")
  /\ held' = [held EXCEPT ![c] = NoToken]
  /\ since' = [since EXCEPT ![c] = 0]

InFlight(c) == stage[c] \in {"discovering", "minting", "answered"}

\* Any error return: no answer in time, an answer lost on its way, another
\* status, a body or an expiry that does not parse, not one installation.
Fails(c) ==
  /\ InFlight(c)
  /\ StartsOver(c)
  /\ UNCHANGED <<kind, time, minted, stored, cache, resolved>>

\* The caller uses the token and will come back for another request.
Uses(c) ==
  /\ stage[c] = "returned"
  /\ StartsOver(c)
  /\ UNCHANGED <<kind, time, minted, stored, cache, resolved>>

\* Mutant: httpClient has no timeout.
TickUnlimited ==
  /\ time < MaxTime
  /\ time' = time + 1
  /\ UNCHANGED <<kind, minted, stored, cache, resolved, callers>>

Tick ==
  /\ time < MaxTime
  /\ \A c \in Callers : InFlight(c) => time < since[c] + HttpTimeout
  /\ time' = time + 1
  /\ UNCHANGED <<kind, minted, stored, cache, resolved, callers>>

Next ==
  \/ \E c \in Callers :
       \/ CacheHit(c) \/ CacheMiss(c)
       \/ InstallationKnown(c) \/ ListInstallations(c) \/ InstallationFound(c)
       \/ ServerMints(c) \/ StoreToken(c) \/ Fails(c) \/ Uses(c)
  \/ Tick

Spec == Init /\ [][Next]_vars

-----------------------------------------------------------------------------
(* Properties.                                                             *)

\* Token and IDToken never return a credential the server no longer honours,
\* although the expiry may be assumed late and a slow caller may put an older
\* token back into the cache.
ReturnedUsable ==
  \A c \in Callers : stage[c] = "returned" => since[c] < Dies(held[c])

\* A late store may put back an older token, but never one minted more than a
\* request's timeout before the one it replaces.
CacheHardlyRegresses ==
  [][cached # NoToken => minted'[cached'].at + HttpTimeout >= minted[cached].at]_vars

\* How long a caller that stored a token is served from the cache.
Window == IF ServerExpiry THEN Lifetime - Margin - HttpTimeout
                          ELSE AssumedTTL - Margin

\* The stampede is bounded: a caller whose token was stored does not mint
\* again before the window is over, whoever else stores in the meantime.
MintsSpaced ==
  \A i, j \in DOMAIN minted :
    i < j /\ i \in stored /\ minted[i].by = minted[j].by
      => minted[j].at >= minted[i].at + Window

-----------------------------------------------------------------------------
(* The strengthening that makes the two properties above provable.         *)

\* Nothing is minted in the future.
MintInv == \A k \in DOMAIN minted : minted[k].at <= time

\* An answer is never older than the request it answers, and no request is
\* older than the timeout.
CallerInv ==
  \A c \in Callers :
    /\ since[c] <= time
    /\ InFlight(c) => time <= since[c] + HttpTimeout
    /\ stage[c] \in {"answered", "returned"} => held[c] # NoToken
    /\ stage[c] = "answered" => minted[held[c]].at >= since[c]

\* What is recorded of the cached token is at most Margin too optimistic.
CacheInv == cached # NoToken => expiresAt <= Dies(cached) + Margin

IInv == TypeOK /\ MintInv /\ CallerInv /\ CacheInv /\ ReturnedUsable

\* Every token that was stored keeps the cache fresh for its window, whoever
\* has stored since.
CacheServes ==
  \A i \in stored : cached # NoToken /\ expiresAt >= minted[i].at + Window + Margin

\* So a caller that missed has no token stored within the window: its own are
\* stored by itself, before it asks again.
MissedLate ==
  \A c \in Callers : stage[c] \in {"missed", "discovering", "minting"} =>
    \A i \in stored : minted[i].by = c => time >= minted[i].at + Window

\* The token a caller is about to store is the last one it was given.
AnswerIsLatest ==
  \A c \in Callers : stage[c] = "answered" =>
    /\ minted[held[c]].by = c
    /\ \A j \in DOMAIN minted : minted[j].by = c => j <= held[c]

\* It rests on IInv.
SpacedInv == CacheServes /\ MissedLate /\ AnswerIsLatest /\ MintsSpaced

=============================================================================
