-------------------------- MODULE TokenSourceProofs --------------------------
(***************************************************************************)
(* Proofs about the credential caches, for any number of callers and all   *)
(* lifetimes, margins and timeouts that TokenAssumption admits.            *)
(***************************************************************************)
EXTENDS TokenSource, TLAPS

USE TokenAssumption

\* The fields of a minted token.
LEMMA MintedType ==
  ASSUME TypeOK, NEW k \in 1..Len(minted)
  PROVE  minted[k].at \in Nat /\ Dies(k) \in Nat
<1>1. minted[k] \in Token
  BY DEF TypeOK
<1> QED
  BY <1>1 DEF Token, Dies

\* A new token leaves those minted before as they were.
LEMMA MintAppends ==
  ASSUME TypeOK, NEW c \in Callers, ServerMints(c)
  PROVE  /\ minted' \in Seq(Token)
         /\ Len(minted') = Len(minted) + 1
         /\ \A k \in 1..Len(minted) : minted'[k] = minted[k]
         /\ minted'[Len(minted) + 1].at = time
<1>1. [at |-> time, by |-> c] \in Token
  BY DEF TypeOK, Token
<1> QED
  BY <1>1 DEF TypeOK, ServerMints

-----------------------------------------------------------------------------

LEMMA InitIInv == Init => IInv
<1> SUFFICES ASSUME Init PROVE IInv
  OBVIOUS
<1> USE DEF Init, NoToken
<1>1. minted \in Seq(Token) /\ Len(minted) = 0 /\ DOMAIN minted = {}
  OBVIOUS
<1>2. TypeOK
  <2>1. 0 \in 0..Len(minted) /\ stored \subseteq 1..Len(minted)
    BY <1>1
  <2>2. /\ stage \in [Callers -> Stages]
        /\ held \in [Callers -> 0..Len(minted)]
        /\ since \in [Callers -> Nat]
    BY <2>1 DEF Stages
  <2>3. cached \in 0..Len(minted)
    BY <2>1
  <2>4. time \in Nat /\ expiresAt \in Nat /\ resolved \in BOOLEAN /\ kind \in Kinds
    OBVIOUS
  <2> HIDE DEF Init
  <2> QED
    BY <1>1, <2>1, <2>2, <2>3, <2>4 DEF TypeOK
<1>3. MintInv /\ CacheInv
  BY <1>1 DEF MintInv, CacheInv
<1>4. CallerInv /\ ReturnedUsable
  BY DEF CallerInv, InFlight, ReturnedUsable
<1> QED
  BY <1>2, <1>3, <1>4 DEF IInv

\* A step that mints and stores nothing and lets no time pass keeps what is
\* known of the tokens and of the cache.
LEMMA CallerStep ==
  ASSUME IInv, UNCHANGED <<kind, time, minted, stored, cache>>, resolved' \in BOOLEAN,
         stage' \in [Callers -> Stages], held' \in [Callers -> 0..Len(minted)],
         since' \in [Callers -> Nat], CallerInv', ReturnedUsable'
  PROVE  IInv'
BY DEF IInv, TypeOK, MintInv, CacheInv, Dies, cache

LEMMA HitKeeps == ASSUME IInv, NEW c \in Callers, CacheHit(c) PROVE IInv'
<1> USE DEF CacheHit, Goes
<1>1. cached \in 1..Len(minted) /\ cached # NoToken
  BY DEF IInv, TypeOK, Fresh, NoToken
<1>2. time < Dies(cached)
  <2>1. Dies(cached) \in Nat
    BY <1>1, MintedType DEF IInv
  <2>2. time \in Nat /\ expiresAt \in Nat /\ expiresAt - time > Margin
    BY DEF IInv, TypeOK, Fresh
  <2>3. expiresAt <= Dies(cached) + Margin
    BY <1>1 DEF IInv, CacheInv
  <2> QED
    BY <2>1, <2>2, <2>3
<1>3. /\ resolved' \in BOOLEAN
      /\ stage' \in [Callers -> Stages]
      /\ held' \in [Callers -> 0..Len(minted)]
      /\ since' \in [Callers -> Nat]
  BY DEF IInv, TypeOK, Stages
<1>4. CallerInv'
  BY <1>1 DEF IInv, TypeOK, CallerInv, InFlight
<1>5. ReturnedUsable'
  BY <1>2 DEF IInv, TypeOK, ReturnedUsable, Dies
<1> QED
  BY <1>3, <1>4, <1>5, CallerStep

\* A caller that asks, waits for an answer from now on.
LEMMA AskKeeps ==
  ASSUME IInv, NEW c \in Callers, NEW to \in {"discovering", "minting"}, Asks(c, to),
         UNCHANGED <<kind, time, minted, stored, cache, held>>, resolved' \in BOOLEAN
  PROVE  IInv'
<1> USE DEF Asks, Goes
<1>1. /\ stage' \in [Callers -> Stages]
      /\ held' \in [Callers -> 0..Len(minted)]
      /\ since' \in [Callers -> Nat]
  BY DEF IInv, TypeOK, Stages
<1>2. CallerInv'
  BY DEF IInv, TypeOK, CallerInv, InFlight
<1>3. ReturnedUsable'
  BY DEF IInv, TypeOK, ReturnedUsable, Dies
<1> QED
  BY <1>1, <1>2, <1>3, CallerStep

\* A caller outside of a request, with no token, is unconstrained.
LEMMA IdleKeeps ==
  ASSUME IInv, NEW c \in Callers, NEW to \in {"idle", "missed"}, Goes(c, to),
         \/ UNCHANGED <<held, since>>
         \/ /\ held' = [held EXCEPT ![c] = NoToken]
            /\ since' = [since EXCEPT ![c] = 0],
         UNCHANGED <<kind, time, minted, stored, cache, resolved>>
  PROVE  IInv'
<1>0. /\ time \in Nat
      /\ held \in [Callers -> 0..Len(minted)]
      /\ since \in [Callers -> Nat]
      /\ stage \in [Callers -> Stages]
  BY DEF IInv, TypeOK
<1>1. /\ resolved' \in BOOLEAN
      /\ stage' \in [Callers -> Stages]
      /\ stage'[c] = to
  BY <1>0 DEF IInv, TypeOK, Stages, Goes
<1>2. /\ held' \in [Callers -> 0..Len(minted)]
      /\ since' \in [Callers -> Nat]
      /\ since'[c] <= time
  <2>1. CASE UNCHANGED <<held, since>>
    BY <1>0, <2>1 DEF IInv, CallerInv
  <2>2. CASE /\ held' = [held EXCEPT ![c] = NoToken]
             /\ since' = [since EXCEPT ![c] = 0]
    <3>1. NoToken \in 0..Len(minted)
      BY DEF IInv, TypeOK, NoToken
    <3> QED
      BY <1>0, <2>2, <3>1
  <2> QED
    BY <2>1, <2>2
<1>3. \A d \in Callers \ {c} :
        stage'[d] = stage[d] /\ held'[d] = held[d] /\ since'[d] = since[d]
  BY <1>0 DEF Goes
<1>4. CallerInv'
  BY <1>1, <1>2, <1>3 DEF IInv, CallerInv, InFlight
<1>5. ReturnedUsable'
  BY <1>1, <1>3 DEF IInv, ReturnedUsable, Dies
<1> QED
  BY <1>1, <1>2, <1>4, <1>5, CallerStep

LEMMA MintKeeps == ASSUME IInv, NEW c \in Callers, ServerMints(c) PROVE IInv'
<1> DEFINE n == Len(minted) + 1
<1>0. TypeOK
  BY DEF IInv
<1>1. /\ minted' \in Seq(Token)
      /\ Len(minted') = n
      /\ \A k \in 1..Len(minted) : minted'[k] = minted[k]
      /\ minted'[n].at = time
  BY <1>0, MintAppends
<1>2. TypeOK'
  BY <1>0, <1>1 DEF ServerMints, Goes, TypeOK, Stages, cache
<1>3. MintInv'
  <2> SUFFICES ASSUME NEW k \in 1..n PROVE minted'[k].at <= time
    BY <1>1, <1>2 DEF MintInv, ServerMints, TypeOK
  <2>1. CASE k = n
    BY <1>0, <1>1, <2>1 DEF TypeOK
  <2>2. CASE k \in 1..Len(minted)
    <3>1. minted'[k] = minted[k] /\ k \in DOMAIN minted
      BY <1>0, <1>1, <2>2 DEF TypeOK
    <3> QED
      BY <3>1 DEF IInv, MintInv
  <2> QED
    BY <1>0, <2>1, <2>2 DEF TypeOK
<1>4. CallerInv'
  <2> SUFFICES ASSUME NEW d \in Callers
               PROVE  /\ since[d] <= time
                      /\ InFlight(d)' => time <= since[d] + HttpTimeout
                      /\ stage'[d] \in {"answered", "returned"} => held'[d] # NoToken
                      /\ stage'[d] = "answered" => minted'[held'[d]].at >= since[d]
    BY DEF CallerInv, ServerMints, InFlight
  <2>1. CASE d = c
    BY <1>0, <1>1, <2>1 DEF IInv, CallerInv, InFlight, ServerMints, Goes, TypeOK, NoToken
  <2>2. CASE d # c
    BY <1>0, <1>1, <2>2 DEF IInv, CallerInv, InFlight, ServerMints, Goes, TypeOK, NoToken
  <2> QED
    BY <2>1, <2>2
<1>5. CacheInv'
  BY <1>0, <1>1 DEF IInv, CacheInv, Dies, ServerMints, cache, TypeOK, NoToken
<1>6. ReturnedUsable'
  <2> SUFFICES ASSUME NEW d \in Callers, stage'[d] = "returned"
               PROVE  since[d] < minted'[held'[d]].at + Lifetime
    BY DEF ReturnedUsable, Dies, ServerMints
  <2>1. d # c /\ stage[d] = "returned" /\ held'[d] = held[d]
    BY <1>0 DEF ServerMints, Goes, TypeOK
  <2>2. held[d] \in 1..Len(minted)
    BY <1>0, <2>1 DEF IInv, CallerInv, TypeOK, NoToken
  <2> QED
    BY <1>1, <2>1, <2>2 DEF IInv, ReturnedUsable, Dies
<1> QED
  BY <1>2, <1>3, <1>4, <1>5, <1>6 DEF IInv

\* What a caller stores was minted during its own request.
LEMMA AnswerIsRecent ==
  ASSUME IInv, NEW c \in Callers, stage[c] = "answered"
  PROVE  /\ held[c] \in 1..Len(minted)
         /\ minted[held[c]].at \in Nat
         /\ minted[held[c]].at <= time
         /\ time <= minted[held[c]].at + HttpTimeout
<1>1. held[c] \in 1..Len(minted)
  BY DEF IInv, CallerInv, TypeOK, NoToken
<1>2. minted[held[c]].at \in Nat
  BY <1>1, MintedType DEF IInv
<1>3. since[c] \in Nat /\ time \in Nat
  BY DEF IInv, TypeOK
<1>4. minted[held[c]].at >= since[c] /\ time <= since[c] + HttpTimeout
  BY DEF IInv, CallerInv, InFlight
<1>5. minted[held[c]].at <= time
  BY <1>1 DEF IInv, MintInv, TypeOK
<1> QED
  BY <1>1, <1>2, <1>3, <1>4, <1>5

\* An assumed expiry is at most the margin later than the true one.
LEMMA AssumedExpiry ==
  ASSUME NEW t \in Nat, NEW at \in Nat, t <= at + HttpTimeout
  PROVE  t + AssumedTTL \in Nat /\ t + AssumedTTL <= (at + Lifetime) + Margin
BY TokenAssumption

LEMMA StoreKeeps == ASSUME IInv, NEW c \in Callers, StoreToken(c) PROVE IInv'
<1> USE DEF StoreToken, Asks, Goes
<1>0. TypeOK
  BY DEF IInv
<1>1. /\ held[c] \in 1..Len(minted)
      /\ minted[held[c]].at \in Nat
      /\ minted[held[c]].at <= time
      /\ time <= minted[held[c]].at + HttpTimeout
  <2>1. stage[c] = "answered"
    OBVIOUS
  <2> QED
    BY <2>1, AnswerIsRecent
<1>2. StoredExpiry(held[c]) \in Nat /\ StoredExpiry(held[c]) <= Dies(held[c]) + Margin
  <2>0. time \in Nat
    BY <1>0 DEF TypeOK
  <2>1. CASE ServerExpiry
    <3>1. StoredExpiry(held[c]) = Dies(held[c])
      BY <2>1 DEF StoredExpiry
    <3>2. Dies(held[c]) \in Nat
      BY <1>1 DEF Dies
    <3> QED
      BY <3>1, <3>2
  <2>2. CASE ~ServerExpiry
    <3>1. StoredExpiry(held[c]) = time + AssumedTTL
      BY <2>2 DEF StoredExpiry
    <3> QED
      BY <1>1, <2>0, <3>1, AssumedExpiry, Zenon DEF Dies
  <2> QED
    BY <2>1, <2>2
<1>3. TypeOK'
  BY <1>0, <1>1, <1>2 DEF TypeOK, Stages
<1>4. MintInv'
  BY DEF IInv, MintInv
<1>5. CallerInv'
  <2> SUFFICES ASSUME NEW d \in Callers
               PROVE  /\ since'[d] <= time
                      /\ InFlight(d)' => time <= since'[d] + HttpTimeout
                      /\ stage'[d] \in {"answered", "returned"} => held[d] # NoToken
                      /\ stage'[d] = "answered" => minted[held[d]].at >= since'[d]
    BY DEF CallerInv
  <2>1. CASE d = c
    <3>1. stage'[d] = "returned" /\ since'[d] = time /\ held[d] # NoToken
      BY <1>0, <1>1, <2>1 DEF TypeOK, NoToken
    <3> QED
      BY <1>0, <3>1 DEF InFlight, TypeOK
  <2>2. CASE d # c
    <3>1. stage'[d] = stage[d] /\ since'[d] = since[d]
      BY <1>0, <2>2 DEF TypeOK
    <3> QED
      BY <3>1 DEF IInv, CallerInv, InFlight
  <2> QED
    BY <2>1, <2>2
<1>6. CacheInv'
  BY <1>2 DEF CacheInv, Dies
<1>7. ReturnedUsable'
  BY <1>0, <1>1 DEF IInv, ReturnedUsable, Dies, TypeOK
<1> QED
  BY <1>3, <1>4, <1>5, <1>6, <1>7 DEF IInv

LEMMA TickKeeps == ASSUME IInv, Tick PROVE IInv'
<1> USE DEF Tick, cache, callers
<1>1. TypeOK'
  BY DEF IInv, TypeOK
<1>2. MintInv'
  <2> SUFFICES ASSUME NEW k \in DOMAIN minted PROVE minted[k].at <= time + 1
    BY DEF MintInv
  <2>1. minted[k].at \in Nat /\ time \in Nat
    BY MintedType DEF IInv, TypeOK
  <2> QED
    BY <2>1 DEF IInv, MintInv
<1>3. CallerInv'
  BY DEF IInv, CallerInv, InFlight, TypeOK
<1>4. CacheInv' /\ ReturnedUsable'
  BY DEF IInv, CacheInv, ReturnedUsable, Dies
<1> QED
  BY <1>1, <1>2, <1>3, <1>4 DEF IInv

LEMMA NextIInv == IInv /\ [Next]_vars => IInv'
<1> SUFFICES ASSUME IInv, [Next]_vars PROVE IInv'
  OBVIOUS
<1>0. resolved \in BOOLEAN
  BY DEF IInv, TypeOK
<1>1. ASSUME NEW c \in Callers, CacheHit(c) PROVE IInv'
  BY <1>1, HitKeeps
<1>2. ASSUME NEW c \in Callers, CacheMiss(c) PROVE IInv'
  BY <1>2, IdleKeeps DEF CacheMiss
<1>3. ASSUME NEW c \in Callers, InstallationKnown(c) PROVE IInv'
  BY <1>0, <1>3, AskKeeps DEF InstallationKnown
<1>4. ASSUME NEW c \in Callers, ListInstallations(c) PROVE IInv'
  BY <1>0, <1>4, AskKeeps DEF ListInstallations
<1>5. ASSUME NEW c \in Callers, InstallationFound(c) PROVE IInv'
  BY <1>5, AskKeeps DEF InstallationFound
<1>6. ASSUME NEW c \in Callers, ServerMints(c) PROVE IInv'
  BY <1>6, MintKeeps
<1>7. ASSUME NEW c \in Callers, StoreToken(c) PROVE IInv'
  BY <1>7, StoreKeeps
<1>8. ASSUME NEW c \in Callers, Fails(c) \/ Uses(c) PROVE IInv'
  BY <1>8, IdleKeeps DEF Fails, Uses, StartsOver
<1>9. CASE Tick
  BY <1>9, TickKeeps
<1>10. CASE UNCHANGED vars
  BY <1>10 DEF vars, cache, callers, IInv, TypeOK, MintInv, CallerInv, InFlight,
               CacheInv, ReturnedUsable, Dies
<1> QED
  BY <1>1, <1>2, <1>3, <1>4, <1>5, <1>6, <1>7, <1>8, <1>9, <1>10 DEF Next

\* The inductive invariant: answers are as recent as the timeout makes them, and
\* the recorded expiry is at most the margin too late.
THEOREM Invariance == Spec => []IInv
BY InitIInv, NextIInv, PTL DEF Spec

\* The variables of the cache and of its callers keep their types.
THEOREM TypeCorrect == Spec => []TypeOK
<1>1. IInv => TypeOK
  BY DEF IInv
<1> QED
  BY <1>1, Invariance, PTL

\* Token() and IDToken() never return a credential that has expired at its
\* server, whatever the number of callers and the order of their stores.
THEOREM NeverReturnsExpired == Spec => []ReturnedUsable
<1>1. IInv => ReturnedUsable
  BY DEF IInv
<1> QED
  BY <1>1, Invariance, PTL

\* The unconditional overwrite in Token() and IDToken() costs at most one
\* request's timeout of lifetime.
THEOREM OverwriteBounded == Spec => CacheHardlyRegresses
<1> DEFINE Step == cached # NoToken =>
                     minted'[cached'].at + HttpTimeout >= minted[cached].at
<1>1. ASSUME IInv, [Next]_vars PROVE [Step]_vars
  <2> SUFFICES ASSUME cached # NoToken, Next
               PROVE  minted'[cached'].at + HttpTimeout >= minted[cached].at
    BY <1>1
  <2>0. TypeOK /\ cached \in 1..Len(minted)
    BY <1>1 DEF IInv, TypeOK, NoToken
  <2>1. minted[cached].at \in Nat /\ minted[cached].at <= time /\ time \in Nat
    BY <1>1, <2>0, MintedType DEF IInv, MintInv, TypeOK
  <2>2. ASSUME minted' = minted, cached' = cached
        PROVE  minted'[cached'].at + HttpTimeout >= minted[cached].at
    BY <2>1, <2>2
  <2>3. ASSUME NEW c \in Callers, ServerMints(c)
        PROVE  minted'[cached'].at + HttpTimeout >= minted[cached].at
    <3>1. cached' = cached
      BY <2>3 DEF ServerMints, cache
    <3>2. minted'[cached] = minted[cached]
      BY <2>0, <2>3, MintAppends
    <3> QED
      BY <2>1, <3>1, <3>2
  <2>4. ASSUME NEW c \in Callers, StoreToken(c)
        PROVE  minted'[cached'].at + HttpTimeout >= minted[cached].at
    <3>1. minted' = minted /\ cached' = held[c] /\ stage[c] = "answered"
      BY <2>4 DEF StoreToken
    <3>2. minted[held[c]].at \in Nat /\ time <= minted[held[c]].at + HttpTimeout
      BY <1>1, <3>1, AnswerIsRecent
    <3> QED
      BY <2>1, <3>1, <3>2
  <2> QED
    BY <2>2, <2>3, <2>4 DEF Next, CacheHit, CacheMiss, InstallationKnown,
       ListInstallations, InstallationFound, Fails, Uses, Tick, cache
<1> QED
  BY <1>1, Invariance, PTL DEF Spec, CacheHardlyRegresses

-----------------------------------------------------------------------------
(* How often a caller mints.                                               *)

Missed == {"missed", "discovering", "minting"}

LEMMA WindowType == ASSUME TypeOK PROVE Window \in Nat
BY DEF TypeOK, Window, ServerExpiry

\* The expiry a token comes with, against that of a token a timeout younger.
LEMMA ExpiryCovers ==
  ASSUME NEW x \in Nat, NEW y \in Nat, NEW t \in Nat, y <= t, t <= x + HttpTimeout
  PROVE  /\ x + Lifetime >= y + (Lifetime - Margin - HttpTimeout) + Margin
         /\ t + AssumedTTL >= y + (AssumedTTL - Margin) + Margin
OBVIOUS

LEMMA InitSpacedInv == Init => SpacedInv
BY DEF Init, SpacedInv, CacheServes, MissedLate, AnswerIsLatest, MintsSpaced

\* A caller that misses does so after the window of every stored token.
LEMMA MissIsLate ==
  ASSUME IInv, CacheServes, ~Fresh, NEW i \in stored
  PROVE  time >= minted[i].at + Window
<1>1. cached # NoToken /\ expiresAt >= minted[i].at + Window + Margin
  BY DEF CacheServes
<1>2. /\ minted[i].at \in Nat /\ Window \in Nat
      /\ time \in Nat /\ expiresAt \in Nat
  BY MintedType, WindowType DEF IInv, TypeOK
<1>3. ~(expiresAt - time > Margin)
  BY <1>1 DEF Fresh
<1> QED
  BY <1>1, <1>2, <1>3

\* A step of one caller that mints and stores nothing.
LEMMA SpacedCaller ==
  ASSUME IInv, SpacedInv, NEW c \in Callers,
         UNCHANGED <<kind, time, minted, stored, cache>>,
         \A d \in Callers \ {c} : stage'[d] = stage[d] /\ held'[d] = held[d],
         stage'[c] # "answered",
         stage'[c] \in Missed => stage[c] \in Missed \/ ~Fresh
  PROVE  SpacedInv'
<1>1. Window' = Window
  BY DEF Window, ServerExpiry
<1>2. CacheServes' /\ MintsSpaced'
  BY <1>1 DEF SpacedInv, CacheServes, MintsSpaced, cache
<1>3. MissedLate'
  <2> SUFFICES ASSUME NEW d \in Callers, stage'[d] \in Missed,
                      NEW i \in stored, minted[i].by = d
               PROVE  time >= minted[i].at + Window
    BY <1>1 DEF MissedLate, Missed
  <2>1. CASE stage[d] \in Missed
    BY <2>1 DEF SpacedInv, MissedLate, Missed
  <2>2. CASE d = c /\ ~Fresh
    BY <2>2, MissIsLate DEF SpacedInv
  <2> QED
    BY <2>1, <2>2
<1>4. AnswerIsLatest'
  <2> SUFFICES ASSUME NEW d \in Callers, stage'[d] = "answered"
               PROVE  /\ minted[held'[d]].by = d
                      /\ \A j \in DOMAIN minted : minted[j].by = d => j <= held'[d]
    BY DEF AnswerIsLatest
  <2>1. stage[d] = "answered" /\ held'[d] = held[d]
    OBVIOUS
  <2> QED
    BY <2>1 DEF SpacedInv, AnswerIsLatest
<1> QED
  BY <1>2, <1>3, <1>4 DEF SpacedInv

\* A token is minted for a caller that missed after its windows.
LEMMA SpacedMint == ASSUME IInv, SpacedInv, NEW c \in Callers, ServerMints(c) PROVE SpacedInv'
<1> DEFINE n == Len(minted) + 1
<1>0. TypeOK /\ Window' = Window
  BY DEF IInv, ServerMints, Window, ServerExpiry
<1>1. /\ Len(minted) \in Nat /\ DOMAIN minted = 1..Len(minted) /\ DOMAIN minted' = 1..n
      /\ \A k \in 1..Len(minted) : minted'[k] = minted[k]
      /\ minted'[n].at = time /\ minted'[n].by = c
      /\ stored \subseteq 1..Len(minted)
  <2>1. [at |-> time, by |-> c] \in Token
    BY <1>0 DEF TypeOK, Token
  <2> QED
    BY <1>0, <2>1, MintAppends DEF TypeOK, ServerMints
<1>2. UNCHANGED <<kind, time, stored, cached, expiresAt>> /\ stage[c] = "minting"
  BY DEF ServerMints, cache
<1>3. /\ stage'[c] = "answered" /\ held'[c] = n
      /\ \A d \in Callers \ {c} : stage'[d] = stage[d] /\ held'[d] = held[d]
  BY <1>0 DEF ServerMints, Goes, TypeOK
<1> HIDE DEF n
<1>4. CacheServes'
  BY <1>0, <1>1, <1>2 DEF SpacedInv, CacheServes
<1>5. MissedLate'
  <2> SUFFICES ASSUME NEW d \in Callers, stage'[d] \in Missed,
                      NEW i \in stored, minted'[i].by = d
               PROVE  time >= minted'[i].at + Window
    BY <1>0, <1>2 DEF MissedLate, Missed
  <2>1. d # c /\ stage[d] \in Missed /\ minted'[i] = minted[i]
    BY <1>1, <1>3 DEF Missed
  <2> QED
    BY <2>1 DEF SpacedInv, MissedLate, Missed
<1>6. AnswerIsLatest'
  <2> SUFFICES ASSUME NEW d \in Callers, stage'[d] = "answered"
               PROVE  /\ minted'[held'[d]].by = d
                      /\ \A j \in 1..n : minted'[j].by = d => j <= held'[d]
    BY <1>1 DEF AnswerIsLatest
  <2>1. CASE d = c
    <3>1. \A j \in 1..n : j <= n
      BY <1>1 DEF n
    <3> QED
      BY <1>1, <1>3, <2>1, <3>1
  <2>2. CASE d # c
    <3>1. stage[d] = "answered" /\ held'[d] = held[d]
      BY <1>3, <2>2
    <3>2. held[d] \in 1..Len(minted)
      BY <3>1, AnswerIsRecent
    <3>3. \A j \in 1..n : j = n \/ j \in 1..Len(minted)
      BY <1>1 DEF n
    <3> QED
      BY <1>1, <2>2, <3>1, <3>2, <3>3 DEF SpacedInv, AnswerIsLatest
  <2> QED
    BY <2>1, <2>2
<1>7. MintsSpaced'
  <2> SUFFICES ASSUME NEW i \in 1..n, NEW j \in 1..n, i < j, i \in stored,
                      minted'[i].by = minted'[j].by
               PROVE  minted'[j].at >= minted'[i].at + Window
    BY <1>0, <1>1, <1>2 DEF MintsSpaced
  <2>1. i \in 1..Len(minted) /\ minted'[i] = minted[i]
    BY <1>1
  <2>2. CASE j = n
    <3>1. minted[i].by = c
      BY <1>1, <2>1, <2>2
    <3> QED
      BY <1>1, <1>2, <2>1, <2>2, <3>1 DEF SpacedInv, MissedLate
  <2>3. CASE j # n
    <3>1. j \in 1..Len(minted)
      BY <1>1, <2>3 DEF n
    <3> QED
      BY <1>1, <2>1, <3>1 DEF SpacedInv, MintsSpaced
  <2> QED
    BY <2>2, <2>3
<1> QED
  BY <1>4, <1>5, <1>6, <1>7 DEF SpacedInv

\* A store makes the cache serve the window of every token stored so far: what
\* is overwritten was minted at most a timeout after what overwrites it.
LEMMA SpacedStore == ASSUME IInv, SpacedInv, NEW c \in Callers, StoreToken(c) PROVE SpacedInv'
<1>0. TypeOK /\ Window' = Window /\ Window \in Nat
  BY WindowType DEF IInv, StoreToken, Window, ServerExpiry
<1>1. /\ stage[c] = "answered" /\ UNCHANGED <<kind, time, minted, held>>
      /\ stored' = stored \cup {held[c]} /\ cached' = held[c]
      /\ expiresAt' = StoredExpiry(held[c])
  BY DEF StoreToken
<1>2. /\ stage'[c] = "returned"
      /\ \A d \in Callers \ {c} : stage'[d] = stage[d]
  BY <1>0 DEF StoreToken, Asks, Goes, TypeOK
<1>3. /\ held[c] \in 1..Len(minted) /\ held[c] # NoToken
      /\ minted[held[c]].at \in Nat /\ minted[held[c]].at <= time
      /\ time <= minted[held[c]].at + HttpTimeout
  BY <1>1, AnswerIsRecent DEF NoToken
<1>4. CacheServes'
  <2> SUFFICES ASSUME NEW i \in 1..Len(minted)
               PROVE  StoredExpiry(held[c]) >= minted[i].at + Window + Margin
    BY <1>0, <1>1, <1>3 DEF CacheServes, TypeOK
  <2>1. minted[i].at \in Nat /\ minted[i].at <= time /\ time \in Nat
    BY <1>0, MintedType DEF IInv, MintInv, TypeOK
  <2>2. CASE ServerExpiry
    BY <1>3, <2>1, <2>2, ExpiryCovers, Zenon DEF StoredExpiry, Dies, Window
  <2>3. CASE ~ServerExpiry
    BY <1>3, <2>1, <2>3, ExpiryCovers, Zenon DEF StoredExpiry, Window
  <2> QED
    BY <2>2, <2>3
<1>5. minted[held[c]].by = c
  BY <1>1 DEF SpacedInv, AnswerIsLatest
<1>6. MissedLate'
  <2> SUFFICES ASSUME NEW d \in Callers, stage'[d] \in Missed,
                      NEW i \in stored', minted[i].by = d
               PROVE  time >= minted[i].at + Window
    BY <1>0, <1>1 DEF MissedLate, Missed
  <2>1. d # c /\ stage[d] \in Missed
    BY <1>2 DEF Missed
  <2>2. i \in stored
    BY <1>1, <1>5, <2>1
  <2> QED
    BY <2>1, <2>2 DEF SpacedInv, MissedLate, Missed
<1>7. AnswerIsLatest'
  <2> SUFFICES ASSUME NEW d \in Callers, stage'[d] = "answered"
               PROVE  /\ minted[held[d]].by = d
                      /\ \A j \in DOMAIN minted : minted[j].by = d => j <= held[d]
    BY <1>1 DEF AnswerIsLatest
  <2>1. stage[d] = "answered"
    BY <1>2
  <2> QED
    BY <2>1 DEF SpacedInv, AnswerIsLatest
<1>8. MintsSpaced'
  <2> SUFFICES ASSUME NEW i \in DOMAIN minted, NEW j \in DOMAIN minted, i < j,
                      i \in stored', minted[i].by = minted[j].by
               PROVE  minted[j].at >= minted[i].at + Window
    BY <1>0, <1>1 DEF MintsSpaced
  <2>1. i # held[c]
    <3> SUFFICES ASSUME i = held[c] PROVE FALSE
      OBVIOUS
    <3>1. j <= held[c]
      BY <1>1, <1>5 DEF SpacedInv, AnswerIsLatest
    <3> QED
      BY <1>0, <3>1 DEF TypeOK
  <2>2. i \in stored
    BY <1>1, <2>1
  <2> QED
    BY <2>2 DEF SpacedInv, MintsSpaced
<1> QED
  BY <1>4, <1>6, <1>7, <1>8 DEF SpacedInv

LEMMA SpacedTick == ASSUME IInv, SpacedInv, Tick PROVE SpacedInv'
<1> USE DEF Tick, cache, callers
<1>1. Window' = Window /\ TypeOK /\ Window \in Nat
  BY WindowType DEF Window, ServerExpiry, IInv
<1>2. CacheServes' /\ AnswerIsLatest' /\ MintsSpaced'
  BY <1>1 DEF SpacedInv, CacheServes, AnswerIsLatest, MintsSpaced
<1>3. MissedLate'
  <2> SUFFICES ASSUME NEW d \in Callers, stage[d] \in Missed,
                      NEW i \in stored, minted[i].by = d
               PROVE  time + 1 >= minted[i].at + Window
    BY <1>1 DEF MissedLate, Missed
  <2>1. minted[i].at \in Nat /\ time \in Nat
    BY <1>1, MintedType DEF TypeOK
  <2>2. time >= minted[i].at + Window
    BY DEF SpacedInv, MissedLate, Missed
  <2> QED
    BY <1>1, <2>1, <2>2
<1> QED
  BY <1>2, <1>3 DEF SpacedInv

LEMMA NextSpacedInv == IInv /\ SpacedInv /\ [Next]_vars => SpacedInv'
<1> SUFFICES ASSUME IInv, SpacedInv, [Next]_vars PROVE SpacedInv'
  OBVIOUS
<1>t. stage \in [Callers -> Stages] /\ held \in [Callers -> 0..Len(minted)]
  BY DEF IInv, TypeOK
<1>1. ASSUME NEW c \in Callers, CacheHit(c) \/ CacheMiss(c) PROVE SpacedInv'
  BY <1>t, <1>1, SpacedCaller DEF CacheHit, CacheMiss, Goes, Missed
<1>2. ASSUME NEW c \in Callers,
             InstallationKnown(c) \/ ListInstallations(c) \/ InstallationFound(c)
      PROVE  SpacedInv'
  BY <1>t, <1>2, SpacedCaller
  DEF InstallationKnown, ListInstallations, InstallationFound, Asks, Goes, Missed
<1>3. ASSUME NEW c \in Callers, Fails(c) \/ Uses(c) PROVE SpacedInv'
  BY <1>t, <1>3, SpacedCaller DEF Fails, Uses, StartsOver, Goes, Missed
<1>4. ASSUME NEW c \in Callers, ServerMints(c) \/ StoreToken(c) PROVE SpacedInv'
  BY <1>4, SpacedMint, SpacedStore
<1>5. CASE Tick
  BY <1>5, SpacedTick
<1>6. CASE UNCHANGED vars
  BY <1>6 DEF vars, cache, callers, SpacedInv, CacheServes, MissedLate, AnswerIsLatest,
              MintsSpaced, Window, ServerExpiry
<1> QED
  BY <1>1, <1>2, <1>3, <1>4, <1>5, <1>6 DEF Next

\* The stampede is bounded although the mutex does not cover the request: a
\* caller whose token was stored is served from the cache for the whole window,
\* whichever older tokens are put back in the meantime.
THEOREM MintsAreSpaced == Spec => []MintsSpaced
<1>1. Spec => []SpacedInv
  BY Invariance, InitSpacedInv, NextSpacedInv, PTL DEF Spec
<1> QED
  BY <1>1, PTL DEF SpacedInv

=============================================================================
