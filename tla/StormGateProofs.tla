--------------------------- MODULE StormGateProofs ---------------------------
(***************************************************************************)
(* Proofs about StormGate for every set of requests, models and policies   *)
(* and every setting: types, the ownership of recovery probes, single-file *)
(* recovery, that a gate closes only by its own probe, that every waiter   *)
(* is counted and woken, and that storms are just.                         *)
(***************************************************************************)
EXTENDS StormGate, FiniteSetTheorems, TLAPS

\* Counters per scope stay natural when some are bumped or reset.
LEMMA BumpResetType ==
  ASSUME NEW f \in [Scopes -> Nat], NEW S
  PROVE  Bump(f, S) \in [Scopes -> Nat] /\ Reset(f, S) \in [Scopes -> Nat]
BY DEF Bump, Reset

\* Counters that go both ways stay integers.
LEMMA BumpDropType ==
  ASSUME NEW f \in [Scopes -> Int], NEW S
  PROVE  Bump(f, S) \in [Scopes -> Int] /\ Drop(f, S) \in [Scopes -> Int]
BY DEF Bump, Drop

\* delay keeps every backoff within MaxBackoff, for any multiplier and any
\* initial backoff.
LEMMA NextBackoffType ==
  ASSUME PaceTyped, NEW s \in Scopes, NEW grow
  PROVE  NextBackoff(s, grow) \in 0 .. MaxBackoff
<1>1. backoff[s] \in Nat
  BY StormAssumption DEF PaceTyped
<1>2. backoff[s] * BackoffMultiplier \in Nat
  BY <1>1, StormAssumption
<1>3. QED
  BY <1>1, <1>2, StormAssumption DEF NextBackoff

\* Repacing scopes keeps backoffs, windows and timers typed.
LEMMA RepaceType ==
  ASSUME PaceTyped, NEW S \in SUBSET Scopes, NEW Grown, NEW hint \in Nat,
         NEW Cleared, NEW Extended \in SUBSET Scopes,
         Repace(S, Grown, hint, Cleared, Extended)
  PROVE  /\ backoff' \in [Scopes -> 0 .. MaxBackoff]
         /\ cooldown' \in [Scopes -> Nat] /\ timer' \subseteq Scopes
<1>1. backoff' \in [Scopes -> 0 .. MaxBackoff]
  <2>1. \A s \in Scopes : NextBackoff(s, s \in Grown) \in 0 .. MaxBackoff
    BY NextBackoffType
  <2>2. backoff' = [s \in Scopes |-> IF s \in S THEN NextBackoff(s, s \in Grown)
                                  ELSE IF s \in Cleared THEN 0 ELSE backoff[s]]
    BY DEF Repace
  <2>3. 0 \in 0 .. MaxBackoff
    BY StormAssumption
  <2>4. QED
    BY <2>1, <2>2, <2>3 DEF PaceTyped
<1>2. cooldown' \in [Scopes -> Nat]
  <2>1. PICK jitter \in [S -> 0 .. MaxBackoff] :
          cooldown' = [s \in Scopes |->
            IF s \in S THEN delay(s, s \in Grown, hint, jitter[s])
            ELSE IF s \in Cleared THEN 0
            ELSE IF s \in Extended THEN hint ELSE cooldown[s]]
    BY DEF Repace
  <2>2. \A s \in S : delay(s, s \in Grown, hint, jitter[s]) \in Nat
    BY StormAssumption DEF delay, Longer, PaceTyped
  <2>3. QED
    BY <2>1, <2>2 DEF PaceTyped
<1>3. timer' \subseteq Scopes
  BY DEF Repace, PaceTyped
<1>4. QED
  BY <1>1, <1>2, <1>3

\* The kinds of step, for the proofs that unfold all of them.
LEMMA NextCases ==
  ASSUME [Next]_vars
  PROVE  \/ \E r \in Requests : Start(r) \/ Waits(r) \/ GiveUp(r)
         \/ \E r \in Requests : SettleStale(r) \/ ObserveSuccess(r)
                                \/ CancelPermit(r)
         \/ \E r \in Requests : \E hint \in Hints :
              ObserveFailure(r, hint) \/ ObserveQuota(r, hint)
         \/ ReleaseQuota \/ Configure \/ Tick
         \/ \E s \in Scopes : TimerFires(s) \/ SampleExpires(s)
                              \/ ActivityExpires(s)
         \/ UNCHANGED vars
BY Zenon DEF Next, Settles, Finished

\* The keys of a request are scopes.
LEMMA KeysType == ASSUME NEW r \in Requests PROVE Keys(r) \subseteq Scopes
BY StormAssumption DEF Keys, Scopes

\* Every step keeps the gates typed.
LEMMA GatesStep == GatesTyped /\ RequestsTyped /\ [Next]_vars => GatesTyped'
<1> SUFFICES ASSUME GatesTyped, RequestsTyped, [Next]_vars PROVE GatesTyped'
  OBVIOUS
<1>0. opts' \in Policies /\ generation' \in Nat \ {0} /\ lowered' \subseteq Nat
  <2>0. opts \in Policies /\ generation \in Nat \ {0} /\ lowered \subseteq Nat
    BY DEF GatesTyped
  <2>1. CASE Configure
    <3>1. /\ generation' = generation + 1 /\ opts' \in Policies
          /\ lowered' = lowered \/ lowered' = lowered \cup {generation + 1}
      BY <2>1 DEF Configure
    <3>2. generation + 1 \in Nat \ {0}
      BY <2>0
    <3>3. lowered' \subseteq Nat
      BY <2>0, <3>1, <3>2, Zenon
    <3>4. QED
      BY <3>1, <3>2, <3>3
  <2>2. CASE UNCHANGED optVars
    BY <2>0, <2>2 DEF optVars
  <2>3. UNCHANGED optVars \/ Configure
    <3>1. ASSUME NEW r \in Requests, Start(r) \/ Waits(r) \/ GiveUp(r)
          PROVE  UNCHANGED optVars
      BY <3>1, Zenon DEF Start, Waits, AdmitDisarmed, RefuseCapacity, PassReady, Grant,
        RefuseFull, Park, GiveUp
    <3>2. ASSUME NEW r \in Requests, NEW hint,
                 \/ SettleStale(r) \/ ObserveSuccess(r) \/ CancelPermit(r)
                 \/ ObserveFailure(r, hint) \/ ObserveQuota(r, hint)
          PROVE  UNCHANGED optVars
      BY <3>2, Zenon DEF SettleStale, ObserveSuccess, CancelPermit, ObserveFailure,
        ObserveQuota, Settle
    <3>3. ASSUME ReleaseQuota \/ Tick \/ UNCHANGED vars PROVE UNCHANGED optVars
      BY <3>3, Zenon DEF ReleaseQuota, Tick, vars
    <3>4. ASSUME NEW s \in Scopes,
                 TimerFires(s) \/ SampleExpires(s) \/ ActivityExpires(s)
          PROVE  UNCHANGED optVars
      BY <3>4, Zenon DEF TimerFires, SampleExpires, ActivityExpires
    <3>5. QED
      BY <3>1, <3>2, <3>3, <3>4, NextCases, Zenon
  <2>4. QED
    BY <2>1, <2>2, <2>3
<1>1. ASSUME NEW r \in Requests, Start(r) \/ Waits(r) \/ GiveUp(r)
      PROVE  GatesTyped'
  <2>1. CASE Start(r) \/ AdmitDisarmed(r) \/ GiveUp(r)
    BY <1>0, <2>1 DEF Start, AdmitDisarmed, GiveUp, GatesTyped, gateVars
  <2>2. CASE RefuseCapacity(r) \/ PassReady(r) \/ RefuseFull(r) \/ Park(r)
    BY <1>0, <2>2, KeysType, BumpResetType DEF RefuseCapacity, PassReady, RefuseFull, Park, Evict,
      TouchScopes, GatesTyped
  <2>3. CASE Grant(r)
    BY <1>0, <2>3, KeysType, BumpResetType DEF Grant, Evict, TouchScopes, Due,
      GatesTyped
  <2>4. QED
    BY <1>1, <2>1, <2>2, <2>3 DEF Waits
<1>2. ASSUME NEW r \in Requests,
             SettleStale(r) \/ ObserveSuccess(r) \/ CancelPermit(r)
      PROVE  GatesTyped'
  BY <1>0, <1>2, BumpResetType DEF SettleStale, ObserveSuccess, CancelPermit, Settle,
    GatesTyped, gateVars
<1>3. ASSUME NEW r \in Requests, NEW hint \in Hints,
             ObserveFailure(r, hint) \/ ObserveQuota(r, hint)
      PROVE  GatesTyped'
  <2>1. claimed[r] \subseteq Scopes
    BY DEF RequestsTyped
  <2>2. Opening(r) \subseteq Scopes /\ QuotaOpening(r) \subseteq {Provider}
    BY <2>1 DEF Opening, Settling, QuotaOpening
  <2>3. QED
    BY <1>0, <1>3, <2>2, BumpResetType DEF ObserveFailure, ObserveQuota, OpenEpoch,
      Settle, GatesTyped
<1>4. CASE ReleaseQuota \/ Configure \/ Tick \/ UNCHANGED vars
  <2>1. Zero \in [Scopes -> Nat]
    BY DEF Zero
  <2>2. QED
    BY <1>0, <1>4, <2>1, BumpResetType DEF ReleaseQuota, Configure, Close, Tick,
      GatesTyped, gateVars, vars
<1>5. ASSUME NEW s \in Scopes,
             TimerFires(s) \/ SampleExpires(s) \/ ActivityExpires(s)
      PROVE  GatesTyped'
  BY <1>0, <1>5 DEF TimerFires, SampleExpires, ActivityExpires, GatesTyped,
    gateVars
<1>6. QED
  BY <1>1, <1>2, <1>3, <1>4, <1>5, NextCases, Zenon

\* Every step keeps the pacing and the sampling windows typed.
LEMMA PaceStep ==
  GatesTyped /\ PaceTyped /\ RequestsTyped /\ [Next]_vars => PaceTyped'
<1> SUFFICES ASSUME GatesTyped, PaceTyped, RequestsTyped, [Next]_vars
             PROVE  PaceTyped'
  OBVIOUS
<1>0. /\ Zero \in [Scopes -> Nat] /\ Zero \in [Scopes -> 0 .. MaxBackoff]
      /\ \A S : Reset(backoff, S) \in [Scopes -> 0 .. MaxBackoff]
  BY StormAssumption DEF Zero, Reset, PaceTyped
<1>1. ASSUME NEW r \in Requests, Start(r) \/ Waits(r) \/ GiveUp(r)
      PROVE  PaceTyped'
  <2>1. CASE Start(r) \/ AdmitDisarmed(r) \/ GiveUp(r)
    BY <2>1 DEF Start, AdmitDisarmed, GiveUp, PaceTyped, paceVars, windowVars
  <2>2. CASE \/ RefuseCapacity(r) \/ PassReady(r) \/ RefuseFull(r) \/ Park(r)
             \/ Grant(r)
    <3>1. /\ backoff' = Reset(backoff, Evicted(r))
          /\ cooldown' = Reset(cooldown, Evicted(r))
          /\ timer' = timer \ Evicted(r)
          /\ samples' = Reset(samples, Evicted(r))
          /\ failures' = Reset(failures, Evicted(r))
      BY <2>2 DEF RefuseCapacity, PassReady, RefuseFull, Park, Grant, Evict
    <3>2. recent' \subseteq Scopes
      BY <2>2, KeysType DEF RefuseCapacity, PassReady, RefuseFull, Park, Grant,
        TouchScopes, Missing, PaceTyped
    <3>3. QED
      BY <1>0, <3>1, <3>2, BumpResetType DEF PaceTyped
  <2>3. QED
    BY <1>1, <2>1, <2>2 DEF Waits
<1>2. ASSUME NEW r \in Requests,
             SettleStale(r) \/ ObserveSuccess(r) \/ CancelPermit(r)
      PROVE  PaceTyped'
  <2>1. CASE SettleStale(r) \/ CancelPermit(r)
    BY <2>1 DEF SettleStale, CancelPermit, PaceTyped, paceVars, windowVars
  <2>2. CASE ObserveSuccess(r)
    <3>1. claimed[r] \subseteq Scopes
      BY DEF RequestsTyped
    <3>2. Probed(r) \cap StillOpen(r) \in SUBSET Scopes
      BY <3>1 DEF Probed, Settling
    <3>3. Repace(Probed(r) \cap StillOpen(r), {}, 0, Probed(r) \ StillOpen(r), {})
      BY <2>2 DEF ObserveSuccess
    <3>4. /\ backoff' \in [Scopes -> 0 .. MaxBackoff]
          /\ cooldown' \in [Scopes -> Nat] /\ timer' \subseteq Scopes
      BY <3>2, <3>3, RepaceType
    <3>5. /\ samples' = Reset(Bump(samples, claimed[r]), StormClosed(r))
          /\ failures' = Reset(failures, StormClosed(r))
          /\ recent' = recent \cup claimed[r]
      BY <2>2 DEF ObserveSuccess
    <3>6. QED
      BY <3>1, <3>4, <3>5, BumpResetType DEF PaceTyped
  <2>3. QED
    BY <1>2, <2>1, <2>2
<1>3. ASSUME NEW r \in Requests, NEW hint \in Hints,
             ObserveFailure(r, hint) \/ ObserveQuota(r, hint)
      PROVE  PaceTyped'
  <2>1. claimed[r] \subseteq Scopes /\ hint \in Nat
    BY StormAssumption DEF RequestsTyped
  <2>2. CASE ObserveFailure(r, hint)
    <3>1. /\ Probed(r) \cup Opening(r) \in SUBSET Scopes
          /\ Extending(r, hint) \in SUBSET Scopes
      BY <2>1 DEF Probed, Opening, Extending, Settling
    <3>2. Repace(Probed(r) \cup Opening(r), Probed(r), hint, {},
                 Extending(r, hint))
      BY <2>2 DEF ObserveFailure
    <3>3. /\ backoff' \in [Scopes -> 0 .. MaxBackoff]
          /\ cooldown' \in [Scopes -> Nat] /\ timer' \subseteq Scopes
      BY <2>1, <3>1, <3>2, RepaceType
    <3>4. /\ samples' = Bump(samples, claimed[r])
          /\ failures' = Bump(failures, claimed[r])
          /\ recent' = recent \cup claimed[r]
      BY <2>2 DEF ObserveFailure
    <3>5. QED
      BY <2>1, <3>3, <3>4, BumpResetType DEF PaceTyped
  <2>3. CASE ObserveQuota(r, hint)
    <3>1. QuotaProbed(r) \cup QuotaOpening(r) \in SUBSET Scopes
      BY <2>1 DEF QuotaProbed, QuotaOpening
    <3>2. Repace(QuotaProbed(r) \cup QuotaOpening(r), QuotaProbed(r), hint,
                 {}, {})
      BY <2>3 DEF ObserveQuota
    <3>3. /\ backoff' \in [Scopes -> 0 .. MaxBackoff]
          /\ cooldown' \in [Scopes -> Nat] /\ timer' \subseteq Scopes
      BY <2>1, <3>1, <3>2, RepaceType
    <3>4. QED
      BY <2>3, <3>3 DEF ObserveQuota, windowVars, PaceTyped
  <2>4. QED
    BY <1>3, <2>2, <2>3
<1>4. CASE ReleaseQuota \/ Configure \/ Tick \/ UNCHANGED vars
  BY <1>4, <1>0, BumpResetType DEF ReleaseQuota, Configure, Tick, PaceTyped,
    paceVars, windowVars, vars
<1>5. ASSUME NEW s \in Scopes,
             TimerFires(s) \/ SampleExpires(s) \/ ActivityExpires(s)
      PROVE  PaceTyped'
  BY <1>5 DEF TimerFires, SampleExpires, ActivityExpires, Fire, PaceTyped,
    paceVars, windowVars
<1>6. QED
  BY <1>1, <1>2, <1>3, <1>4, <1>5, NextCases, Zenon

\* Every step keeps the counters integers and the requests at their points
\* with typed permits.
LEMMA RequestsStep == GatesTyped /\ RequestsTyped /\ [Next]_vars => RequestsTyped'
<1> SUFFICES ASSUME GatesTyped, RequestsTyped, [Next]_vars PROVE RequestsTyped'
  OBVIOUS
<1>0. Zero \in [Scopes -> Nat] /\ Zero \in [Scopes -> Int]
  BY DEF Zero
<1>1. ASSUME NEW r \in Requests, Start(r) \/ Waits(r) \/ GiveUp(r)
      PROVE  RequestsTyped'
  <2>1. unqueueQueued(r) \in Int /\ unqueueWaiters(r) \in [Scopes -> Int]
    BY BumpDropType DEF unqueueQueued, unqueueWaiters, RequestsTyped
  <2>2. Unqueue(r) => /\ queued' \in Int /\ waiters' \in [Scopes -> Int]
                      /\ current' \subseteq Requests
    BY <2>1 DEF Unqueue, RequestsTyped
  <2>3. NoPermit(r) => /\ claimed' \in [Requests -> SUBSET Scopes]
                       /\ probes' \in [Requests -> SUBSET Scopes]
                       /\ seen' \in [Requests -> [Scopes -> Nat]]
                       /\ permitGen' \in [Requests -> Nat]
                       /\ outdated' \in [Requests -> SUBSET Scopes]
    BY <1>0 DEF NoPermit, RequestsTyped
  <2>4. CountSend(r) => attempts' \in [Requests -> Nat]
    BY DEF CountSend, RequestsTyped
  <2>5. CASE Start(r)
    BY <2>5 DEF Start, Goto, Points, RequestsTyped, queueVars, permitVars,
      boundVars
  <2>6. CASE AdmitDisarmed(r)
    BY <2>2, <2>3, <2>4, <2>6 DEF AdmitDisarmed, Goto, Points, RequestsTyped
  <2>7. CASE RefuseCapacity(r) \/ PassReady(r) \/ RefuseFull(r) \/ GiveUp(r)
    BY <2>2, <2>3, <2>7 DEF RefuseCapacity, PassReady, RefuseFull, GiveUp,
      Goto, Points, RequestsTyped, boundVars
  <2>8. CASE Grant(r)
    <3>1. /\ refs' \in [Scopes -> Int]
          /\ Reset(epoch, Scopes \ Keys(r)) \in [Scopes -> Nat]
      BY <2>8, BumpDropType, BumpResetType DEF Grant, RequestsTyped, GatesTyped
    <3>2. Keys(r) \subseteq Scopes /\ Due(r) \subseteq Scopes
      BY KeysType DEF Due
    <3>3. QED
      BY <2>2, <2>4, <2>8, <3>1, <3>2 DEF Grant, Goto, Points, GatesTyped,
        RequestsTyped
  <2>9. CASE Park(r)
    <3>1. queued' \in Int /\ waiters' \in [Scopes -> Int]
      BY <2>1, <2>9, BumpDropType DEF Park
    <3>2. QED
      BY <2>9, <3>1, KeysType DEF Park, Goto, Points, Parks, GatesTyped,
        RequestsTyped, boundVars
  <2>10. QED
    BY <1>1, <2>5, <2>6, <2>7, <2>8, <2>9 DEF Waits
<1>2. ASSUME NEW r \in Requests, Settle(r), UNCHANGED current \/ Wake,
             NEW S, Outdate(r, S)
      PROVE  RequestsTyped'
  <2>1. refs' \in [Scopes -> Int]
    BY <1>2, BumpDropType DEF Settle, RequestsTyped
  <2>2. outdated' \in [Requests -> SUBSET Scopes]
    BY <1>2 DEF Outdate, RequestsTyped
  <2>3. QED
    BY <1>0, <1>2, <2>1, <2>2 DEF Settle, Resume, Wake, Goto, Points,
      RequestsTyped, boundVars
<1>3. ASSUME NEW r \in Requests,
             SettleStale(r) \/ ObserveSuccess(r) \/ CancelPermit(r)
      PROVE  RequestsTyped'
  <2>1. CASE SettleStale(r)
    BY <1>0, <2>1 DEF SettleStale, NoPermit, Resume, Goto, Points,
      RequestsTyped, queueVars, boundVars
  <2>2. CASE ObserveSuccess(r) \/ CancelPermit(r)
    BY <1>2, <2>2 DEF ObserveSuccess, CancelPermit, WakeIf
  <2>3. QED
    BY <1>3, <2>1, <2>2
<1>4. ASSUME NEW r \in Requests, NEW hint \in Hints,
             ObserveFailure(r, hint) \/ ObserveQuota(r, hint)
      PROVE  RequestsTyped'
  BY <1>2, <1>4 DEF ObserveFailure, ObserveQuota, WakeIf
<1>5. CASE ReleaseQuota \/ Configure \/ Tick \/ UNCHANGED vars
  BY <1>0, <1>5 DEF ReleaseQuota, Configure, Close, Tick, Wake, RequestsTyped,
    queueVars, permitVars, boundVars, vars
<1>6. ASSUME NEW s \in Scopes,
             TimerFires(s) \/ SampleExpires(s) \/ ActivityExpires(s)
      PROVE  RequestsTyped'
  BY <1>6 DEF TimerFires, SampleExpires, ActivityExpires, Fire, Wake,
    RequestsTyped, queueVars, permitVars, boundVars
<1>7. QED
  BY <1>1, <1>3, <1>4, <1>5, <1>6, NextCases, Zenon

\* Every reachable state is typed; in particular no backoff exceeds MaxBackoff.
THEOREM TypeCorrect == Spec => []TypeOK
<1>1. Init => TypeOK
  BY StormAssumption DEF Init, TypeOK, GatesTyped, PaceTyped, RequestsTyped,
    Zero, Points
<1>2. TypeOK /\ [Next]_vars => TypeOK'
  BY GatesStep, PaceStep, RequestsStep DEF TypeOK
<1>3. QED
  BY <1>1, <1>2, PTL DEF Spec
-----------------------------------------------------------------------------
(***************************************************************************)
(* Probe ownership.  The inductive invariant relates the flags, epochs and *)
(* counts kept on the scopes to the permits that are out.  The counts are  *)
(* part of it because eviction looks at nothing else: a scope whose refs   *)
(* are zero is forgotten together with its probe flag and its epoch.       *)
(***************************************************************************)
RefsExact == \A s \in Scopes : refs[s] = Cardinality(Holders(s))

PermitsKnown ==
  \A r \in Requests :
    /\ permitGen[r] <= generation
    /\ Live(r) => /\ probes[r] \subseteq claimed[r]
                  /\ outdated[r] \subseteq claimed[r]
                  /\ \A s \in probes[r] : gates(s) /\ s \in probing

\* A permit that saw every opening of an open gate is its probe.
GrantedOpen ==
  \A r \in Requests : Live(r) =>
    \A s \in claimed[r] \ outdated[r] : Gated(s) => s \in probes[r]

\* A permit that missed an opening saw an earlier epoch.
EpochsSeen ==
  \A r \in Requests : Live(r) =>
    \A s \in claimed[r] : /\ seen[r][s] <= epoch[s]
                          /\ s \in outdated[r] => seen[r][s] < epoch[s]

ProbeInv ==
  TypeOK /\ RefsExact /\ PermitsKnown /\ ProbeOwned /\ GrantedOpen /\ EpochsSeen

\* A step that opens nothing, leaves every live permit alone and forgets only
\* scopes without one.
Quietly ==
  /\ UNCHANGED <<opts, generation, refs>>
  /\ \A s \in Scopes : Gated(s)' => Gated(s)
  /\ \E E \in SUBSET Scopes : /\ \A s \in E : refs[s] = 0
                              /\ probing' = probing \ E
                              /\ epoch' = Reset(epoch, E)
  /\ \A q \in Requests :
       /\ permitGen'[q] <= generation
       /\ Live(q)' <=> Live(q)
       /\ Live(q) => /\ claimed'[q] = claimed[q] /\ probes'[q] = probes[q]
                     /\ seen'[q] = seen[q] /\ outdated'[q] = outdated[q]

\* The settlement of r's live permit, which opens the gates of S.
Settlement(r, S) ==
  /\ Live(r) /\ pc'[r] # "upstream" /\ permitGen'[r] <= generation
  /\ UNCHANGED <<opts, generation>>
  /\ refs' = Drop(refs, claimed[r])
  /\ probing' = probing \ probes[r]
  /\ epoch' = Bump(epoch, S)
  /\ \A s \in Scopes : Gated(s)' => Gated(s) \/ s \in S
  /\ Outdate(r, S)
  /\ \A q \in Requests \ {r} :
       /\ pc'[q] = pc[q] /\ permitGen'[q] = permitGen[q]
       /\ claimed'[q] = claimed[q] /\ probes'[q] = probes[q]
       /\ seen'[q] = seen[q]

\* A scope without references has no live permit.
LEMMA NoRefsNoHolder ==
  ASSUME RefsExact, NEW s \in Scopes, refs[s] = 0,
         NEW q \in Requests, Live(q)
  PROVE  s \notin claimed[q]
<1>1. IsFiniteSet(Holders(s))
  BY StormAssumption, FS_Subset DEF Holders
<1>2. Holders(s) = {}
  BY <1>1, FS_EmptySet DEF RefsExact
<1>3. QED
  BY <1>2 DEF Holders

\* A step that touches only scopes nobody refers to keeps the invariant.
LEMMA QuietStep == ProbeInv /\ TypeOK' /\ Quietly => ProbeInv'
<1> SUFFICES ASSUME ProbeInv, TypeOK', Quietly PROVE ProbeInv'
  OBVIOUS
<1>1. PICK E \in SUBSET Scopes : /\ \A s \in E : refs[s] = 0
                                 /\ probing' = probing \ E
                                 /\ epoch' = Reset(epoch, E)
  BY DEF Quietly
<1>2. \A q \in Requests : Live(q) => claimed[q] \cap E = {}
  BY <1>1, NoRefsNoHolder DEF ProbeInv
<1>3. RefsExact'
  <2>1. ASSUME NEW s \in Scopes PROVE Holders(s)' = Holders(s)
    BY DEF Holders, Quietly
  <2>2. QED
    BY <2>1 DEF RefsExact, ProbeInv, Quietly
<1>4. PermitsKnown'
  BY <1>1, <1>2 DEF PermitsKnown, ProbeInv, Quietly, gates
<1>5. ProbeOwned'
  BY <1>1 DEF ProbeOwned, ProbeInv, Quietly
<1>6. GrantedOpen'
  <2> SUFFICES ASSUME NEW r \in Requests, Live(r)',
                      NEW s \in claimed'[r] \ outdated'[r], Gated(s)'
               PROVE  s \in probes'[r]
    BY DEF GrantedOpen
  <2>1. s \in Scopes
    BY DEF TypeOK, RequestsTyped
  <2>2. QED
    BY <2>1 DEF GrantedOpen, ProbeInv, Quietly
<1>7. EpochsSeen'
  <2> SUFFICES ASSUME NEW r \in Requests, Live(r)', NEW s \in claimed'[r]
               PROVE  /\ seen'[r][s] <= epoch'[s]
                      /\ s \in outdated'[r] => seen'[r][s] < epoch'[s]
    BY DEF EpochsSeen
  <2>1. Live(r) /\ s \in claimed[r] /\ s \in Scopes /\ s \notin E
    BY <1>2 DEF Quietly, TypeOK, RequestsTyped
  <2>2. epoch'[s] = epoch[s]
    BY <1>1, <2>1 DEF Reset
  <2>3. seen'[r] = seen[r] /\ outdated'[r] = outdated[r]
    BY <2>1 DEF Quietly
  <2>4. QED
    BY <2>1, <2>2, <2>3 DEF EpochsSeen, ProbeInv
<1>8. QED
  BY <1>3, <1>4, <1>5, <1>6, <1>7 DEF ProbeInv

\* A permit that ends gives up its probes and keeps the invariant.
LEMMA SettlementStep ==
  ASSUME ProbeInv, TypeOK', NEW r \in Requests, NEW S \in SUBSET Scopes,
         Settlement(r, S)
  PROVE  ProbeInv'
<1>1. /\ ~Live(r)'
      /\ \A q \in Requests \ {r} : Live(q)' <=> Live(q)
  BY DEF Live, SameGeneration, Settlement
<1>2. \A q \in Requests \ {r} : Live(q) =>
        outdated'[q] = outdated[q] \cup (S \cap claimed[q])
  BY DEF Outdate, Settlement
<1>3. RefsExact'
  <2> SUFFICES ASSUME NEW s \in Scopes PROVE refs'[s] = Cardinality(Holders(s)')
    BY DEF RefsExact
  <2>1. IsFiniteSet(Holders(s))
    BY StormAssumption, FS_Subset DEF Holders
  <2>2. Holders(s)' = Holders(s) \ {r}
    BY <1>1 DEF Holders, Settlement
  <2>3. refs[s] = Cardinality(Holders(s)) /\ refs[s] \in Int
    BY DEF ProbeInv, RefsExact, TypeOK, RequestsTyped
  <2>4. CASE s \in claimed[r]
    <3>1. r \in Holders(s)
      BY <2>4 DEF Holders, Settlement
    <3>2. Cardinality(Holders(s) \ {r}) = Cardinality(Holders(s)) - 1
      BY <2>1, <3>1, FS_RemoveElement
    <3>3. refs'[s] = refs[s] - 1
      BY <2>4 DEF Settlement, Drop
    <3>4. QED
      BY <2>2, <2>3, <3>2, <3>3
  <2>5. CASE s \notin claimed[r]
    <3>1. Holders(s) \ {r} = Holders(s)
      BY <2>5 DEF Holders
    <3>2. refs'[s] = refs[s]
      BY <2>5 DEF Settlement, Drop
    <3>3. QED
      BY <2>2, <2>3, <3>1, <3>2
  <2>6. QED
    BY <2>4, <2>5
<1>4. PermitsKnown'
  <2> SUFFICES ASSUME NEW q \in Requests
               PROVE  /\ permitGen'[q] <= generation'
                      /\ Live(q)' => /\ probes'[q] \subseteq claimed'[q]
                                     /\ outdated'[q] \subseteq claimed'[q]
                                     /\ \A s \in probes'[q] : gates(s)'
                                     /\ \A s \in probes'[q] : s \in probing'
    BY DEF PermitsKnown
  <2>1. CASE q = r
    BY <1>1, <2>1 DEF Settlement
  <2>2. CASE q # r
    <3>1. permitGen'[q] <= generation'
      BY <2>2 DEF Settlement, PermitsKnown, ProbeInv
    <3>2. ASSUME Live(q)'
          PROVE  /\ probes'[q] \subseteq claimed'[q]
                 /\ outdated'[q] \subseteq claimed'[q]
                 /\ \A s \in probes'[q] : gates(s)'
      BY <1>1, <1>2, <2>2, <3>2 DEF Settlement, PermitsKnown, ProbeInv, gates
    <3>3. ASSUME Live(q)', NEW s \in probes'[q] PROVE s \in probing'
      <4>1. Live(q) /\ s \in probes[q] /\ s \in probing /\ s \in Scopes
        BY <1>1, <2>2, <3>3 DEF Settlement, PermitsKnown, ProbeInv, TypeOK,
          RequestsTyped
      <4>2. s \notin probes[r]
        BY <2>2, <4>1 DEF ProbeInv, ProbeOwned, Settlement
      <4>3. QED
        BY <4>1, <4>2 DEF Settlement
    <3>4. QED
      BY <3>1, <3>2, <3>3
  <2>3. QED
    BY <2>1, <2>2
<1>5. ProbeOwned'
  <2>1. ASSUME NEW s \in Scopes, s \in probing'
        PROVE  \E q \in Requests : Live(q)' /\ s \in probes'[q]
    <3>1. PICK q \in Requests : Live(q) /\ s \in probes[q]
      BY <2>1 DEF ProbeOwned, ProbeInv, Settlement
    <3>2. q # r
      BY <2>1, <3>1 DEF Settlement
    <3>3. QED
      BY <1>1, <3>1, <3>2 DEF Settlement
  <2>2. ASSUME NEW s \in Scopes, NEW q \in Requests, NEW t \in Requests,
               Live(q)', Live(t)', s \in probes'[q] \cap probes'[t]
        PROVE  q = t
    BY <1>1, <2>2 DEF ProbeOwned, ProbeInv, Settlement
  <2>3. QED
    BY <2>1, <2>2 DEF ProbeOwned
<1>6. GrantedOpen'
  <2> SUFFICES ASSUME NEW q \in Requests, Live(q)',
                      NEW s \in claimed'[q] \ outdated'[q], Gated(s)'
               PROVE  s \in probes'[q]
    BY DEF GrantedOpen
  <2>1. q # r /\ Live(q) /\ s \in claimed[q] /\ s \in Scopes
    BY <1>1 DEF Settlement, TypeOK, RequestsTyped
  <2>2. s \notin S /\ s \notin outdated[q]
    BY <1>2, <2>1
  <2>3. Gated(s)
    BY <2>1, <2>2 DEF Settlement
  <2>4. s \in probes[q]
    BY <2>1, <2>2, <2>3 DEF GrantedOpen, ProbeInv
  <2>5. QED
    BY <2>1, <2>4 DEF Settlement
<1>7. EpochsSeen'
  <2> SUFFICES ASSUME NEW q \in Requests, Live(q)', NEW s \in claimed'[q]
               PROVE  /\ seen'[q][s] <= epoch'[s]
                      /\ s \in outdated'[q] => seen'[q][s] < epoch'[s]
    BY DEF EpochsSeen
  <2>1. q # r /\ Live(q) /\ s \in claimed[q] /\ s \in Scopes
    BY <1>1 DEF Settlement, TypeOK, RequestsTyped
  <2>2. /\ seen[q][s] <= epoch[s]
        /\ s \in outdated[q] => seen[q][s] < epoch[s]
    BY <2>1 DEF EpochsSeen, ProbeInv
  <2>3. epoch[s] \in Nat /\ seen[q][s] \in Nat
    BY <2>1 DEF ProbeInv, TypeOK, GatesTyped, RequestsTyped
  <2>4. epoch'[s] = IF s \in S THEN epoch[s] + 1 ELSE epoch[s]
    BY <2>1 DEF Settlement, Bump
  <2>5. seen'[q] = seen[q]
    BY <2>1 DEF Settlement
  <2>6. s \in outdated'[q] => s \in S \/ s \in outdated[q]
    BY <1>2, <2>1
  <2>7. QED
    BY <2>2, <2>3, <2>4, <2>5, <2>6
<1>8. QED
  BY <1>3, <1>4, <1>5, <1>6, <1>7 DEF ProbeInv
\* A scope that scopesFor evicts has no permit out.
LEMMA EvictedUnreferenced ==
  ASSUME NEW r \in Requests, scopes \subseteq Scopes
  PROVE  Evicted(r) \in SUBSET Scopes /\ \A s \in Evicted(r) : refs[s] = 0
BY DEF Evicted, Quiet

\* A grant takes the probe of every scope that is due: no other live
\* permit can own one of them.
LEMMA GrantStep ==
  ASSUME ProbeInv, TypeOK', NEW r \in Requests, Grant(r) PROVE ProbeInv'
<1>1. /\ ~Live(r) /\ Live(r)'
      /\ \A q \in Requests \ {r} : Live(q)' <=> Live(q)
  BY DEF Live, SameGeneration, Grant, Looks, Parked, Parks, Goto, optVars,
    ProbeInv, TypeOK, RequestsTyped
<1>2. /\ claimed'[r] = Keys(r) /\ probes'[r] = Due(r) /\ outdated'[r] = {}
      /\ permitGen'[r] = generation
      /\ seen'[r] = Reset(epoch, Scopes \ Keys(r))
      /\ \A q \in Requests \ {r} :
           /\ claimed'[q] = claimed[q] /\ probes'[q] = probes[q]
           /\ seen'[q] = seen[q] /\ outdated'[q] = outdated[q]
           /\ permitGen'[q] = permitGen[q]
  BY DEF Grant, ProbeInv, TypeOK, RequestsTyped
<1>3. /\ opts' = opts /\ generation' = generation
      /\ active' = active /\ quota' = quota
      /\ probing' = (probing \ Evicted(r)) \cup Due(r)
      /\ epoch' = Reset(epoch, Evicted(r))
      /\ refs' = Bump(refs, Keys(r))
  BY DEF Grant, Evict, optVars
<1>4. /\ Evicted(r) \in SUBSET Scopes /\ \A s \in Evicted(r) : refs[s] = 0
      /\ Evicted(r) \cap Keys(r) = {}
  BY EvictedUnreferenced DEF ProbeInv, TypeOK, GatesTyped, Evicted
<1>5. \A q \in Requests : Live(q) => claimed[q] \cap Evicted(r) = {}
  BY <1>4, NoRefsNoHolder DEF ProbeInv
<1>6. Keys(r) \subseteq Scopes /\ Due(r) \subseteq Keys(r)
  BY KeysType DEF Due
\* No gate of the send is held, so nobody probes the ones it claims.
<1>7. ASSUME NEW s \in Due(r), NEW q \in Requests, Live(q)
      PROVE  s \notin probes[q]
  <2>1. s \notin probing
    BY <1>7 DEF Due, Grant, Blocked, gateHeld
  <2>2. QED
    BY <1>7, <2>1 DEF ProbeInv, PermitsKnown
<1>8. RefsExact'
  <2> SUFFICES ASSUME NEW s \in Scopes PROVE refs'[s] = Cardinality(Holders(s)')
    BY DEF RefsExact
  <2>1. IsFiniteSet(Holders(s)) /\ r \notin Holders(s)
    BY <1>1, StormAssumption, FS_Subset DEF Holders
  <2>2. refs[s] = Cardinality(Holders(s)) /\ refs[s] \in Int
    BY DEF ProbeInv, RefsExact, TypeOK, RequestsTyped
  <2>3. CASE s \in Keys(r)
    <3>1. Holders(s)' = Holders(s) \cup {r}
      BY <1>1, <1>2, <2>3 DEF Holders
    <3>2. Cardinality(Holders(s) \cup {r}) = Cardinality(Holders(s)) + 1
      BY <2>1, FS_AddElement
    <3>3. refs'[s] = refs[s] + 1
      BY <1>3, <2>3 DEF Bump
    <3>4. QED
      BY <2>2, <3>1, <3>2, <3>3
  <2>4. CASE s \notin Keys(r)
    <3>1. Holders(s)' = Holders(s)
      BY <1>1, <1>2, <2>4 DEF Holders
    <3>2. QED
      BY <1>3, <2>2, <2>4, <3>1 DEF Bump
  <2>5. QED
    BY <2>3, <2>4
<1>9. PermitsKnown'
  <2> SUFFICES ASSUME NEW q \in Requests
               PROVE  /\ permitGen'[q] <= generation'
                      /\ Live(q)' => /\ probes'[q] \subseteq claimed'[q]
                                     /\ outdated'[q] \subseteq claimed'[q]
                                     /\ \A s \in probes'[q] : gates(s)'
                                     /\ \A s \in probes'[q] : s \in probing'
    BY DEF PermitsKnown
  <2>1. CASE q = r
    <3>1. \A s \in Due(r) : gates(s)'
      BY <1>3 DEF Due, Gated, gates, ProbeInv, TypeOK, GatesTyped
    <3>2. generation \in Nat
      BY DEF ProbeInv, TypeOK, GatesTyped
    <3>3. QED
      BY <1>2, <1>3, <1>6, <2>1, <3>1, <3>2
  <2>2. CASE q # r
    BY <1>1, <1>2, <1>3, <1>5, <2>2 DEF PermitsKnown, ProbeInv, gates
  <2>3. QED
    BY <2>1, <2>2
<1>10. ProbeOwned'
  <2>1. ASSUME NEW s \in Scopes, s \in probing'
        PROVE  \E q \in Requests : Live(q)' /\ s \in probes'[q]
    BY <1>1, <1>2, <1>3, <2>1 DEF ProbeOwned, ProbeInv
  <2>2. ASSUME NEW s \in Scopes, NEW q \in Requests, NEW t \in Requests,
               Live(q)', Live(t)', s \in probes'[q] \cap probes'[t]
        PROVE  q = t
    BY <1>1, <1>2, <1>7, <2>2 DEF ProbeOwned, ProbeInv
  <2>3. QED
    BY <2>1, <2>2 DEF ProbeOwned
<1>11. GrantedOpen'
  <2> SUFFICES ASSUME NEW q \in Requests, Live(q)',
                      NEW s \in claimed'[q] \ outdated'[q], Gated(s)'
               PROVE  s \in probes'[q]
    BY DEF GrantedOpen
  <2>1. Gated(s)
    BY <1>3 DEF Gated, gates
  <2>2. QED
    BY <1>1, <1>2, <2>1 DEF Due, GrantedOpen, ProbeInv
<1>12. EpochsSeen'
  <2> SUFFICES ASSUME NEW q \in Requests, Live(q)', NEW s \in claimed'[q]
               PROVE  /\ seen'[q][s] <= epoch'[s]
                      /\ s \in outdated'[q] => seen'[q][s] < epoch'[s]
    BY DEF EpochsSeen
  <2>1. s \in Scopes
    BY DEF TypeOK, RequestsTyped
  <2>2. epoch[s] \in Nat /\ (s \notin Evicted(r) => epoch'[s] = epoch[s])
    BY <1>3, <2>1 DEF Reset, ProbeInv, TypeOK, GatesTyped
  <2>3. CASE q = r
    BY <1>2, <1>4, <2>1, <2>2, <2>3 DEF Reset
  <2>4. CASE q # r
    BY <1>1, <1>2, <1>5, <2>2, <2>4 DEF EpochsSeen, ProbeInv
  <2>5. QED
    BY <2>3, <2>4
<1>13. QED
  BY <1>8, <1>9, <1>10, <1>11, <1>12 DEF ProbeInv

\* The waiting steps that grant no permit are quiet.
LEMMA WaitsQuietly ==
  ASSUME ProbeInv, TypeOK', NEW r \in Requests,
         \/ Start(r) \/ AdmitDisarmed(r) \/ RefuseCapacity(r) \/ PassReady(r)
         \/ RefuseFull(r) \/ Park(r) \/ GiveUp(r) \/ SettleStale(r)
  PROVE  Quietly
<1>1. ~Live(r) /\ ~Live(r)'
  <2>1. CASE SettleStale(r)
    BY <2>1 DEF SettleStale, Live, Resume, Goto, ProbeInv, TypeOK,
      RequestsTyped
  <2>2. CASE AdmitDisarmed(r)
    BY <2>2 DEF AdmitDisarmed, Looks, Parked, Parks, Live, SameGeneration,
      NoPermit, optVars, ProbeInv, TypeOK, RequestsTyped, GatesTyped
  <2>3. CASE \/ Start(r) \/ RefuseCapacity(r) \/ PassReady(r)
             \/ RefuseFull(r) \/ Park(r) \/ GiveUp(r)
    BY <2>3 DEF Start, RefuseCapacity, PassReady, RefuseFull, Park, GiveUp,
      Looks, Parked, Parks, Live, Goto, ProbeInv, TypeOK, RequestsTyped
  <2>4. QED
    BY <2>1, <2>2, <2>3
<1>2. /\ opts' = opts /\ generation' = generation /\ refs' = refs
      /\ active' = active /\ quota' = quota
  BY DEF Start, AdmitDisarmed, RefuseCapacity, PassReady, RefuseFull, Park,
    GiveUp, SettleStale, Evict, optVars, gateVars
<1>3. \A s \in Scopes : Gated(s)' => Gated(s)
  BY <1>2 DEF Gated, gates
<1>4. \E E \in SUBSET Scopes : /\ \A s \in E : refs[s] = 0
                               /\ probing' = probing \ E
                               /\ epoch' = Reset(epoch, E)
  <2>1. CASE RefuseCapacity(r) \/ PassReady(r) \/ RefuseFull(r) \/ Park(r)
    <3>1. probing' = probing \ Evicted(r) /\ epoch' = Reset(epoch, Evicted(r))
      BY <2>1 DEF RefuseCapacity, PassReady, RefuseFull, Park, Evict
    <3>2. Evicted(r) \in SUBSET Scopes /\ \A s \in Evicted(r) : refs[s] = 0
      BY EvictedUnreferenced DEF ProbeInv, TypeOK, GatesTyped
    <3>3. QED
      BY <3>1, <3>2
  <2>2. CASE Start(r) \/ AdmitDisarmed(r) \/ GiveUp(r) \/ SettleStale(r)
    <3>1. probing' = probing \ {} /\ epoch' = epoch
      BY <2>2 DEF Start, AdmitDisarmed, GiveUp, SettleStale, gateVars
    <3>2. epoch = Reset(epoch, {})
      BY DEF Reset, ProbeInv, TypeOK, GatesTyped
    <3>3. QED
      BY <3>1, <3>2
  <2>3. QED
    BY <2>1, <2>2
<1>5. \A q \in Requests \ {r} :
        /\ pc'[q] = pc[q] /\ permitGen'[q] = permitGen[q]
        /\ claimed'[q] = claimed[q] /\ probes'[q] = probes[q]
        /\ seen'[q] = seen[q] /\ outdated'[q] = outdated[q]
  BY DEF Start, AdmitDisarmed, RefuseCapacity, PassReady, RefuseFull, Park,
    GiveUp, SettleStale, NoPermit, Resume, Goto, permitVars, ProbeInv, TypeOK,
    RequestsTyped
<1>6. permitGen'[r] <= generation
  <2>1. permitGen[r] <= generation /\ generation \in Nat
    BY DEF ProbeInv, PermitsKnown, TypeOK, GatesTyped
  <2>2. permitGen'[r] \in {permitGen[r], 0, generation}
    BY DEF Start, AdmitDisarmed, RefuseCapacity, PassReady, RefuseFull, Park,
      GiveUp, SettleStale, NoPermit, permitVars, ProbeInv, TypeOK, RequestsTyped
  <2>3. QED
    BY <2>1, <2>2
<1>7. \A q \in Requests \ {r} : Live(q)' <=> Live(q)
  BY <1>2, <1>5 DEF Live, SameGeneration
<1>8. \A q \in Requests : permitGen'[q] <= generation
  BY <1>5, <1>6 DEF ProbeInv, PermitsKnown
<1>9. QED
  BY <1>1, <1>2, <1>3, <1>4, <1>5, <1>7, <1>8 DEF Quietly

\* Steps of time and of the operator are quiet.
LEMMA TimeQuietly ==
  ASSUME ProbeInv, TypeOK',
         \/ ReleaseQuota \/ Tick \/ UNCHANGED vars
         \/ \E s \in Scopes : TimerFires(s) \/ SampleExpires(s)
                              \/ ActivityExpires(s)
  PROVE  Quietly
<1>1. /\ UNCHANGED <<opts, generation, refs, active, probing, epoch, pc>>
      /\ UNCHANGED <<claimed, probes, seen, permitGen, outdated>>
      /\ quota' \subseteq quota
  BY DEF ReleaseQuota, Tick, TimerFires, SampleExpires, ActivityExpires, vars,
    optVars, gateVars, permitVars
<1>2. epoch = Reset(epoch, {}) /\ probing = probing \ {}
  BY DEF Reset, ProbeInv, TypeOK, GatesTyped
<1>3. \A s \in Scopes : Gated(s)' => Gated(s)
  BY <1>1 DEF Gated, gates
<1>4. \A q \in Requests : Live(q)' <=> Live(q)
  BY <1>1 DEF Live, SameGeneration
<1>5. \E E \in SUBSET Scopes : /\ \A s \in E : refs[s] = 0
                               /\ probing' = probing \ E
                               /\ epoch' = Reset(epoch, E)
  BY <1>1, <1>2
<1>6. QED
  BY <1>1, <1>3, <1>4, <1>5 DEF Quietly, ProbeInv, PermitsKnown

\* Observe, ObserveQuota and Cancel are settlements.
LEMMA SettlesAsSettlement ==
  ASSUME ProbeInv, NEW r \in Requests, NEW hint,
         \/ ObserveFailure(r, hint) \/ ObserveQuota(r, hint)
         \/ ObserveSuccess(r) \/ CancelPermit(r)
  PROVE  \E S \in SUBSET Scopes : Settlement(r, S)
<1>1. Live(r)
  BY DEF ObserveFailure, ObserveQuota, ObserveSuccess, CancelPermit
<1>2. Settle(r)
  BY DEF ObserveFailure, ObserveQuota, ObserveSuccess, CancelPermit
<1>3. /\ pc'[r] # "upstream" /\ permitGen'[r] <= generation
      /\ opts' = opts /\ generation' = generation
      /\ refs' = Drop(refs, claimed[r])
      /\ \A q \in Requests \ {r} :
           /\ pc'[q] = pc[q] /\ permitGen'[q] = permitGen[q]
           /\ claimed'[q] = claimed[q] /\ probes'[q] = probes[q]
           /\ seen'[q] = seen[q]
  BY <1>2 DEF Settle, Resume, Goto, optVars, ProbeInv, TypeOK, GatesTyped,
    RequestsTyped
<1>4. claimed[r] \subseteq Scopes /\ probes[r] \subseteq Settling(r)
  BY <1>1 DEF ProbeInv, PermitsKnown, Settling, TypeOK, RequestsTyped
<1>5. probing' = probing \ probes[r]
  <2>1. probing \ Released(r) = probing \ probes[r]
    BY <1>4 DEF Released
  <2>2. QED
    BY <2>1 DEF ObserveFailure, ObserveQuota, ObserveSuccess, CancelPermit
<1>6. \E S \in SUBSET Scopes :
        /\ epoch' = Bump(epoch, S) /\ Outdate(r, S)
        /\ \A s \in Scopes : Gated(s)' => Gated(s) \/ s \in S
  <2>0. epoch = Bump(epoch, {})
    BY DEF Bump, ProbeInv, TypeOK, GatesTyped
  <2>1. CASE ObserveFailure(r, hint)
    <3>1. Opening(r) \in SUBSET Scopes
      BY <1>4 DEF Opening, Settling
    <3>2. epoch' = Bump(epoch, Opening(r)) /\ Outdate(r, Opening(r))
          /\ active' = active \cup Opening(r) /\ quota' = quota
      BY <2>1 DEF ObserveFailure, OpenEpoch
    <3>3. QED
      BY <1>3, <3>1, <3>2 DEF Gated, gates
  <2>2. CASE ObserveQuota(r, hint)
    <3>1. QuotaOpening(r) \in SUBSET Scopes
      BY <1>4 DEF QuotaOpening
    <3>2. epoch' = Bump(epoch, QuotaOpening(r)) /\ Outdate(r, QuotaOpening(r))
          /\ active' = active /\ quota' = quota \cup QuotaOpening(r)
      BY <2>2 DEF ObserveQuota
    <3>3. QED
      BY <1>3, <3>1, <3>2 DEF Gated, gates
  <2>3. CASE ObserveSuccess(r) \/ CancelPermit(r)
    <3>1. epoch' = epoch /\ Outdate(r, {})
          /\ active' \subseteq active /\ quota' \subseteq quota
      BY <2>3 DEF ObserveSuccess, CancelPermit
    <3>2. \A s \in Scopes : Gated(s)' => Gated(s)
      BY <1>3, <3>1 DEF Gated, gates
    <3>3. QED
      BY <2>0, <3>1, <3>2
  <2>4. QED
    BY <2>1, <2>2, <2>3
<1>7. QED
  BY <1>1, <1>3, <1>5, <1>6 DEF Settlement

\* A reload leaves no live permit.
LEMMA ConfigureStep == ProbeInv /\ TypeOK' /\ Configure => ProbeInv'
<1> SUFFICES ASSUME ProbeInv, TypeOK', Configure PROVE ProbeInv'
  OBVIOUS
<1>1. /\ \A q \in Requests : permitGen'[q] <= generation /\ ~Live(q)'
      /\ generation' = generation + 1 /\ generation \in Nat
  BY DEF Configure, Live, SameGeneration, permitVars, ProbeInv, PermitsKnown,
    TypeOK, GatesTyped, RequestsTyped
<1>2. probing' = {} /\ refs' = Zero
  BY DEF Configure, Close
<1>3. RefsExact'
  <2>1. \A s \in Scopes : Holders(s)' = {}
    BY <1>1 DEF Holders
  <2>2. QED
    BY <1>2, <2>1, FS_EmptySet DEF RefsExact, Zero
<1>4. PermitsKnown'
  BY <1>1 DEF PermitsKnown, TypeOK, RequestsTyped
<1>5. QED
  BY <1>1, <1>2, <1>3, <1>4 DEF ProbeInv, ProbeOwned, GrantedOpen, EpochsSeen

\* Every step keeps the invariant.
LEMMA ProbeStep == ProbeInv /\ [Next]_vars => ProbeInv'
<1> SUFFICES ASSUME ProbeInv, [Next]_vars PROVE ProbeInv'
  OBVIOUS
<1>1. TypeOK'
  BY GatesStep, PaceStep, RequestsStep DEF ProbeInv, TypeOK
<1>2. ASSUME NEW r \in Requests, Start(r) \/ Waits(r) \/ GiveUp(r)
      PROVE  ProbeInv'
  BY <1>1, <1>2, GrantStep, WaitsQuietly, QuietStep DEF Waits
<1>3. ASSUME NEW r \in Requests, SettleStale(r) PROVE ProbeInv'
  BY <1>1, <1>3, WaitsQuietly, QuietStep
<1>4. ASSUME NEW r \in Requests, NEW hint \in Hints,
             ObserveFailure(r, hint) \/ ObserveQuota(r, hint)
      PROVE  ProbeInv'
  BY <1>1, <1>4, SettlesAsSettlement, SettlementStep
<1>5. ASSUME NEW r \in Requests, ObserveSuccess(r) \/ CancelPermit(r)
       PROVE  ProbeInv'
  BY <1>1, <1>5, SettlesAsSettlement, SettlementStep
<1>6. CASE \/ ReleaseQuota \/ Tick \/ UNCHANGED vars
           \/ \E s \in Scopes : TimerFires(s) \/ SampleExpires(s)
                                \/ ActivityExpires(s)
  BY <1>1, <1>6, TimeQuietly, QuietStep
<1>7. CASE Configure
  BY <1>1, <1>7, ConfigureStep
<1>8. QED
  BY <1>2, <1>3, <1>4, <1>5, <1>6, <1>7, NextCases, Zenon

\* The invariant holds of every behaviour.
LEMMA ProbeInvariant == Spec => []ProbeInv
<1>1. Init => ProbeInv
  <2> SUFFICES ASSUME Init PROVE ProbeInv
    OBVIOUS
  <2>1. TypeOK
    BY StormAssumption DEF Init, TypeOK, GatesTyped, PaceTyped, RequestsTyped,
      Zero, Points
  <2>2. \A r \in Requests : ~Live(r) /\ permitGen[r] <= generation
    BY DEF Init, Live
  <2>3. RefsExact
    <3>1. \A s \in Scopes : Holders(s) = {}
      BY <2>2 DEF Holders
    <3>2. QED
      BY <3>1, FS_EmptySet DEF Init, RefsExact, Zero
  <2>4. probing = {}
    BY DEF Init
  <2>5. QED
    BY <2>1, <2>2, <2>3, <2>4 DEF ProbeInv, PermitsKnown, ProbeOwned,
      GrantedOpen, EpochsSeen
<1>2. QED
  BY <1>1, ProbeStep, PTL DEF Spec

\* Every probe flag has exactly one owner, an unsettled permit of the current
\* generation, whatever gates open, close, are evicted or reconfigured.
THEOREM ProbesAreOwned == Spec => []ProbeOwned
<1>1. ProbeInv => ProbeOwned
  BY DEF ProbeInv
<1>2. QED
  BY <1>1, ProbeInvariant, PTL

\* At most one of the sends admitted through an open gate is in flight.
THEOREM RecoveryIsSingleFile == Spec => []SingleFileRecovery
<1>1. ProbeInv => SingleFileRecovery
  <2> SUFFICES ASSUME ProbeInv, NEW s \in Scopes, Gated(s),
                      NEW r \in Requests, NEW q \in Requests,
                      Live(r), s \in claimed[r] \ outdated[r],
                      Live(q), s \in claimed[q] \ outdated[q]
               PROVE  r = q
    BY DEF SingleFileRecovery
  <2>1. s \in probes[r] \cap probes[q]
    BY DEF ProbeInv, GrantedOpen
  <2>2. QED
    BY <2>1 DEF ProbeInv, ProbeOwned
<1>2. QED
  BY <1>1, ProbeInvariant, PTL

\* No step closes a gate on the word of a permit that is not its probe or that
\* was granted before the gate's last opening.
THEOREM GateClosesByItsProbe == Spec => ClosedByItsProbe
<1>1. ASSUME ProbeInv, [Next]_vars, NEW s \in Scopes, Closes(s)
      PROVE  HasReason(s)
  <2>1. CASE Configure
    <3>1. generation' = generation + 1
      BY <2>1 DEF Configure
    <3>2. generation \in Nat
      BY <1>1 DEF ProbeInv, TypeOK, GatesTyped
    <3>3. QED
      BY <3>1, <3>2 DEF HasReason
  <2>2. CASE ReleaseQuota
    <3>1. releases' = releases + 1 /\ active' = active
      BY <2>2 DEF ReleaseQuota
    <3>2. releases \in Nat
      BY <1>1 DEF ProbeInv, TypeOK, RequestsTyped
    <3>3. QED
      BY <3>1, <3>2 DEF HasReason
  <2>3. ASSUME NEW r \in Requests, ObserveSuccess(r) PROVE HasReason(s)
    <3>1. Live(r) /\ s \in Probed(r)
      BY <1>1, <2>3 DEF Closes, ObserveSuccess, StormClosed, QuotaClosed
    <3>2. s \in probes[r] /\ s \in claimed[r] /\ seen[r][s] = epoch[s]
      BY <3>1 DEF Probed, Settling
    <3>3. s \notin outdated[r]
      <4>1. epoch[s] \in Nat
        BY <1>1 DEF ProbeInv, TypeOK, GatesTyped
      <4>2. s \in outdated[r] => seen[r][s] < epoch[s]
        BY <1>1, <3>1, <3>2 DEF ProbeInv, EpochsSeen
      <4>3. QED
        BY <3>2, <4>1, <4>2
    <3>4. Settled(r) /\ permitGen[r] = generation
      BY <1>1, <2>3, <3>1 DEF Settled, Live, SameGeneration, ObserveSuccess,
        Settle, Resume, Goto, ProbeInv, TypeOK, RequestsTyped
    <3>5. QED
      BY <3>2, <3>3, <3>4 DEF HasReason
  <2>4. ASSUME NEW r \in Requests,
               \/ Start(r) \/ Waits(r) \/ GiveUp(r)
               \/ SettleStale(r) \/ CancelPermit(r)
        PROVE  FALSE
    BY <1>1, <2>4 DEF Closes, Start, Waits, AdmitDisarmed, RefuseCapacity, PassReady,
      Grant, RefuseFull, Park, GiveUp, SettleStale, CancelPermit, Evict,
      gateVars
  <2>5. ASSUME NEW r \in Requests, NEW hint \in Hints,
               ObserveFailure(r, hint) \/ ObserveQuota(r, hint)
        PROVE  FALSE
    BY <1>1, <2>5 DEF Closes, ObserveFailure, ObserveQuota
  <2>6. CASE \/ Tick \/ UNCHANGED vars
             \/ \E t \in Scopes : TimerFires(t) \/ SampleExpires(t)
                                  \/ ActivityExpires(t)
    BY <1>1, <2>6 DEF Closes, Tick, TimerFires, SampleExpires, ActivityExpires, vars,
      gateVars
  <2>7. QED
    BY <1>1, <2>1, <2>2, <2>3, <2>4, <2>5, <2>6, NextCases, Zenon
<1>2. ProbeInv /\ [Next]_vars => \A s \in Scopes : Closes(s) => HasReason(s)
  BY <1>1
<1>3. QED
  BY <1>2, ProbeInvariant, PTL DEF Spec, ClosedByItsProbe

(***************************************************************************)
(* The wait queue.  That the counters are exact and that nobody sleeps for *)
(* ever are inductive only together: a scope is evicted when its counters  *)
(* are zero, and what a sleeper waits for lives on its scopes.             *)
(***************************************************************************)
ParkedRequests == {r \in Requests : Parked(r)}

WaitersExact ==
  /\ \A s \in Scopes : waiters[s] = Cardinality(Queuers(s))
  /\ queued = Cardinality(ParkedRequests)

ScopesInUse == \A s \in Scopes : Holders(s) \cup Queuers(s) # {} => s \in scopes

\* A cooldown always has its wake timer.
TimersArmed == \A s \in Scopes : cooldown[s] > 0 => s \in timer

\* Whose kick channel is open is parked on scopes of this generation, and one
\* of them has a timer armed or its probe out.
SleepersQueued ==
  \A r \in current : /\ Parked(r) /\ SameGeneration(r)
                     /\ \E s \in claimed[r] : s \in timer \cup probing

\* The queue may exceed the limit only after a reload lowered it, and then only
\* until somebody queues again: whoever queued since keeps its place.
QueueWithin ==
  \A r \in Requests : Parked(r) => LimitLowered(r) \/ queued <= opts.maxQueue

QueueInv ==
  /\ ProbeInv /\ WaitersExact /\ ScopesInUse /\ TimersArmed /\ SleepersQueued
  /\ QueueWithin

\* The installed limits are numbers.
LEMMA OptionsType ==
  ASSUME TypeOK
  PROVE  opts.maxQueue \in Nat /\ opts.maxScopes \in Nat
BY StormAssumption DEF TypeOK, GatesTyped, Policy

\* What unqueue leaves in the counters: the other waiters.
LEMMA UnqueueExact ==
  ASSUME TypeOK, WaitersExact, NEW r \in Requests
  PROVE  /\ \A s \in Scopes :
              unqueueWaiters(r)[s] = Cardinality(Queuers(s) \ {r})
         /\ unqueueQueued(r) = Cardinality(ParkedRequests \ {r})
<1>1. ASSUME NEW s \in Scopes
      PROVE  unqueueWaiters(r)[s] = Cardinality(Queuers(s) \ {r})
  <2>1. IsFiniteSet(Queuers(s))
    BY StormAssumption, FS_Subset DEF Queuers
  <2>2. waiters[s] = Cardinality(Queuers(s)) /\ waiters[s] \in Int
    BY DEF WaitersExact, TypeOK, RequestsTyped
  <2>3. CASE r \in Queuers(s)
    <3>1. unqueueWaiters(r)[s] = waiters[s] - 1
      BY <2>3 DEF unqueueWaiters, Drop, Queuers
    <3>2. QED
      BY <2>1, <2>2, <2>3, <3>1, FS_RemoveElement
  <2>4. CASE r \notin Queuers(s)
    <3>1. unqueueWaiters(r)[s] = waiters[s]
      BY <2>4 DEF unqueueWaiters, Drop, Queuers
    <3>2. Queuers(s) \ {r} = Queuers(s)
      BY <2>4
    <3>3. QED
      BY <2>2, <3>1, <3>2
  <2>5. QED
    BY <2>3, <2>4
<1>2. unqueueQueued(r) = Cardinality(ParkedRequests \ {r})
  <2>1. IsFiniteSet(ParkedRequests)
    BY StormAssumption, FS_Subset DEF ParkedRequests
  <2>2. queued = Cardinality(ParkedRequests) /\ queued \in Int
    BY DEF WaitersExact, TypeOK, RequestsTyped
  <2>3. CASE Parked(r)
    <3>1. r \in ParkedRequests /\ unqueueQueued(r) = queued - 1
      BY <2>3 DEF ParkedRequests, unqueueQueued
    <3>2. QED
      BY <2>1, <2>2, <3>1, FS_RemoveElement
  <2>4. CASE ~Parked(r)
    <3>1. ParkedRequests \ {r} = ParkedRequests /\ unqueueQueued(r) = queued
      BY <2>4 DEF ParkedRequests, unqueueQueued
    <3>2. QED
      BY <2>2, <3>1
  <2>5. QED
    BY <2>3, <2>4
<1>3. QED
  BY <1>1, <1>2

\* A counter of waiters that reads zero has nobody behind it.
LEMMA NoWaitersNoQueuer ==
  ASSUME TypeOK, WaitersExact, NEW r \in Requests, NEW s \in Scopes,
         unqueueWaiters(r)[s] = 0
  PROVE  Queuers(s) \subseteq {r}
<1>1. IsFiniteSet(Queuers(s) \ {r})
  BY StormAssumption, FS_Subset DEF Queuers
<1>2. Cardinality(Queuers(s) \ {r}) = 0
  BY UnqueueExact
<1>3. QED
  BY <1>1, <1>2, FS_EmptySet

\* Only r moves, and its place is what unqueue makes of it or a new one.
OthersStay(r) ==
  /\ generation' = generation /\ opts' = opts /\ lowered' = lowered
  /\ \A q \in Requests \ {r} : /\ pc'[q] = pc[q] /\ permitGen'[q] = permitGen[q]
                               /\ claimed'[q] = claimed[q]

Unqueued(r) ==
  /\ ~Parked(r)'
  /\ queued' = unqueueQueued(r) /\ waiters' = unqueueWaiters(r)
  /\ current' \subseteq current \ {r}

\* What the rest of the step does to the scopes: it forgets only those of E,
\* which nobody but r uses, and wakes everybody when it disarms a timer or
\* gives a probe back.
ScopesKept(r) ==
  /\ Live(r)' => claimed'[r] \subseteq scopes'
  /\ \E E \in SUBSET Scopes :
       /\ \A s \in E : Holders(s) = {} /\ Queuers(s) \subseteq {r}
       /\ scopes \ E \subseteq scopes'
       /\ current' = {} \/ (timer \cup probing) \ E \subseteq timer' \cup probing'

\* The counters after a request has left the queue or never was in it.
LEMMA LeaveStep ==
  ASSUME QueueInv, TypeOK', NEW r \in Requests, OthersStay(r), Unqueued(r),
         ScopesKept(r)
  PROVE  WaitersExact' /\ ScopesInUse' /\ SleepersQueued' /\ QueueWithin'
<1>1. \A s \in Scopes : Queuers(s)' = Queuers(s) \ {r}
  BY DEF Queuers, OthersStay, Unqueued, Parked, SameGeneration
<1>2. ParkedRequests' = ParkedRequests \ {r}
  BY DEF ParkedRequests, OthersStay, Unqueued, Parked
<1>3. WaitersExact'
  BY <1>1, <1>2, UnqueueExact DEF WaitersExact, Unqueued, QueueInv, ProbeInv
<1>4. PICK E \in SUBSET Scopes :
        /\ \A s \in E : Holders(s) = {} /\ Queuers(s) \subseteq {r}
        /\ scopes \ E \subseteq scopes'
        /\ current' = {} \/ (timer \cup probing) \ E \subseteq timer' \cup probing'
  BY DEF ScopesKept
<1>5. ScopesInUse'
  <2> SUFFICES ASSUME NEW s \in Scopes, NEW q \in Holders(s)' \cup Queuers(s)'
               PROVE  s \in scopes'
    BY DEF ScopesInUse
  <2>1. CASE q = r
    BY <1>1, <2>1 DEF Holders, ScopesKept
  <2>2. CASE q # r
    <3>1. q \in Holders(s) \cup Queuers(s)
      BY <1>1, <2>2 DEF Holders, OthersStay, Live, SameGeneration
    <3>2. s \in scopes /\ s \notin E
      BY <1>4, <2>2, <3>1 DEF QueueInv, ScopesInUse
    <3>3. QED
      BY <1>4, <3>2
  <2>3. QED
    BY <2>1, <2>2
<1>6. SleepersQueued'
  <2> SUFFICES ASSUME NEW q \in current'
               PROVE  /\ Parked(q)' /\ SameGeneration(q)'
                      /\ \E s \in claimed'[q] : s \in timer' \cup probing'
    BY DEF SleepersQueued
  <2>1. q \in current /\ q # r /\ q \in Requests
    BY DEF Unqueued, QueueInv, ProbeInv, TypeOK, RequestsTyped
  <2>2. Parked(q)' /\ SameGeneration(q)' /\ Parked(q) /\ SameGeneration(q)
        /\ claimed'[q] = claimed[q]
    BY <2>1 DEF QueueInv, SleepersQueued, OthersStay, Parked, SameGeneration
  <2>3. PICK s \in claimed[q] : s \in timer \cup probing
    BY <2>1 DEF QueueInv, SleepersQueued
  <2>4. s \in Scopes /\ q \in Queuers(s)
    BY <2>1, <2>2 DEF Queuers, QueueInv, ProbeInv, TypeOK, RequestsTyped
  <2>5. s \notin E
    BY <1>4, <2>1, <2>4
  <2>6. QED
    BY <1>4, <2>2, <2>3, <2>5
<1>7. QueueWithin'
  <2> SUFFICES ASSUME NEW q \in Requests, Parked(q)', ~LimitLowered(q)'
               PROVE  queued' <= opts'.maxQueue
    BY DEF QueueWithin
  <2>1. q # r /\ Parked(q) /\ ~LimitLowered(q)
    BY DEF OthersStay, Unqueued, Parked, LimitLowered
  <2>2. queued <= opts.maxQueue /\ opts.maxQueue \in Nat
    BY <2>1, OptionsType DEF QueueInv, QueueWithin, ProbeInv
  <2>3. QED
    BY <2>2 DEF QueueInv, Unqueued, unqueueQueued, OthersStay, ProbeInv, TypeOK,
      RequestsTyped
<1>8. QED
  BY <1>3, <1>5, <1>6, <1>7

\* A scope that scopesFor evicts for r has no permit out and no other waiter.
LEMMA EvictedUnused ==
  ASSUME QueueInv, NEW r \in Requests
  PROVE  /\ Evicted(r) \in SUBSET Scopes /\ Evicted(r) \cap Keys(r) = {}
         /\ \A s \in Evicted(r) : Holders(s) = {} /\ Queuers(s) \subseteq {r}
<1>1. Evicted(r) \in SUBSET Scopes /\ Evicted(r) \cap Keys(r) = {}
  BY DEF Evicted, QueueInv, ProbeInv, TypeOK, GatesTyped
<1>2. ASSUME NEW s \in Evicted(r) PROVE Holders(s) = {} /\ Queuers(s) \subseteq {r}
  <2>1. refs[s] = 0 /\ unqueueWaiters(r)[s] = 0 /\ s \in Scopes
    BY <1>1, <1>2 DEF Evicted, Quiet
  <2>2. Holders(s) = {}
    BY <2>1, NoRefsNoHolder DEF Holders, QueueInv, ProbeInv
  <2>3. Queuers(s) \subseteq {r}
    BY <2>1, NoWaitersNoQueuer DEF QueueInv, ProbeInv
  <2>4. QED
    BY <2>2, <2>3
<1>3. QED
  BY <1>1, <1>2

\* The steps of waitStorm that look the scopes up keep those in use.
LEMMA LookupKeepsScopes ==
  ASSUME QueueInv, NEW r \in Requests, NEW due, Evict(r, due),
         scopes \ Evicted(r) \subseteq scopes',
         Live(r)' => claimed'[r] \subseteq scopes'
  PROVE  ScopesKept(r)
<1>1. (timer \cup probing) \ Evicted(r) \subseteq timer' \cup probing'
  BY DEF Evict
<1>2. QED
  BY <1>1, EvictedUnused DEF ScopesKept

\* The steps after which r is not parked.
LEMMA WaitsLeave ==
  ASSUME QueueInv, TypeOK', NEW r \in Requests,
         \/ Start(r) \/ AdmitDisarmed(r) \/ RefuseCapacity(r) \/ PassReady(r)
         \/ RefuseFull(r) \/ Grant(r) \/ GiveUp(r)
  PROVE  OthersStay(r) /\ Unqueued(r) /\ ScopesKept(r)
<1> USE DEF QueueInv, ProbeInv, TypeOK, RequestsTyped, GatesTyped
<1>1. OthersStay(r)
  BY DEF OthersStay, Start, AdmitDisarmed, RefuseCapacity, PassReady,
    RefuseFull, Grant, GiveUp, NoPermit, Goto, optVars, permitVars
<1>2. Unqueued(r)
  <2>1. CASE Start(r)
    <3>1. ~Parked(r) /\ ~Parked(r)' /\ r \notin current
      BY <2>1 DEF Start, Goto, Parked, Parks, SleepersQueued
    <3>2. QED
      BY <2>1, <3>1 DEF Start, Unqueued, unqueueQueued, unqueueWaiters,
        queueVars
  <2>2. CASE ~Start(r)
    BY <2>2 DEF AdmitDisarmed, RefuseCapacity, PassReady, RefuseFull, Grant,
      GiveUp, Unqueue, Unqueued, Parked, Parks, Goto
  <2>3. QED
    BY <2>1, <2>2
<1>3. ScopesKept(r)
  <2>1. CASE RefuseCapacity(r) \/ PassReady(r) \/ RefuseFull(r)
    <3>1. Evict(r, {}) /\ scopes \ Evicted(r) \subseteq scopes' /\ ~Live(r)'
      BY <2>1 DEF RefuseCapacity, PassReady, RefuseFull, TouchScopes, Live, Goto
    <3>2. QED
      BY <3>1, LookupKeepsScopes
  <2>2. CASE Grant(r)
    <3>1. /\ Evict(r, Due(r)) /\ scopes \ Evicted(r) \subseteq scopes'
          /\ claimed'[r] \subseteq scopes'
      BY <2>2 DEF Grant, TouchScopes
    <3>2. QED
      BY <3>1, LookupKeepsScopes
  <2>3. CASE Start(r) \/ AdmitDisarmed(r) \/ GiveUp(r)
    <3>1. /\ UNCHANGED <<scopes, timer, probing>>
          /\ Live(r)' => claimed'[r] = {}
      BY <2>3 DEF Start, AdmitDisarmed, GiveUp, NoPermit, Live, Goto, paceVars,
        gateVars
    <3>2. QED
      BY <3>1 DEF ScopesKept
  <2>4. QED
    BY <2>1, <2>2, <2>3
<1>4. QED
  BY <1>1, <1>2, <1>3

\* A settlement is no business of the queue, and whatever flag or timer it
\* takes away it wakes everybody.
LEMMA SettlesLeave ==
  ASSUME QueueInv, TypeOK', NEW r \in Requests, NEW hint,
         \/ ObserveFailure(r, hint) \/ ObserveQuota(r, hint)
         \/ ObserveSuccess(r) \/ CancelPermit(r) \/ SettleStale(r)
  PROVE  OthersStay(r) /\ Unqueued(r) /\ ScopesKept(r)
<1> USE DEF QueueInv, ProbeInv, TypeOK, RequestsTyped, GatesTyped
<1>1. OthersStay(r)
  BY DEF OthersStay, ObserveFailure, ObserveQuota, ObserveSuccess,
    CancelPermit, SettleStale, Settle, NoPermit, Resume, Goto, optVars
<1>2. /\ pc[r] = "upstream" /\ pc'[r] \in {"send", "done"}
      /\ UNCHANGED <<queued, waiters, scopes>>
  BY DEF ObserveFailure, ObserveQuota, ObserveSuccess, CancelPermit,
    SettleStale, Settle, Live, Resume, Goto, queueVars
<1>3. current' \subseteq current
  BY DEF ObserveFailure, ObserveQuota, ObserveSuccess, CancelPermit,
    SettleStale, WakeIf, Wake, queueVars
<1>4. Unqueued(r)
  BY <1>2, <1>3 DEF Unqueued, unqueueQueued, unqueueWaiters, Parked, Parks,
    SleepersQueued
<1>5. current' = {} \/ timer \cup probing \subseteq timer' \cup probing'
  <2>1. Live(r) => probes[r] \subseteq probing
    BY DEF PermitsKnown
  <2>2. CASE ObserveFailure(r, hint)
    <3>1. current' = {} \/ (Released(r) = {} /\ probing' = probing)
      BY <2>2 DEF ObserveFailure, WakeIf, Wake
    <3>2. timer \subseteq timer'
      BY <2>2 DEF ObserveFailure, Repace
    <3>3. QED
      BY <3>1, <3>2
  <2>3. CASE ObserveQuota(r, hint)
    <3>1. current' = {} \/ probing' = probing
      BY <2>3 DEF ObserveQuota, WakeIf, Wake
    <3>2. timer \subseteq timer'
      BY <2>3 DEF ObserveQuota, Repace
    <3>3. QED
      BY <3>1, <3>2
  <2>4. CASE ObserveSuccess(r)
    <3>1. current' = {} \/ (Released(r) = {} /\ probing' = probing)
      BY <2>4 DEF ObserveSuccess, WakeIf, Wake
    <3>2. Probed(r) \subseteq Released(r)
      BY <2>1, <2>4 DEF ObserveSuccess, Probed, Released
    <3>3. Released(r) = {} => timer \subseteq timer'
      BY <2>4, <3>2 DEF ObserveSuccess, Repace
    <3>4. QED
      BY <3>1, <3>3
  <2>5. CASE CancelPermit(r) \/ SettleStale(r)
    BY <2>5 DEF CancelPermit, SettleStale, WakeIf, Wake, paceVars, gateVars
  <2>6. QED
    BY <2>2, <2>3, <2>4, <2>5
<1>6. ScopesKept(r)
  <2>1. ~Live(r)'
    BY <1>2 DEF Live
  <2>2. \E E \in SUBSET Scopes :
          /\ \A s \in E : Holders(s) = {} /\ Queuers(s) \subseteq {r}
          /\ scopes \ E \subseteq scopes'
          /\ current' = {} \/ (timer \cup probing) \ E \subseteq timer' \cup probing'
    <3>1. {} \in SUBSET Scopes
      OBVIOUS
    <3>2. /\ scopes \ {} \subseteq scopes'
          /\ current' = {} \/ (timer \cup probing) \ {} \subseteq timer' \cup probing'
      BY <1>2, <1>5
    <3>3. QED
      BY <3>1, <3>2, Zenon
  <2>3. QED
    BY <2>1, <2>2 DEF ScopesKept
<1>7. QED
  BY <1>1, <1>4, <1>6

\* A request that parks counts itself on every scope it looked at, and the gate
\* that shut it out has its probe out or its timer armed.
LEMMA ParkStep ==
  ASSUME QueueInv, TypeOK', NEW r \in Requests, Park(r)
  PROVE  WaitersExact' /\ ScopesInUse' /\ SleepersQueued' /\ QueueWithin'
<1> USE DEF QueueInv, ProbeInv, TypeOK, RequestsTyped, GatesTyped
<1>1. OthersStay(r)
  BY DEF OthersStay, Park, Goto, optVars
<1>2. /\ Parked(r)' /\ permitGen'[r] = generation' /\ claimed'[r] = Keys(r)
      /\ current' = current \cup {r}
      /\ queued' = unqueueQueued(r) + 1
      /\ waiters' = Bump(unqueueWaiters(r), Keys(r))
      /\ scopes' = (scopes \ Evicted(r)) \cup Keys(r)
  BY DEF Park, TouchScopes, Parked, Parks, Goto, optVars
<1>3. Keys(r) \subseteq Scopes
  BY KeysType
<1>4. /\ Evicted(r) \in SUBSET Scopes /\ Evicted(r) \cap Keys(r) = {}
      /\ \A s \in Evicted(r) : Holders(s) = {} /\ Queuers(s) \subseteq {r}
  BY EvictedUnused
<1>5. timer' = timer \ Evicted(r) /\ probing' = probing \ Evicted(r)
  BY DEF Park, Evict
<1>6. WaitersExact'
  <2>1. ASSUME NEW s \in Scopes PROVE waiters'[s] = Cardinality(Queuers(s)')
    <3>1. IsFiniteSet(Queuers(s) \ {r})
      BY StormAssumption, FS_Subset DEF Queuers
    <3>2. unqueueWaiters(r)[s] = Cardinality(Queuers(s) \ {r})
      BY UnqueueExact
    <3>3. CASE s \in Keys(r)
      <4>1. Queuers(s)' = (Queuers(s) \ {r}) \cup {r}
        BY <1>1, <1>2, <3>3 DEF Queuers, OthersStay, Parked, SameGeneration
      <4>2. waiters'[s] = unqueueWaiters(r)[s] + 1
        BY <1>2, <3>3 DEF Bump
      <4>3. Cardinality((Queuers(s) \ {r}) \cup {r})
              = Cardinality(Queuers(s) \ {r}) + 1
        BY <3>1, FS_AddElement
      <4>4. QED
        BY <3>2, <4>1, <4>2, <4>3
    <3>4. CASE s \notin Keys(r)
      <4>1. Queuers(s)' = Queuers(s) \ {r}
        BY <1>1, <1>2, <3>4 DEF Queuers, OthersStay, Parked, SameGeneration
      <4>2. waiters'[s] = unqueueWaiters(r)[s]
        BY <1>2, <3>4 DEF Bump
      <4>3. QED
        BY <3>2, <4>1, <4>2
    <3>5. QED
      BY <3>3, <3>4
  <2>2. queued' = Cardinality(ParkedRequests')
    <3>1. IsFiniteSet(ParkedRequests \ {r})
      BY StormAssumption, FS_Subset DEF ParkedRequests
    <3>2. ParkedRequests' = (ParkedRequests \ {r}) \cup {r}
      BY <1>1, <1>2 DEF ParkedRequests, OthersStay, Parked
    <3>3. unqueueQueued(r) = Cardinality(ParkedRequests \ {r})
      BY UnqueueExact
    <3>4. Cardinality((ParkedRequests \ {r}) \cup {r})
            = Cardinality(ParkedRequests \ {r}) + 1
      BY <3>1, FS_AddElement
    <3>5. QED
      BY <1>2, <3>2, <3>3, <3>4
  <2>3. QED
    BY <2>1, <2>2 DEF WaitersExact
<1>7. ScopesInUse'
  <2> SUFFICES ASSUME NEW s \in Scopes, NEW q \in Holders(s)' \cup Queuers(s)'
               PROVE  s \in scopes'
    BY DEF ScopesInUse
  <2>1. CASE q = r
    <3>1. s \in claimed'[r]
      BY <2>1 DEF Holders, Queuers
    <3>2. QED
      BY <1>2, <3>1
  <2>2. CASE q # r
    <3>1. q \in Holders(s) \cup Queuers(s)
      BY <1>1, <2>2 DEF Holders, Queuers, OthersStay, Live, Parked,
        SameGeneration
    <3>2. s \in scopes /\ s \notin Evicted(r)
      BY <1>4, <2>2, <3>1 DEF ScopesInUse
    <3>3. QED
      BY <1>2, <3>2
  <2>3. QED
    BY <2>1, <2>2
<1>8. SleepersQueued'
  <2>1. \E s \in claimed'[r] : s \in timer' \cup probing'
    <3>1. PICK s \in Keys(r) : gateHeld(s)
      BY DEF Park, Blocked
    <3>2. s \in timer \cup probing
      BY <1>3, <3>1 DEF gateHeld, TimersArmed
    <3>3. QED
      BY <1>2, <1>4, <1>5, <3>1, <3>2
  <2>2. ASSUME NEW q \in current, q # r
        PROVE  /\ Parked(q)' /\ SameGeneration(q)'
               /\ \E s \in claimed'[q] : s \in timer' \cup probing'
    <3>1. q \in Requests
      OBVIOUS
    <3>2. Parked(q)' /\ SameGeneration(q)' /\ Parked(q) /\ SameGeneration(q)
          /\ claimed'[q] = claimed[q]
      BY <1>1, <2>2, <3>1 DEF SleepersQueued, OthersStay, Parked, SameGeneration
    <3>3. PICK s \in claimed[q] : s \in timer \cup probing
      BY <2>2 DEF SleepersQueued
    <3>4. s \in Scopes /\ q \in Queuers(s)
      BY <3>1, <3>2 DEF Queuers
    <3>5. s \notin Evicted(r)
      BY <1>4, <2>2, <3>4
    <3>6. QED
      BY <1>5, <3>2, <3>3, <3>5
  <2>3. SameGeneration(r)'
    BY <1>2 DEF SameGeneration
  <2>4. QED
    BY <1>2, <2>1, <2>2, <2>3 DEF SleepersQueued
<1>9. QueueWithin'
  <2>1. unqueueQueued(r) \in Int /\ ~(unqueueQueued(r) >= opts.maxQueue)
        /\ opts' = opts /\ opts.maxQueue \in Nat
    BY OptionsType DEF Park, QueueFull, unqueueQueued, optVars
  <2>2. QED
    BY <1>2, <2>1 DEF QueueWithin
<1>10. QED
  BY <1>6, <1>7, <1>8, <1>9

\* Whatever a settlement re-paces keeps a timer for its cooldown.
LEMMA RepaceArms ==
  ASSUME TypeOK, TimersArmed, NEW S \in SUBSET Scopes, NEW Grown, NEW hint,
         NEW Cleared, NEW Extended, S \cap Cleared = {}, Extended \cap Cleared = {},
         Repace(S, Grown, hint, Cleared, Extended)
  PROVE  TimersArmed'
<1> SUFFICES ASSUME NEW s \in Scopes, s \notin timer' PROVE ~(cooldown'[s] > 0)
  BY DEF TimersArmed
<1>1. s \notin S /\ s \notin Extended /\ (s \in Cleared \/ s \notin timer)
  BY DEF Repace
<1>2. cooldown'[s] = IF s \in Cleared THEN 0 ELSE cooldown[s]
  BY <1>1 DEF Repace
<1>3. QED
  BY <1>1, <1>2 DEF TimersArmed

\* Every step keeps a timer for every cooldown.
LEMMA TimersStep == ProbeInv /\ TimersArmed /\ [Next]_vars => TimersArmed'
<1> SUFFICES ASSUME ProbeInv, TimersArmed, [Next]_vars PROVE TimersArmed'
  OBVIOUS
<1> USE DEF ProbeInv
<1>1. CASE UNCHANGED <<cooldown, timer>>
  BY <1>1 DEF TimersArmed
<1>2. ASSUME NEW r \in Requests, NEW due, Evict(r, due) PROVE TimersArmed'
  BY <1>2 DEF Evict, Reset, TimersArmed
<1>3. ASSUME NEW r \in Requests, Start(r) \/ Waits(r) \/ GiveUp(r)
      PROVE  TimersArmed'
  <2>1. \/ UNCHANGED <<cooldown, timer>> \/ Evict(r, {}) \/ Evict(r, Due(r))
    BY <1>3, Zenon DEF Start, Waits, GiveUp, AdmitDisarmed, RefuseCapacity,
      PassReady, Grant, RefuseFull, Park, paceVars
  <2>2. QED
    BY <1>1, <1>2, <2>1
<1>4. ASSUME NEW r \in Requests, NEW hint \in Hints,
             ObserveFailure(r, hint) \/ ObserveQuota(r, hint)
      PROVE  TimersArmed'
  <2>1. Probed(r) \cup Opening(r) \in SUBSET Scopes
        /\ QuotaProbed(r) \cup QuotaOpening(r) \in SUBSET Scopes
    BY DEF Probed, Opening, QuotaProbed, QuotaOpening, Settling, TypeOK,
      RequestsTyped
  <2>2. CASE ObserveFailure(r, hint)
    BY <2>1, <2>2, RepaceArms DEF ObserveFailure
  <2>3. CASE ObserveQuota(r, hint)
    BY <2>1, <2>3, RepaceArms DEF ObserveQuota
  <2>4. QED
    BY <1>4, <2>2, <2>3
<1>5. ASSUME NEW r \in Requests,
             SettleStale(r) \/ ObserveSuccess(r) \/ CancelPermit(r)
      PROVE  TimersArmed'
  <2>1. CASE ObserveSuccess(r)
    <3>1. /\ Probed(r) \cap StillOpen(r) \in SUBSET Scopes
          /\ (Probed(r) \cap StillOpen(r)) \cap (Probed(r) \ StillOpen(r)) = {}
      BY DEF Probed, Settling, TypeOK, RequestsTyped
    <3>2. QED
      BY <2>1, <3>1, RepaceArms DEF ObserveSuccess
  <2>2. CASE SettleStale(r) \/ CancelPermit(r)
    BY <1>1, <2>2, Zenon DEF SettleStale, CancelPermit, paceVars
  <2>3. QED
    BY <1>5, <2>1, <2>2
<1>6. CASE ReleaseQuota
  BY <1>6 DEF ReleaseQuota, Reset, TimersArmed
<1>7. CASE Configure
  BY <1>7 DEF Configure, Zero, TimersArmed
<1>8. CASE Tick
  <2>1. \A s \in Scopes : cooldown[s] \in Nat
    BY DEF TypeOK, PaceTyped
  <2>2. QED
    BY <1>8, <2>1 DEF Tick, TimersArmed
<1>9. ASSUME NEW s \in Scopes,
             TimerFires(s) \/ SampleExpires(s) \/ ActivityExpires(s)
      PROVE  TimersArmed'
  BY <1>9 DEF TimerFires, Fire, SampleExpires, ActivityExpires, paceVars,
    TimersArmed
<1>10. CASE UNCHANGED vars
  BY <1>1, <1>10 DEF vars, paceVars
<1>11. QED
  BY <1>3, <1>4, <1>5, <1>6, <1>7, <1>8, <1>9, <1>10, NextCases, Zenon

\* A reload forgets every scope and wakes everybody; the parked requests stay
\* counted in stormState.queued.
LEMMA ConfigureQueue ==
  ASSUME QueueInv, TypeOK', Configure
  PROVE  WaitersExact' /\ ScopesInUse' /\ SleepersQueued' /\ QueueWithin'
<1>1. \A q \in Requests : ~SameGeneration(q)'
  BY DEF Configure, SameGeneration, permitVars, QueueInv, ProbeInv,
    PermitsKnown, TypeOK, GatesTyped, RequestsTyped
<1>2. \A s \in Scopes : Queuers(s)' = {} /\ Holders(s)' = {}
  BY <1>1 DEF Queuers, Holders, Live
<1>3. ParkedRequests' = ParkedRequests /\ queued' = queued /\ waiters' = Zero
      /\ current' = {}
  BY DEF Configure, Close, Wake, ParkedRequests, Parked
<1>4. WaitersExact'
  BY <1>2, <1>3, FS_EmptySet DEF WaitersExact, QueueInv, Zero
<1>5. QueueWithin'
  <2> SUFFICES ASSUME NEW q \in Requests, Parked(q)', ~LimitLowered(q)'
               PROVE  queued' <= opts'.maxQueue
    BY DEF QueueWithin
  <2>1. PICK policy \in Policies :
          /\ opts' = policy
          /\ lowered' = IF policy.maxQueue < opts.maxQueue
                        THEN lowered \cup {generation + 1} ELSE lowered
    BY DEF Configure
  <2>2. Parked(q) /\ permitGen'[q] = permitGen[q] /\ generation + 1 > permitGen[q]
    BY DEF Configure, Parked, permitVars, QueueInv, ProbeInv, PermitsKnown, TypeOK,
      GatesTyped, RequestsTyped
  <2>3. ~(policy.maxQueue < opts.maxQueue) /\ lowered' = lowered
    BY <2>1, <2>2 DEF LimitLowered
  <2>4. queued <= opts.maxQueue
    BY <2>2, <2>3 DEF QueueInv, QueueWithin, LimitLowered
  <2>5. policy.maxQueue \in Nat /\ opts.maxQueue \in Nat
    BY StormAssumption, OptionsType DEF Policy, QueueInv, ProbeInv
  <2>6. QED
    BY <1>3, <2>1, <2>3, <2>4, <2>5 DEF QueueInv, ProbeInv, TypeOK, RequestsTyped
<1>6. QED
  BY <1>2, <1>3, <1>4, <1>5 DEF ScopesInUse, SleepersQueued, QueueInv

\* Time, timers, the window and the operator leave the queue alone.
LEMMA TimeQueue ==
  ASSUME QueueInv, TypeOK',
         \/ ReleaseQuota \/ Tick \/ UNCHANGED vars
         \/ \E s \in Scopes : TimerFires(s) \/ SampleExpires(s)
                              \/ ActivityExpires(s)
  PROVE  WaitersExact' /\ ScopesInUse' /\ SleepersQueued' /\ QueueWithin'
<1>1. /\ UNCHANGED <<opts, lowered, generation, scopes, waiters, queued, pc, claimed,
                     permitGen>>
      /\ current' = {} \/ UNCHANGED <<current, timer, probing>>
  BY DEF ReleaseQuota, Wake, Tick, TimerFires, Fire, SampleExpires,
    ActivityExpires, vars, optVars, queueVars, permitVars, paceVars, gateVars
<1>2. \A s \in Scopes : Queuers(s)' = Queuers(s) /\ Holders(s)' = Holders(s)
  BY <1>1 DEF Queuers, Holders, Live, Parked, SameGeneration
<1>3. ParkedRequests' = ParkedRequests
  BY <1>1 DEF ParkedRequests, Parked
<1>4. SleepersQueued'
  BY <1>1 DEF SleepersQueued, QueueInv, Parked, SameGeneration
<1>5. QueueWithin'
  BY <1>1 DEF QueueInv, QueueWithin, Parked, LimitLowered
<1>6. QED
  BY <1>1, <1>2, <1>3, <1>4, <1>5 DEF QueueInv, WaitersExact, ScopesInUse

\* Every step keeps the queue's invariant.
LEMMA QueueStep == QueueInv /\ [Next]_vars => QueueInv'
<1> SUFFICES ASSUME QueueInv, [Next]_vars PROVE QueueInv'
  OBVIOUS
<1>1. ProbeInv' /\ TypeOK' /\ TimersArmed'
  BY ProbeStep, TimersStep DEF QueueInv, ProbeInv
<1>3. ASSUME NEW r \in Requests,
             \/ Start(r) \/ AdmitDisarmed(r) \/ RefuseCapacity(r)
             \/ PassReady(r) \/ RefuseFull(r) \/ Grant(r) \/ GiveUp(r)
      PROVE  QueueInv'
  BY <1>1, <1>3, WaitsLeave, LeaveStep DEF QueueInv
<1>4. ASSUME NEW r \in Requests, NEW hint,
             \/ ObserveFailure(r, hint) \/ ObserveQuota(r, hint)
             \/ ObserveSuccess(r) \/ CancelPermit(r) \/ SettleStale(r)
      PROVE  QueueInv'
  BY <1>1, <1>4, SettlesLeave, LeaveStep DEF QueueInv
<1>5. ASSUME NEW r \in Requests, Park(r) PROVE QueueInv'
  BY <1>1, <1>5, ParkStep DEF QueueInv
<1>6. CASE Configure
  BY <1>1, <1>6, ConfigureQueue DEF QueueInv
<1>7. CASE \/ ReleaseQuota \/ Tick \/ UNCHANGED vars
           \/ \E s \in Scopes : TimerFires(s) \/ SampleExpires(s)
                                \/ ActivityExpires(s)
  BY <1>1, <1>7, TimeQueue DEF QueueInv
<1>8. QED
  BY <1>3, <1>4, <1>5, <1>6, <1>7, NextCases, Zenon DEF Waits

\* The queue's invariant holds in every reachable state.
LEMMA QueueInvariant == Spec => []QueueInv
<1>1. Init => /\ WaitersExact /\ ScopesInUse /\ TimersArmed /\ SleepersQueued
              /\ QueueWithin
  <2> SUFFICES ASSUME Init
               PROVE  /\ WaitersExact /\ ScopesInUse /\ TimersArmed
                      /\ SleepersQueued /\ QueueWithin
    OBVIOUS
  <2>1. \A r \in Requests : ~Parked(r) /\ ~Live(r)
    BY DEF Init, Parked, Parks, Live
  <2>2. /\ \A s \in Scopes : Queuers(s) = {} /\ Holders(s) = {}
        /\ ParkedRequests = {}
    BY <2>1 DEF Queuers, Holders, ParkedRequests
  <2>3. WaitersExact
    BY <2>2, FS_EmptySet DEF Init, WaitersExact, Zero
  <2>4. QED
    BY <2>1, <2>2, <2>3, StormAssumption DEF Init, ScopesInUse, TimersArmed,
      SleepersQueued, QueueWithin, Zero
<1>2. QED
  BY <1>1, QueueStep, ProbeInvariant, PTL DEF Spec, QueueInv

\* The counters of scopes and queue are exact and nobody parked in waitStorm
\* sleeps for ever, whatever reloads, wakeups, timeouts, evictions and late
\* settlements cross.
THEOREM WaitersAreAccounted == Spec => []WaitersAccounted
<1>1. QueueInv => WaitersAccounted
  <2> SUFFICES ASSUME QueueInv PROVE WaitersAccounted
    OBVIOUS
  <2>1. CountsExact
    BY DEF QueueInv, ProbeInv, RefsExact, WaitersExact, ScopesInUse,
      ParkedRequests, CountsExact
  <2>2. NoLostWakeup
    <3> SUFFICES ASSUME NEW r \in current
                 PROVE  \E s \in claimed[r] :
                          \/ s \in timer
                          \/ /\ s \in probing
                             /\ \E q \in Requests : Live(q) /\ s \in probes[q]
      BY DEF NoLostWakeup
    <3>1. PICK s \in claimed[r] : s \in timer \cup probing
      BY DEF QueueInv, SleepersQueued
    <3>2. s \in Scopes
      BY DEF QueueInv, ProbeInv, TypeOK, RequestsTyped
    <3>3. QED
      BY <3>1, <3>2 DEF QueueInv, ProbeInv, ProbeOwned
  <2>3. QED
    BY <2>1, <2>2 DEF WaitersAccounted
<1>2. QED
  BY <1>1, QueueInvariant, PTL

\* A provider-wide storm needs every live model over the threshold.
LEMMA OutageStep ==
  ASSUME TypeOK, [Next]_vars, Provider \notin active, Provider \in active',
         NEW s \in recent' \cap Models
  PROVE  100 * failures'[s] >= ErrorPercent * samples'[s] /\ failures'[s] > 0
<1>1. \E r \in Requests : \E hint \in Hints : ObserveFailure(r, hint)
  <2>1. ASSUME NEW r \in Requests,
               \/ Start(r) \/ Waits(r) \/ GiveUp(r) \/ SettleStale(r)
               \/ ObserveSuccess(r) \/ CancelPermit(r)
        PROVE  FALSE
    BY <2>1 DEF Start, Waits, AdmitDisarmed, RefuseCapacity, PassReady, Grant,
      RefuseFull, Park, GiveUp, SettleStale, ObserveSuccess, CancelPermit,
      Evict, gateVars
  <2>2. ASSUME NEW r \in Requests, NEW hint \in Hints, ObserveQuota(r, hint)
        PROVE  FALSE
    BY <2>2 DEF ObserveQuota
  <2>3. CASE \/ ReleaseQuota \/ Configure \/ Tick \/ UNCHANGED vars
             \/ \E t \in Scopes : TimerFires(t) \/ SampleExpires(t)
                                  \/ ActivityExpires(t)
    BY <2>3 DEF ReleaseQuota, Configure, Close, Tick, TimerFires,
      SampleExpires, ActivityExpires, vars, gateVars
  <2>4. QED
    BY <2>1, <2>2, <2>3, NextCases, Zenon
<1>2. PICK r \in Requests, hint \in Hints : ObserveFailure(r, hint)
  BY <1>1
<1>3. Provider \in Opening(r)
  BY <1>2 DEF ObserveFailure
<1>4. allActiveModelsAffected(r)
  BY <1>3, StormAssumption DEF Opening
<1>5. s \in (recent \cup claimed[r]) \cap Models
  BY <1>2 DEF ObserveFailure
<1>6. threshold(s, samples', failures')
  BY <1>2, <1>4, <1>5 DEF allActiveModelsAffected, ObserveFailure
<1>7. QED
  BY <1>6 DEF threshold

\* A gate that stays open keeps its window, but for the passing of time.
LEMMA WindowStep ==
  ASSUME ProbeInv, [Next]_vars, ~Tick, NEW s \in Scopes, Gated(s), Gated(s)',
         generation' = generation
  PROVE  cooldown'[s] >= cooldown[s]
<1> USE DEF ProbeInv, TypeOK
<1>0. cooldown[s] \in Nat
  BY DEF PaceTyped
<1>1. CASE UNCHANGED cooldown
  BY <1>0, <1>1
<1>2. ASSUME NEW r \in Requests, NEW due, Evict(r, due)
      PROVE  cooldown'[s] >= cooldown[s]
  <2>1. s \notin Evicted(r)
    BY DEF Gated, Evicted, Quiet
  <2>2. QED
    BY <1>0, <1>2, <2>1 DEF Evict, Reset
<1>3. ASSUME NEW r \in Requests, Start(r) \/ Waits(r) \/ GiveUp(r)
      PROVE  cooldown'[s] >= cooldown[s]
  <2>1. \/ UNCHANGED cooldown \/ Evict(r, {}) \/ Evict(r, Due(r))
    BY <1>3, Zenon DEF Start, Waits, GiveUp, AdmitDisarmed, RefuseCapacity,
      PassReady, Grant, RefuseFull, Park, paceVars
  <2>2. QED
    BY <1>1, <1>2, <2>1
<1>4. ASSUME NEW S \in SUBSET Scopes, NEW Grown, NEW hint \in Nat, NEW Cleared,
             NEW Extended, s \notin Cleared,
             s \in Extended => hint > cooldown[s],
             Repace(S, Grown, hint, Cleared, Extended)
      PROVE  cooldown'[s] >= cooldown[s]
  <2>1. PICK jitter \in [S -> 0 .. MaxBackoff] :
          cooldown' = [t \in Scopes |->
            IF t \in S THEN delay(t, t \in Grown, hint, jitter[t])
            ELSE IF t \in Cleared THEN 0
            ELSE IF t \in Extended THEN hint ELSE cooldown[t]]
    BY <1>4 DEF Repace
  <2>2. CASE s \in S
    <3>1. jitter[s] \in Nat
      BY <2>2, StormAssumption
    <3>2. cooldown'[s] = delay(s, s \in Grown, hint, jitter[s])
      BY <2>1, <2>2
    <3>3. QED
      BY <1>0, <1>4, <3>1, <3>2 DEF delay, Longer
  <2>3. CASE s \notin S
    BY <1>0, <1>4, <2>1, <2>3
  <2>4. QED
    BY <2>2, <2>3
<1>5. ASSUME NEW r \in Requests, NEW hint \in Hints,
             ObserveFailure(r, hint) \/ ObserveQuota(r, hint)
      PROVE  cooldown'[s] >= cooldown[s]
  <2>1. /\ Probed(r) \cup Opening(r) \in SUBSET Scopes
        /\ QuotaProbed(r) \cup QuotaOpening(r) \in SUBSET Scopes
        /\ hint \in Nat
    BY StormAssumption DEF Probed, Opening, QuotaProbed, QuotaOpening,
      Settling, RequestsTyped
  <2>2. CASE ObserveFailure(r, hint)
    <3>1. s \in Extending(r, hint) => hint > cooldown[s]
      BY DEF Extending
    <3>2. QED
      BY <1>4, <2>1, <2>2, <3>1 DEF ObserveFailure
  <2>3. CASE ObserveQuota(r, hint)
    BY <1>4, <2>1, <2>3 DEF ObserveQuota
  <2>4. QED
    BY <1>5, <2>2, <2>3
<1>6. ASSUME NEW r \in Requests,
             SettleStale(r) \/ ObserveSuccess(r) \/ CancelPermit(r)
      PROVE  cooldown'[s] >= cooldown[s]
  <2>1. CASE ObserveSuccess(r)
    <3>1. Probed(r) \cap StillOpen(r) \in SUBSET Scopes
      BY DEF Probed, Settling, RequestsTyped
    <3>2. s \in StillOpen(r)
      BY <2>1 DEF ObserveSuccess, StillOpen, Gated
    <3>3. Repace(Probed(r) \cap StillOpen(r), {}, 0, Probed(r) \ StillOpen(r), {})
      BY <2>1 DEF ObserveSuccess
    <3>4. QED
      BY <1>4, <3>1, <3>2, <3>3
  <2>2. CASE SettleStale(r) \/ CancelPermit(r)
    BY <1>1, <2>2, Zenon DEF SettleStale, CancelPermit, paceVars
  <2>3. QED
    BY <1>6, <2>1, <2>2
<1>7. CASE ReleaseQuota
  <2>1. s \notin {Provider} \ active
    BY <1>7 DEF ReleaseQuota, Gated, GatesTyped
  <2>2. QED
    BY <1>0, <1>7, <2>1 DEF ReleaseQuota, Reset
<1>8. CASE Configure
  BY <1>8 DEF Configure, GatesTyped
<1>9. ASSUME NEW t \in Scopes,
             TimerFires(t) \/ SampleExpires(t) \/ ActivityExpires(t)
      PROVE  cooldown'[s] >= cooldown[s]
  BY <1>0, <1>9 DEF TimerFires, SampleExpires, ActivityExpires, paceVars
<1>10. CASE UNCHANGED vars
  BY <1>1, <1>10 DEF vars, paceVars
<1>11. QED
  BY <1>3, <1>5, <1>6, <1>7, <1>8, <1>9, <1>10, NextCases, Zenon

\* No step declares an outage one healthy model contradicts, brings a probe
\* closer than the provider asked, or turns a queued request away unless a reload has
\* lowered the queue's limit since it queued.
THEOREM StormsAreJust == Spec => StormsJust
<1>1. QueueInv /\ [Next]_vars =>
        ((Provider \notin active /\ Provider \in active') =>
           \A s \in recent' \cap Models :
             100 * failures'[s] >= ErrorPercent * samples'[s] /\ failures'[s] > 0)
  BY OutageStep DEF QueueInv, ProbeInv
<1>2. QueueInv /\ [Next]_vars =>
        \A s \in Scopes :
          Gated(s) /\ Gated(s)' /\ generation' = generation
            => cooldown'[s] >= cooldown[s] \/ Tick
  BY WindowStep DEF QueueInv
<1>3. QueueInv /\ [Next]_vars =>
        \A r \in Requests : RefuseFull(r) => ~Parked(r) \/ LimitLowered(r)
  <2> SUFFICES ASSUME QueueInv, NEW r \in Requests, RefuseFull(r), Parked(r),
                      ~LimitLowered(r)
               PROVE  FALSE
    OBVIOUS
  <2>1. queued - 1 >= opts.maxQueue
    BY DEF RefuseFull, QueueFull, unqueueQueued
  <2>2. queued <= opts.maxQueue /\ opts.maxQueue \in Nat
    BY OptionsType DEF QueueInv, QueueWithin, ProbeInv
  <2>3. QED
    BY <2>1, <2>2 DEF QueueInv, ProbeInv, TypeOK, RequestsTyped
<1>4. Spec => OutageIsTotal
  BY <1>1, QueueInvariant, PTL DEF Spec, OutageIsTotal
<1>5. Spec => WindowHonoured
  BY <1>2, QueueInvariant, PTL DEF Spec, WindowHonoured
<1>6. Spec => QueuedKeepsPlace
  BY <1>3, QueueInvariant, PTL DEF Spec, QueuedKeepsPlace
<1>7. QED
  BY <1>4, <1>5, <1>6 DEF StormsJust
=============================================================================
