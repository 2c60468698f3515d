--------------------------- MODULE SendGateProofs ---------------------------
(***************************************************************************)
(* Proofs about SendGate for every set of requests, every backoff setting  *)
(* and every bound: types, the exclusive send token, the refinement of the *)
(* one-owner circuit breaker, that every parked send is counted and woken, *)
(* and that only the token's owner relents.                                *)
(***************************************************************************)
EXTENDS SendGate, FiniteSetTheorems, TLAPS

\* The backoff ladder stays a natural number of ticks.
LEMMA GrowBackoffType ==
  ASSUME NEW cur \in Nat PROVE growBackoff(cur) \in Nat
BY SendGateAssumption DEF growBackoff

\* Every jittered delay is a natural number of ticks.
LEMMA JitterType ==
  ASSUME NEW d \in Nat, NEW j \in jitterBackoff(d) PROVE j \in Nat
BY DEF jitterBackoff

\* BackoffFor's delay is a natural number of ticks.
LEMMA DelayType ==
  ASSUME NEW j \in Nat, NEW h \in Nat
  PROVE  Larger(j, ClampRetryHint(h)) \in Nat
BY SendGateAssumption DEF Larger, ClampRetryHint

\* The actions of each kind of step, for the proofs that unfold all of them.
LEMMA NextCases ==
  ASSUME [Next]_vars
  PROVE  \/ \E r \in Requests : \E retry \in BOOLEAN : Start(r, retry)
         \/ \E r \in Requests : WaitStep(r)
         \/ \E r \in Requests : LadderStep(r)
         \/ \E r \in Requests : ClientAborts(r)
         \/ \E matched \in SUBSET Requests : DrainQueue(matched)
         \/ AddHold \/ RemoveHold \/ HoldExpires
         \/ Tick \/ PacerExpire \/ PacerKick
         \/ UNCHANGED vars
BY Zenon DEF Next, Finished

\* Every step keeps the group's flags Boolean.
LEMMA FlagsStep == FlagsTyped /\ [Next]_vars => FlagsTyped'
<1> SUFFICES ASSUME FlagsTyped, [Next]_vars PROVE FlagsTyped'
  OBVIOUS
<1> USE DEF FlagsTyped
<1>1. ASSUME NEW r \in Requests, NEW retry \in BOOLEAN, Start(r, retry)
      PROVE  FlagsTyped'
  BY <1>1, Zenon DEF Start, token, pacing, policy
<1>2. ASSUME NEW r \in Requests, WaitStep(r) PROVE FlagsTyped'
  BY <1>2, Zenon DEF WaitStep, DrainCheck, SnapshotKicks, HoldCheck,
    AnnounceHold, ParkAtGate, ParkAtGateCounting, PassGate, Wake,
    WaitCancelled, token, pacing, policy
<1>3. ASSUME NEW r \in Requests, LadderStep(r) PROVE FlagsTyped'
  BY <1>3, Zenon DEF LadderStep, StormAdmits, StormRefuses, Succeeds,
    EndsUnretried, Advance, ParkOnQuota, AbsorbFailure, Exhausted, BackoffFor,
    Trip, TripOwning, EndSend, ReleaseToken, EndWithoutToken, FailSend,
    FailSendReleasing, KeepSerial, armPacingLater, token, pacing, policy
<1>4. CASE \/ \E r \in Requests : ClientAborts(r)
           \/ \E matched \in SUBSET Requests : DrainQueue(matched)
           \/ AddHold \/ RemoveHold \/ HoldExpires
  BY <1>4, Zenon DEF ClientAborts, DrainQueue, AddHold, RemoveHold,
    HoldExpires, token, pacing
<1>5. CASE Tick \/ PacerExpire \/ PacerKick \/ UNCHANGED vars
  BY <1>5, Zenon DEF Tick, PacerExpire, PacerKick, CallbackRuns, vars, token,
    pacing, policy
<1>6. QED
  BY <1>1, <1>2, <1>3, <1>4, <1>5, NextCases, Zenon

\* Every step keeps the group's and the ladders' counters natural.
LEMMA CountsStep == CountsTyped /\ [Next]_vars => CountsTyped'
<1> SUFFICES ASSUME CountsTyped, [Next]_vars PROVE CountsTyped'
  OBVIOUS
<1> USE DEF CountsTyped
<1>1. ASSUME NEW r \in Requests, NEW retry \in BOOLEAN, Start(r, retry)
      PROVE  CountsTyped'
  BY <1>1 DEF Start, pacing, policy, budget, waiting
<1>2. ASSUME NEW r \in Requests, WaitStep(r) PROVE CountsTyped'
  BY <1>2 DEF WaitStep, DrainCheck, SnapshotKicks, HoldCheck, AnnounceHold,
    ParkAtGate, ParkAtGateCounting, PassGate, Wake, WaitCancelled,
    LeaveWaitSend, pacing, policy, budget, ladder, waiting
<1>3. ASSUME NEW r \in Requests, LadderStep(r) PROVE CountsTyped'
  <2>1. CASE StormAdmits(r) \/ StormRefuses(r) \/ Succeeds(r)
             \/ EndsUnretried(r) \/ EndWithoutToken(r)
             \/ \E active \in BOOLEAN : Exhausted(r, active)
    BY <2>1 DEF StormAdmits, StormRefuses, Succeeds, EndsUnretried, Advance,
      EndWithoutToken, Exhausted, pacing, policy, ladder, budget, waiting
  <2>2. CASE \E manual \in BOOLEAN : ParkOnQuota(r, manual)
    BY <2>2 DEF ParkOnQuota, pacing
  <2>3. CASE \E active \in BOOLEAN : AbsorbFailure(r, active)
    BY <2>3 DEF AbsorbFailure, pacing, policy, waiting
  <2>4. ASSUME NEW hint \in Hints, BackoffFor(r, hint) PROVE CountsTyped'
    <3>1. backoff' \in Nat
      BY <2>4, GrowBackoffType DEF BackoffFor
    <3>2. PICK jittered \in jitterBackoff(backoff') :
            delay' = [delay EXCEPT ![r] =
                        Larger(jittered, ClampRetryHint(hint))]
      BY <2>4 DEF BackoffFor
    <3>3. Larger(jittered, ClampRetryHint(hint)) \in Nat
      BY <3>1, JitterType, DelayType, SendGateAssumption
    <3>4. delay' \in [Requests -> Nat]
      BY <3>2, <3>3
    <3>5. QED
      BY <2>4, <3>1, <3>4 DEF BackoffFor, policy, budget, waiting
  <2>5. CASE Trip(r)
    BY <2>5 DEF Trip, TripOwning, armPacingLater, policy
  <2>6. CASE EndSend(r)
    BY <2>6 DEF EndSend, ReleaseToken, policy, budget
  <2>7. CASE FailSend(r)
    BY <2>7, GrowBackoffType, JitterType DEF FailSend, FailSendReleasing,
      armPacingLater, policy, budget
  <2>8. QED
    BY <1>3, <2>1, <2>2, <2>3, <2>4, <2>5, <2>6, <2>7, Zenon DEF LadderStep
<1>4. CASE \/ \E r \in Requests : ClientAborts(r)
           \/ \E matched \in SUBSET Requests : DrainQueue(matched)
           \/ AddHold \/ RemoveHold \/ HoldExpires
  BY <1>4 DEF ClientAborts, DrainQueue, AddHold, RemoveHold, HoldExpires,
    Intervene, pacing, ladder, budget, waiting
<1>5. CASE Tick \/ PacerExpire \/ PacerKick \/ UNCHANGED vars
  BY <1>5 DEF Tick, PacerExpire, PacerKick, CallbackRuns, vars, policy,
    pacing, ladder, budget, waiting
<1>6. QED
  BY <1>1, <1>2, <1>3, <1>4, <1>5, NextCases, Zenon

\* Every step keeps each ladder at a control point and its locals about
\* requests of the group.
LEMMA RequestsStep == RequestsTyped /\ [Next]_vars => RequestsTyped'
<1> SUFFICES ASSUME RequestsTyped, [Next]_vars PROVE RequestsTyped'
  OBVIOUS
<1> USE DEF RequestsTyped
<1>1. ASSUME NEW r \in Requests, NEW retry \in BOOLEAN, Start(r, retry)
      PROVE  RequestsTyped'
  BY <1>1 DEF Start, Goto, Points, InWaitSend, waiting
<1>2. ASSUME NEW r \in Requests, WaitStep(r) PROVE RequestsTyped'
  BY <1>2 DEF WaitStep, DrainCheck, SnapshotKicks, HoldCheck, AnnounceHold,
    ParkAtGate, ParkAtGateCounting, PassGate, Wake, WaitCancelled,
    LeaveWaitSend, ForgetWait, Goto, Points, InWaitSend, Parks, ladder, waiting
<1>3. ASSUME NEW r \in Requests, LadderStep(r) PROVE RequestsTyped'
  BY <1>3 DEF LadderStep, StormAdmits, StormRefuses, Succeeds, EndsUnretried,
    Advance, ParkOnQuota, AbsorbFailure, Exhausted, BackoffFor, Trip,
    TripOwning, EndSend, ReleaseToken, EndWithoutToken, FailSend,
    FailSendReleasing, Kick, Goto, Points, InWaitSend, ladder, waiting
<1>4. CASE \/ \E r \in Requests : ClientAborts(r)
           \/ \E matched \in SUBSET Requests : DrainQueue(matched)
           \/ AddHold \/ RemoveHold \/ HoldExpires
  BY <1>4 DEF ClientAborts, DrainQueue, AddHold, RemoveHold, HoldExpires,
    Kick, ladder, waiting
<1>5. CASE Tick \/ PacerExpire \/ PacerKick \/ UNCHANGED vars
  BY <1>5 DEF Tick, PacerExpire, PacerKick, CallbackRuns, Kick, vars, ladder,
    waiting
<1>6. QED
  BY <1>1, <1>2, <1>3, <1>4, <1>5, NextCases, Zenon

\* The group's fields and every ladder's locals keep their types: no counter
\* goes below zero, no delay is negative, no ladder leaves its control points.
THEOREM TypeCorrect == Spec => []TypeOK
<1>1. Init => TypeOK
  <2>1. Init => FlagsTyped
    BY Zenon DEF Init, FlagsTyped
  <2>2. Init => CountsTyped
    BY DEF Init, CountsTyped
  <2>3. Init => RequestsTyped
    BY DEF Init, RequestsTyped, Points
  <2>4. QED
    BY <2>1, <2>2, <2>3 DEF TypeOK
<1>2. TypeOK /\ [Next]_vars => TypeOK'
  BY FlagsStep, CountsStep, RequestsStep DEF TypeOK
<1>3. QED
  BY <1>1, <1>2, PTL DEF Spec

\* Types and the token together are inductive: a step that claims the token
\* has seen probing clear, so nobody carries it; a step that clears probing is
\* its one owner's; every other step leaves both alone.
TokenInv == TypeOK /\ TokenExclusive

\* One step preserves the token invariant.
LEMMA TokenStep == TokenInv /\ [Next]_vars => TokenExclusive'
<1> SUFFICES ASSUME TokenInv, [Next]_vars PROVE TokenExclusive'
  OBVIOUS
<1> USE DEF TokenInv, TokenExclusive, TypeOK, RequestsTyped
<1>1. ASSUME NEW r \in Requests, NEW retry \in BOOLEAN, Start(r, retry)
      PROVE  TokenExclusive'
  BY <1>1 DEF Start, Goto, token
<1>2. ASSUME NEW r \in Requests, WaitStep(r) PROVE TokenExclusive'
  <2>1. CASE PassGate(r)
    BY <2>1 DEF PassGate, GateClosed, LeaveWaitSend, Goto
  <2>2. CASE UNCHANGED <<token, own>>
    BY <1>2, <2>2 DEF WaitStep, DrainCheck, SnapshotKicks, HoldCheck,
      AnnounceHold, ParkAtGate, ParkAtGateCounting, PassGate, Wake,
      WaitCancelled, LeaveWaitSend, Goto, token
  <2>3. QED
    BY <1>2, <2>1, <2>2 DEF WaitStep, DrainCheck, SnapshotKicks, HoldCheck,
      AnnounceHold, ParkAtGate, ParkAtGateCounting, Wake, WaitCancelled, ladder
<1>3. ASSUME NEW r \in Requests, LadderStep(r) PROVE TokenExclusive'
  <2>1. CASE StormAdmits(r) \/ StormRefuses(r) \/ Succeeds(r)
             \/ EndsUnretried(r)
             \/ \E active \in BOOLEAN : Exhausted(r, active)
    BY <2>1 DEF StormAdmits, StormRefuses, Succeeds, EndsUnretried, Advance,
      Exhausted, Goto, token, ladder
  <2>2. CASE \/ \E manual \in BOOLEAN : ParkOnQuota(r, manual)
            \/ \E active \in BOOLEAN : AbsorbFailure(r, active)
            \/ \E hint \in Hints : BackoffFor(r, hint)
    BY <2>2 DEF ParkOnQuota, AbsorbFailure, BackoffFor, Goto, token
  <2>3. CASE Trip(r)
    BY <2>3 DEF Trip, TripOwning, Goto
  <2>4. CASE EndSend(r)
    BY <2>4 DEF EndSend, ReleaseToken, Goto
  <2>5. CASE EndWithoutToken(r)
    BY <2>5 DEF EndWithoutToken, Goto, token, ladder
  <2>6. CASE FailSend(r)
    BY <2>6 DEF FailSend, FailSendReleasing, Goto
  <2>7. QED
    BY <1>3, <2>1, <2>2, <2>3, <2>4, <2>5, <2>6, Zenon DEF LadderStep
<1>4. CASE \/ \E r \in Requests : ClientAborts(r)
           \/ \E matched \in SUBSET Requests : DrainQueue(matched)
           \/ AddHold \/ RemoveHold \/ HoldExpires
  BY <1>4 DEF ClientAborts, DrainQueue, AddHold, RemoveHold, HoldExpires,
    token, ladder
<1>5. CASE Tick \/ PacerExpire \/ PacerKick \/ UNCHANGED vars
  BY <1>5 DEF Tick, PacerExpire, PacerKick, CallbackRuns, vars, token, ladder
<1>6. QED
  BY <1>1, <1>2, <1>3, <1>4, <1>5, NextCases, Zenon

\* Both conjuncts hold in every reachable state.
LEMMA TokenInvariant == Spec => []TokenInv
<1>1. Init => TokenExclusive
  BY DEF Init, TokenExclusive
<1>2. TokenInv /\ [Next]_vars => TokenExclusive'
  BY TokenStep
<1>3. QED
  BY <1>1, <1>2, TypeCorrect, PTL DEF Spec, TokenInv

\* At every moment the retry token has exactly one live owner or is free, for
\* any number of requests, retries, drains, aborts and holds.
THEOREM TokenIsExclusive == Spec => []TokenExclusive
BY TokenInvariant, PTL DEF TokenInv

\* The abstract owner is the one request that carries the token.
LEMMA OwnerIsCarrier ==
  ASSUME TokenInv, NEW r \in own PROVE owner = r
BY DEF TokenInv, TokenExclusive, TypeOK, RequestsTyped, owner

\* ...and after a step too.
LEMMA OwnerIsCarrierNext ==
  ASSUME TokenInv', NEW r \in own' PROVE owner' = r
BY DEF TokenInv, TokenExclusive, TypeOK, RequestsTyped, owner

\* A step that leaves the flags and the carriers alone is abstractly a stutter.
LEMMA SameTokenStutters ==
  ASSUME UNCHANGED <<token, own>> PROVE UNCHANGED <<mode, owner>>
BY DEF token, mode, owner

\* Every step of the send gate is a step of the breaker or a stutter.
LEMMA BreakerStep ==
  TokenInv /\ TokenInv' /\ [Next]_vars => [B!Next]_<<mode, owner>>
<1> SUFFICES ASSUME TokenInv, TokenInv', [Next]_vars
             PROVE  [B!Next]_<<mode, owner>>
  OBVIOUS
<1> USE DEF TokenInv, TokenExclusive, TypeOK, RequestsTyped
<1>1. ASSUME NEW r \in Requests, PassGate(r) PROVE [B!Next]_<<mode, owner>>
  <2>1. CASE r \in own \/ ~tripped
    BY <1>1, <2>1, SameTokenStutters DEF PassGate, token
  <2>2. CASE ~(r \in own \/ ~tripped)
    <3>1. tripped /\ ~probing /\ tripped' /\ probing' /\ r \in own'
      BY <1>1, <2>2 DEF PassGate, GateClosed
    <3>2. mode = "halfOpen" /\ owner = NoOne /\ mode' = "open"
      BY <3>1 DEF mode, owner
    <3>3. owner' = r
      BY <3>1, OwnerIsCarrierNext
    <3>4. QED
      BY <3>2, <3>3 DEF B!Next, B!Probes, B!HalfOpen
  <2>3. QED
    BY <2>1, <2>2
<1>2. ASSUME NEW r \in Requests, Trip(r) PROVE [B!Next]_<<mode, owner>>
  <2>1. CASE probing
    BY <1>2, <2>1, SameTokenStutters DEF Trip, TripOwning, token, mode, owner
  <2>2. CASE ~probing
    <3>1. tripped' /\ probing' /\ r \in own'
      BY <1>2, <2>2 DEF Trip, TripOwning
    <3>2. mode' = "open" /\ owner' = r
      BY <3>1, OwnerIsCarrierNext DEF mode
    <3>3. owner = NoOne /\ mode \in {"closed", "halfOpen"}
      BY <2>2 DEF mode, owner
    <3>4. QED
      BY <3>2, <3>3 DEF B!Next, B!Trips, B!Closed, B!HalfOpen
  <2>3. QED
    BY <2>1, <2>2
<1>3. ASSUME NEW r \in Requests, EndSend(r) PROVE [B!Next]_<<mode, owner>>
  <2>1. mode = "open" /\ owner = r
    BY <1>3, OwnerIsCarrier DEF EndSend, ReleaseToken, mode
  <2>2. ~probing'
    BY <1>3 DEF EndSend, ReleaseToken
  <2>3. owner' = NoOne /\ mode' \in {"closed", "halfOpen"}
    BY <2>2 DEF mode, owner
  <2>4. QED
    BY <2>1, <2>3 DEF B!Next, B!KeepsSerial, B!Restores, B!Open
<1>4. ASSUME NEW r \in Requests, FailSend(r) PROVE [B!Next]_<<mode, owner>>
  <2>1. CASE r \in own
    <3>1. mode = "open" /\ owner = r
      BY <2>1, OwnerIsCarrier DEF mode
    <3>2. mode' = "halfOpen" /\ owner' = NoOne
      BY <1>4, <2>1 DEF FailSend, FailSendReleasing, mode, owner
    <3>3. QED
      BY <3>1, <3>2 DEF B!Next, B!KeepsSerial, B!Open
  <2>2. CASE r \notin own /\ tripped
    <3>1. UNCHANGED <<token, own>>
      BY <1>4, <2>2 DEF FailSend, FailSendReleasing, token, FlagsTyped
    <3>2. QED
      BY <3>1, SameTokenStutters
  <2>3. CASE r \notin own /\ ~tripped
    <3>1. mode = "closed" /\ owner = NoOne
      BY <2>3 DEF mode, owner
    <3>2. mode' = "halfOpen" /\ owner' = NoOne
      BY <1>4, <2>3 DEF FailSend, FailSendReleasing, mode, owner
    <3>3. QED
      BY <3>1, <3>2 DEF B!Next, B!FailsUnowned, B!Closed
  <2>4. QED
    BY <2>1, <2>2, <2>3
<1>5. CASE UNCHANGED <<token, own>>
  BY <1>5, SameTokenStutters
<1>6. ASSUME NEW r \in Requests, WaitStep(r)
      PROVE  PassGate(r) \/ UNCHANGED <<token, own>>
  BY <1>6, Zenon DEF WaitStep, DrainCheck, SnapshotKicks, HoldCheck,
    AnnounceHold, ParkAtGate, ParkAtGateCounting, Wake, WaitCancelled, ladder
<1>7. ASSUME NEW r \in Requests, LadderStep(r)
      PROVE  Trip(r) \/ EndSend(r) \/ FailSend(r) \/ UNCHANGED <<token, own>>
  BY <1>7, Zenon DEF LadderStep, StormAdmits, StormRefuses, Succeeds,
    EndsUnretried, Advance, ParkOnQuota, AbsorbFailure, Exhausted, BackoffFor,
    EndWithoutToken, ladder
<1>8. ASSUME \/ \E r \in Requests : \E retry \in BOOLEAN : Start(r, retry)
             \/ \E r \in Requests : ClientAborts(r)
             \/ \E matched \in SUBSET Requests : DrainQueue(matched)
             \/ AddHold \/ RemoveHold \/ HoldExpires
             \/ Tick \/ PacerExpire \/ PacerKick
             \/ UNCHANGED vars
      PROVE  UNCHANGED <<token, own>>
  BY <1>8, Zenon DEF Start, ClientAborts, DrainQueue, AddHold, RemoveHold,
    HoldExpires, Tick, PacerExpire, PacerKick, CallbackRuns, vars, ladder
<1>9. QED
  BY <1>1, <1>2, <1>3, <1>4, <1>5, <1>6, <1>7, <1>8, NextCases, Zenon

\* The send gate, with all its parking, kicking, draining and backing off,
\* implements the one-owner circuit breaker.
THEOREM SendGateImplementsBreaker == Spec => ImplementsBreaker
<1>1. Init => B!Init
  BY DEF Init, B!Init, B!Closed, mode, owner
<1>2. QED
  BY <1>1, TokenInvariant, BreakerStep, PTL DEF Spec, ImplementsBreaker, B!Spec

\* No step takes a request past the gate while another request owns it.
THEOREM OneProbeAtATime == Spec => NoSecondProbe
<1>1. TokenInv /\ [Next]_vars =>
        [\A r \in own, s \in Requests \ own :
           pc[s] = "gate" => pc'[s] # "storm"]_vars
  <2> SUFFICES ASSUME TokenInv, [Next]_vars,
                      NEW r \in own, NEW s \in Requests \ own, pc[s] = "gate"
               PROVE  pc'[s] # "storm"
    OBVIOUS
  <2> USE DEF TokenInv, TokenExclusive, TypeOK, RequestsTyped, Goto
  <2>1. ASSUME NEW q \in Requests, NEW retry \in BOOLEAN, Start(q, retry)
        PROVE  pc'[s] # "storm"
    BY <2>1 DEF Start
  <2>2. ASSUME NEW q \in Requests, WaitStep(q) PROVE pc'[s] # "storm"
    BY <2>2 DEF WaitStep, DrainCheck, SnapshotKicks, HoldCheck, AnnounceHold,
      ParkAtGate, ParkAtGateCounting, PassGate, GateClosed, Wake,
      WaitCancelled, LeaveWaitSend, Parks
  <2>3. ASSUME NEW q \in Requests, LadderStep(q) PROVE pc'[s] # "storm"
    BY <2>3 DEF LadderStep, StormAdmits, StormRefuses, Succeeds,
      EndsUnretried, Advance, ParkOnQuota, AbsorbFailure, Exhausted,
      BackoffFor, Trip, TripOwning, EndSend, ReleaseToken, EndWithoutToken,
      Ended, FailSend, FailSendReleasing
  <2>4. CASE UNCHANGED pc
    BY <2>4
  <2>5. QED
    BY <2>1, <2>2, <2>3, <2>4, NextCases DEF ClientAborts, DrainQueue, AddHold,
      RemoveHold, HoldExpires, Tick, PacerExpire, PacerKick, CallbackRuns, vars
<1>2. QED
  BY <1>1, TokenInvariant, PTL DEF Spec, NoSecondProbe

(***************************************************************************)
(* Nobody parks for ever.  NoLostWakeup is not inductive by itself: that a *)
(* request which parks on the window will be kicked needs the pacer to be  *)
(* armed for every open window, and that one which parks on the token will *)
(* be kicked needs the token invariant.                                    *)
(***************************************************************************)
PacerArmed == window > 0 => pacer

WakeInv == TokenInv /\ PacerArmed /\ NoLostWakeup

\* An open window always has its pacer armed.
LEMMA PacerStep == TypeOK /\ PacerArmed /\ [Next]_vars => PacerArmed'
<1> SUFFICES ASSUME TypeOK, PacerArmed, [Next]_vars PROVE PacerArmed'
  OBVIOUS
<1> USE DEF PacerArmed, TypeOK, CountsTyped
<1>1. ASSUME NEW r \in Requests, NEW retry \in BOOLEAN, Start(r, retry)
      PROVE  PacerArmed'
  BY <1>1 DEF Start, pacing
<1>2. ASSUME NEW r \in Requests, WaitStep(r) PROVE PacerArmed'
  BY <1>2 DEF WaitStep, DrainCheck, SnapshotKicks, HoldCheck, AnnounceHold,
    ParkAtGate, ParkAtGateCounting, PassGate, Wake, WaitCancelled, pacing
<1>3. ASSUME NEW r \in Requests, LadderStep(r) PROVE PacerArmed'
  BY <1>3 DEF LadderStep, StormAdmits, StormRefuses, Succeeds, EndsUnretried,
    Advance, ParkOnQuota, AbsorbFailure, Exhausted, BackoffFor, Trip,
    TripOwning, EndSend, ReleaseToken, EndWithoutToken, FailSend,
    FailSendReleasing, armPacingLater, pacing
<1>4. CASE \/ \E r \in Requests : ClientAborts(r)
           \/ \E matched \in SUBSET Requests : DrainQueue(matched)
           \/ AddHold \/ RemoveHold \/ HoldExpires
  BY <1>4 DEF ClientAborts, DrainQueue, AddHold, RemoveHold, HoldExpires, pacing
<1>5. CASE Tick \/ PacerExpire \/ PacerKick \/ UNCHANGED vars
  BY <1>5 DEF Tick, PacerExpire, PacerKick, CallbackRuns, vars, pacing
<1>6. QED
  BY <1>1, <1>2, <1>3, <1>4, <1>5, NextCases, Zenon

\* A step that closes every snapshotted channel leaves nobody asleep.
LEMMA KickWakesAll == ASSUME Kick PROVE NoLostWakeup'
BY DEF Kick, NoLostWakeup

\* A step that moves no ladder and disturbs none of what a sleeper waits for
\* keeps it waiting for something.
LEMMA UndisturbedSleep ==
  ASSUME NoLostWakeup, UNCHANGED <<pacer, callbacks, own, hold, pc>>,
         current' \subseteq current
  PROVE  NoLostWakeup'
BY DEF NoLostWakeup

\* One step leaves nobody asleep whom nothing will wake.
LEMMA WakeStep == WakeInv /\ [Next]_vars => NoLostWakeup'
<1> SUFFICES ASSUME WakeInv, [Next]_vars PROVE NoLostWakeup'
  OBVIOUS
<1> USE DEF WakeInv, TokenInv, TypeOK, RequestsTyped
<1>1. ASSUME NEW r \in Requests, NEW retry \in BOOLEAN, Start(r, retry)
      PROVE  NoLostWakeup'
  BY <1>1 DEF Start, Goto, NoLostWakeup, pacing, policy, waiting
<1>2. ASSUME NEW r \in Requests, WaitStep(r) PROVE NoLostWakeup'
  <2>1. CASE ParkAtGate(r)
    <3>1. pacer \/ own \ {r} # {}
      BY <2>1 DEF ParkAtGate, ParkAtGateCounting, GateClosed, PacerArmed,
        TokenExclusive
    <3>2. QED
      BY <2>1, <3>1 DEF ParkAtGate, ParkAtGateCounting, Goto, NoLostWakeup,
        pacing, policy, ladder
  <2>2. CASE PassGate(r)
    BY <2>2 DEF PassGate, LeaveWaitSend, ForgetWait, Goto, NoLostWakeup,
      pacing, policy
  <2>3. CASE DrainCheck(r) \/ SnapshotKicks(r) \/ Wake(r) \/ WaitCancelled(r)
    BY <2>3 DEF DrainCheck, SnapshotKicks, Wake, WaitCancelled, LeaveWaitSend,
      ForgetWait, Goto, NoLostWakeup, pacing, policy, ladder, waiting
  <2>4. CASE HoldCheck(r) \/ AnnounceHold(r)
    BY <2>4 DEF HoldCheck, AnnounceHold, LeaveWaitSend, ForgetWait, Goto,
      NoLostWakeup, pacing, policy, ladder, waiting
  <2>5. QED
    BY <1>2, <2>1, <2>2, <2>3, <2>4, Zenon DEF WaitStep
<1>3. ASSUME NEW r \in Requests, LadderStep(r) PROVE NoLostWakeup'
  <2>1. CASE StormAdmits(r) \/ StormRefuses(r) \/ Succeeds(r)
             \/ EndsUnretried(r) \/ EndWithoutToken(r)
             \/ \E active \in BOOLEAN : Exhausted(r, active)
    BY <2>1 DEF StormAdmits, StormRefuses, Succeeds, EndsUnretried, Advance,
      EndWithoutToken, Exhausted, Goto, NoLostWakeup, pacing, policy, ladder,
      waiting
  <2>2. CASE \E manual \in BOOLEAN : ParkOnQuota(r, manual)
    <3>1. CASE ParkOnQuota(r, TRUE)
      BY <3>1, KickWakesAll, Zenon DEF ParkOnQuota
    <3>2. CASE ParkOnQuota(r, FALSE)
      BY <3>2 DEF ParkOnQuota, Goto, NoLostWakeup, pacing, FlagsTyped
    <3>3. QED
      BY <2>2, <3>1, <3>2, Zenon
  <2>3. CASE \/ \E active \in BOOLEAN : AbsorbFailure(r, active)
            \/ \E hint \in Hints : BackoffFor(r, hint)
    BY <2>3 DEF AbsorbFailure, BackoffFor, Goto, NoLostWakeup, pacing, policy,
      waiting
  <2>4. CASE Trip(r) \/ EndSend(r) \/ FailSend(r)
    BY <2>4, KickWakesAll, Zenon DEF Trip, TripOwning, EndSend, FailSend,
      FailSendReleasing
  <2>5. QED
    BY <1>3, <2>1, <2>2, <2>3, <2>4, Zenon DEF LadderStep
<1>4. CASE \/ \E matched \in SUBSET Requests : DrainQueue(matched)
           \/ AddHold \/ RemoveHold \/ PacerKick
  BY <1>4, KickWakesAll, Zenon DEF DrainQueue, AddHold, RemoveHold, PacerKick
<1>5. CASE HoldExpires
  BY <1>5 DEF HoldExpires, NoLostWakeup, pacing, ladder
<1>6. CASE (\E r \in Requests : ClientAborts(r)) \/ Tick \/ UNCHANGED vars
  BY <1>6, UndisturbedSleep DEF ClientAborts, Tick, vars, pacing, policy,
    ladder, waiting
<1>7. CASE PacerExpire
  BY <1>7 DEF PacerExpire, NoLostWakeup, policy, ladder, waiting, CountsTyped
<1>8. QED
  BY <1>1, <1>2, <1>3, <1>4, <1>5, <1>6, <1>7, NextCases, Zenon

\* The strengthened wakeup invariant holds in every reachable state.
LEMMA WakeInvariant == Spec => []WakeInv
<1>1. Init => PacerArmed /\ NoLostWakeup
  BY DEF Init, PacerArmed, NoLostWakeup
<1>2. TokenInv /\ PacerArmed /\ [Next]_vars => PacerArmed'
  BY PacerStep DEF TokenInv
<1>3. WakeInv /\ [Next]_vars => NoLostWakeup'
  BY WakeStep
<1>4. QED
  BY <1>1, <1>2, <1>3, TokenInvariant, PTL DEF Spec, WakeInv

(***************************************************************************)
(* The waiter count.                                                       *)
(***************************************************************************)
\* Only finitely many sends have parked, and the counter is their number.
WaitersCounted == IsFiniteSet(parked) /\ SendWaitersExact

\* A send that parks for the first time since its call adds one.
LEMMA ParkCounts ==
  ASSUME TypeOK, WaitersCounted, NEW r \in Requests, ParkAtGate(r)
  PROVE  WaitersCounted'
<1>1. CASE r \in parked
  <2>1. parked' = parked /\ sendWaiters' = sendWaiters
    BY <1>1 DEF ParkAtGate, ParkAtGateCounting
  <2>2. QED
    BY <2>1 DEF WaitersCounted, SendWaitersExact
<1>2. CASE r \notin parked
  <2>1. parked' = parked \cup {r} /\ sendWaiters' = sendWaiters + 1
    BY <1>2 DEF ParkAtGate, ParkAtGateCounting
  <2>2. QED
    BY <1>2, <2>1, FS_AddElement DEF WaitersCounted, SendWaitersExact
<1>3. QED
  BY <1>1, <1>2

\* Whatever ends the call takes its one back.
LEMMA LeaveCounts ==
  ASSUME TypeOK, WaitersCounted, NEW r \in Requests, NEW point,
         LeaveWaitSend(r, point)
  PROVE  WaitersCounted'
<1>1. parked' = parked \ {r}
  BY DEF LeaveWaitSend, ForgetWait
<1>2. CASE r \in parked
  <2>1. IsFiniteSet(parked \ {r})
        /\ Cardinality(parked \ {r}) = Cardinality(parked) - 1
    BY <1>2, FS_RemoveElement DEF WaitersCounted
  <2>2. Cardinality(parked) # 0
    BY <1>2, FS_EmptySet DEF WaitersCounted
  <2>3. sendWaiters' = sendWaiters - 1
    BY <1>2, <2>2 DEF LeaveWaitSend, WaitersCounted, SendWaitersExact, TypeOK,
      CountsTyped
  <2>4. QED
    BY <1>1, <2>1, <2>3 DEF WaitersCounted, SendWaitersExact
<1>3. CASE r \notin parked
  <2>1. parked' = parked /\ sendWaiters' = sendWaiters
    BY <1>1, <1>3 DEF LeaveWaitSend
  <2>2. QED
    BY <2>1 DEF WaitersCounted, SendWaitersExact
<1>4. QED
  BY <1>2, <1>3

\* No step makes the counter differ from the sends that have parked.
LEMMA WaitersStep == TypeOK /\ WaitersCounted /\ [Next]_vars => WaitersCounted'
<1> SUFFICES ASSUME TypeOK, WaitersCounted, [Next]_vars PROVE WaitersCounted'
  OBVIOUS
<1>1. CASE UNCHANGED <<parked, sendWaiters>>
  BY <1>1 DEF WaitersCounted, SendWaitersExact
<1>2. ASSUME NEW r \in Requests, WaitStep(r) PROVE WaitersCounted'
  <2>1. \/ ParkAtGate(r)
        \/ \E point \in {"ended", "storm"} : LeaveWaitSend(r, point)
        \/ UNCHANGED <<parked, sendWaiters>>
    BY <1>2, Zenon DEF WaitStep, DrainCheck, SnapshotKicks, HoldCheck,
      AnnounceHold, PassGate, Wake, WaitCancelled, waiting
  <2>2. QED
    BY <1>1, <2>1, ParkCounts, LeaveCounts, Zenon
<1>3. ASSUME NEW r \in Requests, LadderStep(r)
      PROVE  UNCHANGED <<parked, sendWaiters>>
  BY <1>3, Zenon DEF LadderStep, StormAdmits, StormRefuses, Succeeds,
    EndsUnretried, Advance, ParkOnQuota, AbsorbFailure, Exhausted, BackoffFor,
    Trip, TripOwning, EndSend, ReleaseToken, EndWithoutToken, FailSend,
    FailSendReleasing, waiting
<1>4. ASSUME \/ \E r \in Requests : \E retry \in BOOLEAN : Start(r, retry)
             \/ \E r \in Requests : ClientAborts(r)
             \/ \E matched \in SUBSET Requests : DrainQueue(matched)
             \/ AddHold \/ RemoveHold \/ HoldExpires
             \/ Tick \/ PacerExpire \/ PacerKick
             \/ UNCHANGED vars
      PROVE  UNCHANGED <<parked, sendWaiters>>
  BY <1>4, Zenon DEF Start, ClientAborts, DrainQueue, AddHold, RemoveHold,
    HoldExpires, Tick, PacerExpire, PacerKick, CallbackRuns, vars, waiting
<1>5. QED
  BY <1>1, <1>2, <1>3, <1>4, NextCases, Zenon

\* Whoever is parked in WaitSend is counted exactly once and something that
\* will kick it is under way, for any number of requests, aborts and drains.
THEOREM WaitersAreAccounted == Spec => []WaitersAccounted
<1>1. Init => WaitersCounted
  BY FS_EmptySet DEF Init, WaitersCounted, SendWaitersExact
<1>2. TypeOK /\ WaitersCounted /\ [Next]_vars => WaitersCounted'
  BY WaitersStep
<1>3. Spec => []WaitersCounted
  BY <1>1, <1>2, TypeCorrect, PTL DEF Spec
<1>4. WakeInv /\ WaitersCounted => WaitersAccounted
  BY DEF WakeInv, WaitersCounted, WaitersAccounted
<1>5. QED
  BY <1>3, <1>4, WakeInvariant, PTL

(***************************************************************************)
(* Who may relent.                                                         *)
(***************************************************************************)
\* Neither streak ever exceeds the configured cap.
StreaksCapped ==
  MaxBackoff > 0 => backoff <= MaxBackoff /\ requestBackoff <= MaxBackoff

\* Growing a streak under the cap keeps it there and never shrinks it.
LEMMA GrowBackoffBounds ==
  ASSUME NEW cur \in Nat, MaxBackoff > 0 => cur <= MaxBackoff
  PROVE  /\ growBackoff(cur) >= cur
         /\ MaxBackoff > 0 => growBackoff(cur) <= MaxBackoff
BY SendGateAssumption DEF growBackoff

\* One step keeps both streaks under the cap.
LEMMA StreaksStep == TypeOK /\ StreaksCapped /\ [Next]_vars => StreaksCapped'
<1> SUFFICES ASSUME TypeOK, StreaksCapped, [Next]_vars PROVE StreaksCapped'
  OBVIOUS
<1>1. CASE UNCHANGED <<backoff, requestBackoff>>
  BY <1>1 DEF StreaksCapped
<1>2. ASSUME NEW r \in Requests, LadderStep(r) PROVE StreaksCapped'
  <2>1. CASE \E hint \in Hints : BackoffFor(r, hint)
    BY <2>1, GrowBackoffBounds DEF BackoffFor, StreaksCapped, TypeOK,
      CountsTyped
  <2>2. CASE EndSend(r)
    BY <2>2, SendGateAssumption DEF EndSend, ReleaseToken, StreaksCapped
  <2>3. CASE FailSend(r)
    BY <2>3, GrowBackoffBounds, SendGateAssumption DEF FailSend,
      FailSendReleasing, StreaksCapped, TypeOK, CountsTyped
  <2>4. \/ \E hint \in Hints : BackoffFor(r, hint)
        \/ EndSend(r) \/ FailSend(r)
        \/ UNCHANGED <<backoff, requestBackoff>>
    BY <1>2, Zenon DEF LadderStep, StormAdmits, StormRefuses, Succeeds,
      EndsUnretried, Advance, ParkOnQuota, AbsorbFailure, Exhausted, Trip,
      TripOwning, EndWithoutToken, pacing
  <2>5. QED
    BY <1>1, <2>1, <2>2, <2>3, <2>4, Zenon
<1>3. ASSUME NEW r \in Requests, WaitStep(r)
      PROVE  UNCHANGED <<backoff, requestBackoff>>
  BY <1>3, Zenon DEF WaitStep, DrainCheck, SnapshotKicks, HoldCheck,
    AnnounceHold, ParkAtGate, ParkAtGateCounting, PassGate, Wake,
    WaitCancelled, pacing
<1>4. ASSUME \/ \E r \in Requests : \E retry \in BOOLEAN : Start(r, retry)
             \/ \E r \in Requests : ClientAborts(r)
             \/ \E matched \in SUBSET Requests : DrainQueue(matched)
             \/ AddHold \/ RemoveHold \/ HoldExpires
             \/ Tick \/ PacerExpire \/ PacerKick
             \/ UNCHANGED vars
      PROVE  UNCHANGED <<backoff, requestBackoff>>
  BY <1>4, Zenon DEF Start, ClientAborts, DrainQueue, AddHold, RemoveHold,
    HoldExpires, Tick, PacerExpire, PacerKick, CallbackRuns, vars, pacing
<1>5. QED
  BY <1>1, <1>2, <1>3, <1>4, NextCases, Zenon

\* What a step may give up only by ending its owner's send.
Relents ==
  \/ backoff' < backoff
  \/ requestBackoff' < requestBackoff
  \/ window' < window /\ pc' # pc
  \/ tripped /\ ~tripped'
  \/ probing /\ ~probing'

\* A step that keeps the token's flags, the streaks and the window relents in
\* nothing.
LEMMA UnchangedNeverRelents ==
  ASSUME TypeOK, UNCHANGED <<token, backoff, requestBackoff, window>>
  PROVE  ~Relents
BY DEF Relents, token, TypeOK, CountsTyped

\* The streaks, the pacing window, serial sending and the token are given up
\* only by the request that owns the token, in the step that ends its ladder.
THEOREM OwnerAloneRelents == Spec => OnlyOwnerRelents
<1>1. Init => StreaksCapped
  BY SendGateAssumption DEF Init, StreaksCapped
<1>2. TypeOK /\ StreaksCapped /\ [Next]_vars => StreaksCapped'
  BY StreaksStep
<1>3. TokenInv /\ StreaksCapped /\ [Next]_vars =>
        [Relents => \E r \in own : pc'[r] = "done"]_vars
  <2> SUFFICES ASSUME TokenInv, StreaksCapped, [Next]_vars, Relents
               PROVE  \E r \in own : pc'[r] = "done"
    OBVIOUS
  <2> USE DEF TokenInv, TypeOK, CountsTyped, RequestsTyped
  <2>1. ASSUME UNCHANGED <<token, backoff, requestBackoff, window>> PROVE FALSE
    BY <2>1, UnchangedNeverRelents
  <2>2. ASSUME NEW r \in Requests, PassGate(r) PROVE FALSE
    BY <2>2 DEF PassGate, Relents, pacing
  <2>3. ASSUME NEW r \in Requests, Trip(r) PROVE FALSE
    BY <2>3 DEF Trip, TripOwning, armPacingLater, Relents
  <2>4. ASSUME NEW r \in Requests, NEW hint \in Hints, BackoffFor(r, hint)
        PROVE  FALSE
    <3>1. backoff' >= backoff /\ backoff' \in Nat
      BY <2>4, GrowBackoffBounds, GrowBackoffType DEF BackoffFor, StreaksCapped
    <3>2. UNCHANGED <<tripped, probing, requestBackoff, window>>
      BY <2>4, Zenon DEF BackoffFor, token
    <3>3. QED
      BY <3>1, <3>2 DEF Relents
  <2>5. ASSUME NEW r \in Requests, EndSend(r)
        PROVE  \E q \in own : pc'[q] = "done"
    BY <2>5 DEF EndSend, ReleaseToken, Goto
  <2>6. ASSUME NEW r \in Requests, FailSend(r)
        PROVE  \E q \in own : pc'[q] = "done"
    <3>1. CASE r \in own
      BY <2>6, <3>1 DEF FailSend, FailSendReleasing, Goto
    <3>2. CASE r \notin own
      <4>1. tripped' /\ probing' = probing /\ backoff' = backoff
        BY <2>6, <3>2 DEF FailSend, FailSendReleasing, FlagsTyped
      <4>2. requestBackoff' >= requestBackoff
        BY <2>6, GrowBackoffBounds DEF FailSend, FailSendReleasing,
          StreaksCapped
      <4>3. window' = window \/ window' > window
        BY <2>6 DEF FailSend, FailSendReleasing, armPacingLater
      <4>4. requestBackoff' \in Nat /\ window' \in Nat
        BY <2>6, GrowBackoffType, JitterType DEF FailSend, FailSendReleasing,
          armPacingLater
      <4>5. QED
        BY <4>1, <4>2, <4>3, <4>4 DEF Relents
    <3>3. QED
      BY <3>1, <3>2
  <2>7. CASE Tick
    BY <2>7 DEF Tick, Relents, token
  <2>8. ASSUME NEW r \in Requests, WaitStep(r)
        PROVE  PassGate(r)
               \/ UNCHANGED <<token, backoff, requestBackoff, window>>
    BY <2>8, Zenon DEF WaitStep, DrainCheck, SnapshotKicks, HoldCheck,
      AnnounceHold, ParkAtGate, ParkAtGateCounting, Wake, WaitCancelled, pacing
  <2>9. ASSUME NEW r \in Requests, LadderStep(r)
        PROVE  \/ Trip(r) \/ EndSend(r) \/ FailSend(r)
               \/ \E hint \in Hints : BackoffFor(r, hint)
               \/ UNCHANGED <<token, backoff, requestBackoff, window>>
    BY <2>9, Zenon DEF LadderStep, StormAdmits, StormRefuses, Succeeds,
      EndsUnretried, Advance, ParkOnQuota, AbsorbFailure, Exhausted,
      EndWithoutToken, pacing
  <2>10. ASSUME \/ \E r \in Requests : \E retry \in BOOLEAN : Start(r, retry)
                \/ \E r \in Requests : ClientAborts(r)
                \/ \E matched \in SUBSET Requests : DrainQueue(matched)
                \/ AddHold \/ RemoveHold \/ HoldExpires
                \/ PacerExpire \/ PacerKick
                \/ UNCHANGED vars
         PROVE  UNCHANGED <<token, backoff, requestBackoff, window>>
    BY <2>10, Zenon DEF Start, ClientAborts, DrainQueue, AddHold, RemoveHold,
      HoldExpires, PacerExpire, PacerKick, CallbackRuns, vars, pacing
  <2>11. QED
    BY <2>1, <2>2, <2>3, <2>4, <2>5, <2>6, <2>7, <2>8, <2>9, <2>10, NextCases,
      Zenon
<1>4. QED
  <2>1. Spec => []StreaksCapped
    BY <1>1, <1>2, TypeCorrect, PTL DEF Spec
  <2>2. Spec => [][Relents => \E r \in own : pc'[r] = "done"]_vars
    BY <2>1, <1>3, TokenInvariant, PTL DEF Spec
  <2>3. QED
    BY <2>2 DEF OnlyOwnerRelents, Relents
=============================================================================
