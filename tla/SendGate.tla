------------------------------ MODULE SendGate ------------------------------
(***************************************************************************)
(* The send gate of one provider+key group: internal/scheduler's WaitSend, *)
(* BackoffFor, Trip, EndSend and FailSend, driven by the two retry ladders *)
(* that call them, doWithRetry (internal/proxy/relay_retry.go) and         *)
(* openCursorHTTP (internal/proxy/cursor_bidi.go).                         *)
(*                                                                         *)
(* Every critical section under g.mu is one action.  The close-and-replace *)
(* wake channels (sendKick, the policy kick) are the set current: the      *)
(* requests whose snapshotted channels nobody has closed since.  The       *)
(* pacing deadline nextAllowedAt is kept as the ticks that remain, window. *)
(* A Boolean local of a request is the set of requests that have it.       *)
(* Requests are one-shot: a request walks the ladder once, and the model   *)
(* keeps all of them inside the slots admission granted.                   *)
(***************************************************************************)
EXTENDS Naturals, FiniteSets

CONSTANTS
  Requests,        \* requests that hold an admission slot of the group
  CursorRequests,  \* those driven by openCursorHTTP; the rest by doWithRetry
  BaseBackoff,     \* opts.BaseBackoff, in ticks
  MaxBackoff,      \* opts.MaxBackoff, in ticks; 0 means uncapped
  MaxRetryHint,    \* the ceiling on a provider's retry hint
  Hints,           \* retry hints a provider may send
  MaxRetries,      \* transient retries doWithRetry absorbs
  StormMaxRetries, \* extra retries allowStormRetry grants in a storm
  MaxCallbacks,    \* bound: pacer callbacks started and not yet run
  MaxInterventions \* bound: client aborts, operator drains and added holds

ASSUME SendGateAssumption ==
  /\ CursorRequests \subseteq Requests
  /\ BaseBackoff \in Nat /\ MaxBackoff \in Nat /\ MaxRetryHint \in Nat
  /\ Hints \subseteq Nat
  /\ MaxRetries \in Nat /\ StormMaxRetries \in Nat
  /\ MaxCallbacks \in Nat /\ MaxInterventions \in Nat

VARIABLES
  tripped,        \* g.tripped: sends are serial
  probing,        \* g.probing: the send token is claimed
  backoff,        \* g.backoff: the attempt streak, shared by the group
  requestBackoff, \* g.requestBackoff: consecutive exhausted requests
  window,         \* ticks until g.nextAllowedAt, 0 once it has passed
  pacer,          \* g.pacer holds a timer for nextAllowedAt
  callbacks,      \* pacer callbacks past their generation check, fn() not run
  sendWaiters,    \* g.sendWaiters
  hold,           \* an operator or quota hold matches the group's provider
  interventions,  \* aborts, drains and holds so far, for the bound
  pc,             \* each request's position in its ladder
  own,            \* the ladder's own: it carries the send token
  retried,        \* the ladder's retried
  honorHold,      \* WaitSend was called with honorHold
  ordinary,       \* the ladder's ordinary: transient attempts absorbed
  extra,          \* storm retries spent
  delay,          \* BackoffFor's result on its way to Trip
  parked,         \* WaitSend's parked: counted in sendWaiters
  holding,        \* WaitSend's holding: the OnHold edge is published
  drained,        \* a drain ticket issued since the call matches the request
  owed,           \* history: it was already waiting when the drain was issued
  current,        \* its wake channels are snapshotted and still open
  cancelled       \* its context is done

token == <<tripped, probing>>
pacing == <<backoff, requestBackoff, window, pacer, callbacks>>
policy == <<hold, interventions>>
budget == <<ordinary, extra>>
ladder == <<own, retried, honorHold, budget, delay, cancelled>>
waiting == <<sendWaiters, parked, holding, drained, owed, current>>

vars == <<token, pacing, policy, pc, ladder, waiting>>

(***************************************************************************)
(* A request's control points.                                             *)
(*   idle      not yet in the ladder     drainCheck top of WaitSend's loop *)
(*   snapshot  takes both wake channels  holdCheck  reads the hold policy  *)
(*   announce  OnWait before OnHold      heldPark   parked on a hold       *)
(*   gate      the g.mu section          gatePark   parked on the gate     *)
(*   storm     in waitStorm              upstream   the send is in flight  *)
(*   backoff   before BackoffFor         trip       between it and Trip    *)
(*   succeeded end(false) after a 2xx    ended      end(false) otherwise   *)
(*   failed    end(true) is due          done       out of the ladder      *)
(***************************************************************************)
Parks == {"gatePark", "heldPark"}
InWaitSend == {"drainCheck", "snapshot", "holdCheck", "announce", "gate"}
                \cup Parks
Points == {"idle", "storm", "upstream", "backoff", "trip", "succeeded", "ended",
           "failed", "done"} \cup InWaitSend

Init ==
  /\ tripped = FALSE /\ probing = FALSE
  /\ backoff = 0 /\ requestBackoff = 0
  /\ window = 0 /\ pacer = FALSE /\ callbacks = 0
  /\ hold = FALSE /\ interventions = 0
  /\ pc = [r \in Requests |-> "idle"]
  /\ own = {} /\ retried = {} /\ honorHold = {} /\ cancelled = {}
  /\ ordinary = [r \in Requests |-> 0] /\ extra = [r \in Requests |-> 0]
  /\ delay = [r \in Requests |-> 0]
  /\ sendWaiters = 0 /\ parked = {} /\ holding = {}
  /\ drained = {} /\ owed = {} /\ current = {}

(***************************************************************************)
(* Pure helpers of scheduler_pacing.go.                                    *)
(***************************************************************************)
Larger(a, b) == IF a > b THEN a ELSE b

ClampRetryHint(d) == IF d > MaxRetryHint THEN MaxRetryHint ELSE d

growBackoff(cur) ==
  LET grown == IF cur = 0 THEN BaseBackoff ELSE 2 * cur
  IN  IF MaxBackoff > 0 /\ grown > MaxBackoff THEN MaxBackoff ELSE grown

\* The whole-tick delays of the 0.75x-1.25x jitter band.
jitterBackoff(d) == {j \in 0 .. 2 * d : 3 * d <= 4 * j /\ 4 * j <= 5 * d}

(***************************************************************************)
(* Shared steps.                                                           *)
(***************************************************************************)
Goto(r, point) == pc' = [pc EXCEPT ![r] = point]

\* kickSendLocked and kickPolicyLocked close the channels every request has
\* snapshotted.
Kick == current' = {}

\* Mutants: the later deadline always wins, or the pacer is left unarmed.
armPacingLaterShrinks(d) ==
  IF d > 0 THEN window' = d /\ pacer' = TRUE ELSE UNCHANGED <<window, pacer>>
armPacingLaterUnarmed(d) ==
  window' = Larger(window, d) /\ UNCHANGED pacer

\* armPacingLaterLocked: the window is only ever pushed out, never shrunk.
armPacingLater(d) ==
  IF d > window THEN window' = d /\ pacer' = TRUE
                ELSE UNCHANGED <<window, pacer>>

ForgetWait(r) ==
  /\ parked' = parked \ {r} /\ holding' = holding \ {r}
  /\ drained' = drained \ {r} /\ owed' = owed \ {r}
  /\ current' = current \ {r}

\* Mutant: the deferred decrement forgets to ask whether the call parked.
LeaveWaitSendUncounted(r, point) ==
  /\ sendWaiters' = sendWaiters - 1
  /\ ForgetWait(r)
  /\ Goto(r, point)

\* WaitSend returns: the deferred function drops the waiter and its edges.
LeaveWaitSend(r, point) ==
  /\ sendWaiters' = IF r \in parked /\ sendWaiters > 0 THEN sendWaiters - 1
                                                       ELSE sendWaiters
  /\ ForgetWait(r)
  /\ Goto(r, point)

(***************************************************************************)
(* WaitSend.                                                               *)
(***************************************************************************)
\* The ladder's first admitSendAttempt; a quality re-run opens as a retry.
Start(r, firstSendIsRetry) ==
  /\ pc[r] = "idle"
  /\ Goto(r, "drainCheck")
  /\ honorHold' = IF firstSendIsRetry THEN honorHold \cup {r} ELSE honorHold
  /\ UNCHANGED <<token, pacing, policy, own, retried, budget, delay, cancelled,
                 waiting>>

\* queueDrained at the top of the loop: ErrQueueDrained, or go on.
DrainCheck(r) ==
  /\ pc[r] = "drainCheck"
  /\ IF r \in drained
       THEN LeaveWaitSend(r, "ended")
       ELSE Goto(r, "snapshot") /\ UNCHANGED waiting
  /\ UNCHANGED <<token, pacing, policy, ladder>>

\* kickC and sendKickC, taken before the hold and gate predicates are read.
SnapshotKicks(r) ==
  /\ pc[r] = "snapshot"
  /\ Goto(r, "holdCheck")
  /\ current' = current \cup {r}
  /\ UNCHANGED <<token, pacing, policy, ladder, sendWaiters, parked, holding,
                 drained, owed>>

\* The lock-free hold predicate.
HoldCheck(r) ==
  /\ pc[r] = "holdCheck"
  /\ IF r \in honorHold /\ hold
       THEN /\ Goto(r, IF r \in holding THEN "heldPark" ELSE "announce")
            /\ UNCHANGED holding
       ELSE /\ Goto(r, "gate")
            /\ holding' = holding \ {r}
  /\ UNCHANGED <<token, pacing, policy, ladder, sendWaiters, parked, drained,
                 owed, current>>

\* OnWait may outlive the hold or the client: re-check both before OnHold.
AnnounceHold(r) ==
  /\ pc[r] = "announce"
  /\ \/ /\ r \in cancelled
        /\ LeaveWaitSend(r, "ended")
     \/ /\ r \notin cancelled /\ ~hold
        /\ Goto(r, "drainCheck")
        /\ UNCHANGED waiting
     \/ /\ r \notin cancelled /\ hold
        /\ Goto(r, "heldPark")
        /\ holding' = holding \cup {r}
        /\ UNCHANGED <<sendWaiters, parked, drained, owed, current>>
  /\ UNCHANGED <<token, pacing, policy, ladder>>

\* The g.mu section: park, pass, or claim the token as the next probe.
GateClosed(r) == window > 0 \/ (r \notin own /\ tripped /\ probing)

ParkAtGateCounting(r, waiters) ==
  /\ pc[r] = "gate"
  /\ GateClosed(r)
  /\ Goto(r, "gatePark")
  /\ sendWaiters' = waiters
  /\ parked' = parked \cup {r}
  /\ UNCHANGED <<token, pacing, policy, ladder, holding, drained, owed, current>>

\* Mutant: every re-park counts again.
ParkAtGateRecounts(r) == ParkAtGateCounting(r, sendWaiters + 1)

ParkAtGate(r) ==
  ParkAtGateCounting(r, IF r \in parked THEN sendWaiters ELSE sendWaiters + 1)

PassGate(r) ==
  /\ pc[r] = "gate"
  /\ ~GateClosed(r)
  /\ IF r \in own \/ ~tripped
       THEN UNCHANGED <<probing, own>>
       ELSE probing' = TRUE /\ own' = own \cup {r}
  /\ LeaveWaitSend(r, "storm")
  /\ UNCHANGED <<tripped, pacing, policy, retried, honorHold, budget, delay,
                 cancelled>>

\* A closed channel wakes the select; the loop starts over.
Wake(r) ==
  /\ pc[r] \in Parks
  /\ r \notin current
  /\ Goto(r, "drainCheck")
  /\ UNCHANGED <<token, pacing, policy, ladder, waiting>>

\* ctx.Done wakes the select; when a channel is closed too, either may win.
WaitCancelled(r) ==
  /\ pc[r] \in Parks
  /\ r \in cancelled
  /\ LeaveWaitSend(r, "ended")
  /\ UNCHANGED <<token, pacing, policy, ladder>>

(***************************************************************************)
(* The ladders around WaitSend.                                            *)
(***************************************************************************)
Advance(r, from, to) ==
  /\ pc[r] = from
  /\ Goto(r, to)
  /\ UNCHANGED <<token, pacing, policy, ladder, waiting>>

\* waitStorm returns a permit, or an error the ladder ends with.
StormAdmits(r) == Advance(r, "storm", "upstream")
StormRefuses(r) == Advance(r, "storm", "ended")

\* A final outcome that is no retryable failure: success, or else a client
\* fault, an abort, a fired per-send deadline, an unarmed durable quota.
Succeeds(r) == Advance(r, "upstream", "succeeded")
EndsUnretried(r) == Advance(r, "upstream", "ended")

\* A durable-quota 429 the quota pause absorbs (settleQuotaFailure is true):
\* in manual mode it installs the provider hold first (addQuotaHold).
ParkOnQuota(r, manual) ==
  /\ pc[r] = "upstream" /\ r \notin CursorRequests
  /\ retried' = retried \cup {r}
  /\ honorHold' = honorHold \cup {r}
  /\ hold' = (hold \/ manual)
  /\ IF manual THEN Kick ELSE UNCHANGED current
  /\ Goto(r, "drainCheck")
  /\ UNCHANGED <<token, pacing, interventions, own, ordinary, extra, delay,
                 cancelled, sendWaiters, parked, holding, drained, owed>>

\* ordinary >= maxRetries; openCursorHTTP has no ordinary budget.
OrdinarySpent(r) == r \in CursorRequests \/ ordinary[r] >= MaxRetries

\* allowStormRetry: an extra retry while a storm is active.
StormRetryLeft(r, active) == active /\ extra[r] < StormMaxRetries

\* A retryable failure with budget left is absorbed.
AbsorbFailure(r, active) ==
  /\ pc[r] = "upstream"
  /\ \/ ~OrdinarySpent(r) /\ UNCHANGED extra
     \/ /\ OrdinarySpent(r) /\ StormRetryLeft(r, active)
        /\ extra' = [extra EXCEPT ![r] = @ + 1]
  /\ Goto(r, "backoff")
  /\ UNCHANGED <<token, pacing, policy, own, retried, honorHold, ordinary,
                 delay, cancelled, waiting>>

\* A retryable failure with no budget left: the failure is final.
Exhausted(r, active) ==
  /\ OrdinarySpent(r) /\ ~StormRetryLeft(r, active)
  /\ Advance(r, "upstream", "failed")

\* BackoffFor: grow the shared streak; the hint is a floor on the delay.
BackoffFor(r, hint) ==
  /\ pc[r] = "backoff"
  /\ backoff' = growBackoff(backoff)
  /\ \E jittered \in jitterBackoff(backoff') :
       delay' = [delay EXCEPT ![r] = Larger(jittered, ClampRetryHint(hint))]
  /\ Goto(r, "trip")
  /\ UNCHANGED <<token, requestBackoff, window, pacer, callbacks, policy, own,
                 retried, honorHold, budget, cancelled, waiting>>

TripOwning(r, owners) ==
  /\ pc[r] = "trip"
  /\ armPacingLater(delay[r])
  /\ tripped' = TRUE
  /\ probing' = TRUE
  /\ own' = owners
  /\ Kick
  /\ ordinary' = [ordinary EXCEPT ![r] = @ + 1]
  /\ delay' = [delay EXCEPT ![r] = 0]
  /\ retried' = retried \cup {r}
  /\ honorHold' = honorHold \cup {r}
  /\ Goto(r, "drainCheck")
  /\ UNCHANGED <<backoff, requestBackoff, callbacks, policy, extra,
                 cancelled, sendWaiters, parked, holding, drained, owed>>

\* Mutant: Trip claims a claimed token.
TripAlwaysClaims(r) == TripOwning(r, own \cup {r})

\* Trip: extend the window and claim the token if nobody has it; then the
\* ladder's next iteration.
Trip(r) == TripOwning(r, IF probing THEN own ELSE own \cup {r})

\* keepSerial of EndSend: the generic ladder passes retried, Cursor FALSE.
KeepSerial(r) == r \in retried /\ r \notin CursorRequests

Ended(r) == pc[r] \in {"succeeded", "ended"}

ReleaseToken(r) ==
  /\ Ended(r) /\ r \in own
  /\ probing' = FALSE /\ own' = own \ {r}
  /\ tripped' = KeepSerial(r)
  /\ backoff' = 0 /\ requestBackoff' = 0
  /\ window' = 0 /\ pacer' = FALSE
  /\ Goto(r, "done")
  /\ UNCHANGED <<callbacks, policy, retried, honorHold, budget, delay,
                 cancelled, sendWaiters, parked, holding, drained, owed>>

\* end(false): only an owner calls EndSend.
EndSend(r) == ReleaseToken(r) /\ Kick

EndWithoutToken(r) ==
  /\ Ended(r) /\ r \notin own
  /\ Goto(r, "done")
  /\ UNCHANGED <<token, pacing, policy, ladder, waiting>>

FailSendReleasing(r, releases) ==
  /\ pc[r] = "failed"
  /\ probing' = (probing /\ ~releases)
  /\ own' = own \ {r}
  /\ backoff' = IF releases THEN 0 ELSE backoff
  /\ requestBackoff' = growBackoff(requestBackoff)
  /\ \E d \in jitterBackoff(requestBackoff') : armPacingLater(d)
  /\ tripped' = TRUE
  /\ Kick
  /\ Goto(r, "done")
  /\ UNCHANGED <<callbacks, policy, retried, honorHold, budget, delay,
                 cancelled, sendWaiters, parked, holding, drained, owed>>

\* Mutant: any exhausted request releases the token and the streak.
FailSendByAnyone(r) == FailSendReleasing(r, TRUE)

\* end(true): FailSend grows the request-level backoff and keeps sends serial;
\* only an owner releases the token and the attempt streak.
FailSend(r) == FailSendReleasing(r, r \in own)

(***************************************************************************)
(* The environment: time, the pacer, clients and the operator.             *)
(***************************************************************************)
Tick ==
  /\ window > 0
  /\ window' = window - 1
  /\ UNCHANGED <<token, backoff, requestBackoff, pacer, callbacks, policy, pc,
                 ladder, waiting>>

\* The timer's callback passes the generation check and forgets the timer...
PacerExpire ==
  /\ pacer /\ window = 0 /\ callbacks < MaxCallbacks
  /\ pacer' = FALSE /\ callbacks' = callbacks + 1
  /\ UNCHANGED <<token, backoff, requestBackoff, window, policy, pc, ladder,
                 waiting>>

CallbackRuns ==
  /\ callbacks > 0
  /\ callbacks' = callbacks - 1
  /\ UNCHANGED <<token, backoff, requestBackoff, window, pacer, policy, pc,
                 ladder, sendWaiters, parked, holding, drained, owed>>

\* Mutant: the callback forgets to kick the send gate.
PacerKickForgotten == CallbackRuns /\ UNCHANGED current

\* ...and then, outside the timer's lock, kicks the send gate.
PacerKick == CallbackRuns /\ Kick

Intervene ==
  /\ interventions < MaxInterventions
  /\ interventions' = interventions + 1

ClientAborts(r) ==
  /\ Intervene
  /\ pc[r] \notin {"idle", "done"} /\ r \notin cancelled
  /\ cancelled' = cancelled \cup {r}
  /\ UNCHANGED <<token, pacing, hold, pc, own, retried, honorHold, budget,
                 delay, waiting>>

\* DrainQueue publishes its ticket and closes the policy kick; the scope
\* matches some of the requests inside WaitSend.
DrainQueue(matched) ==
  /\ Intervene
  /\ matched # {}
  /\ \A r \in matched : pc[r] \in InWaitSend /\ r \notin drained
  /\ drained' = drained \cup matched
  /\ owed' = owed \cup (matched \cap (parked \cup holding))
  /\ Kick
  /\ UNCHANGED <<token, pacing, hold, pc, ladder, sendWaiters, parked, holding>>

\* AddHold and RemoveHold commit a policy and kick it.
AddHold ==
  /\ Intervene
  /\ ~hold /\ hold' = TRUE
  /\ Kick
  /\ UNCHANGED <<token, pacing, pc, ladder, sendWaiters, parked, holding,
                 drained, owed>>

RemoveHold ==
  /\ hold /\ hold' = FALSE
  /\ Kick
  /\ UNCHANGED <<token, pacing, interventions, pc, ladder, sendWaiters, parked,
                 holding, drained, owed>>

\* A timed hold lapses with no kick: only the until timers of the requests
\* parked on it fire.
HoldExpires ==
  /\ hold /\ hold' = FALSE
  /\ current' = {r \in current : pc[r] # "heldPark"}
  /\ UNCHANGED <<token, pacing, interventions, pc, ladder, sendWaiters, parked,
                 holding, drained, owed>>

(***************************************************************************)
(* The specification.                                                      *)
(***************************************************************************)
WaitStep(r) ==
  \/ DrainCheck(r) \/ SnapshotKicks(r) \/ HoldCheck(r) \/ AnnounceHold(r)
  \/ ParkAtGate(r) \/ PassGate(r) \/ Wake(r) \/ WaitCancelled(r)

LadderStep(r) ==
  \/ StormAdmits(r) \/ StormRefuses(r) \/ Succeeds(r) \/ EndsUnretried(r)
  \/ \E manual \in BOOLEAN : ParkOnQuota(r, manual)
  \/ \E active \in BOOLEAN : AbsorbFailure(r, active) \/ Exhausted(r, active)
  \/ \E hint \in Hints : BackoffFor(r, hint)
  \/ Trip(r) \/ EndSend(r) \/ EndWithoutToken(r) \/ FailSend(r)

\* Every ladder has run: the model may stop here, and nowhere else.
Finished == (\A r \in Requests : pc[r] = "done") /\ UNCHANGED vars

Next ==
  \/ \E r \in Requests :
       \/ \E retry \in BOOLEAN : Start(r, retry)
       \/ WaitStep(r)
       \/ LadderStep(r)
       \/ ClientAborts(r)
  \/ Tick \/ PacerExpire \/ PacerKick
  \/ \E matched \in SUBSET Requests : DrainQueue(matched)
  \/ AddHold \/ RemoveHold \/ HoldExpires
  \/ Finished

Spec == Init /\ [][Next]_vars

\* Goroutines that can run do run, timers fire, upstreams answer.  Arrivals,
\* aborts, drains and holds are the environment's and carry no fairness.
Fairness ==
  /\ \A r \in Requests : WF_vars(WaitStep(r)) /\ WF_vars(LadderStep(r))
  /\ WF_vars(Tick) /\ WF_vars(PacerExpire) /\ WF_vars(PacerKick)

FairSpec == Spec /\ Fairness

(***************************************************************************)
(* Properties.                                                             *)
(***************************************************************************)
FlagsTyped ==
  /\ tripped \in BOOLEAN /\ probing \in BOOLEAN /\ pacer \in BOOLEAN
  /\ hold \in BOOLEAN

CountsTyped ==
  /\ backoff \in Nat /\ requestBackoff \in Nat /\ window \in Nat
  /\ callbacks \in Nat /\ sendWaiters \in Nat /\ interventions \in Nat
  /\ ordinary \in [Requests -> Nat] /\ extra \in [Requests -> Nat]
  /\ delay \in [Requests -> Nat]

RequestsTyped ==
  /\ pc \in [Requests -> Points]
  /\ own \subseteq Requests /\ retried \subseteq Requests
  /\ honorHold \subseteq Requests /\ cancelled \subseteq Requests
  /\ parked \subseteq Requests /\ holding \subseteq Requests
  /\ drained \subseteq Requests /\ owed \subseteq Requests
  /\ current \subseteq Requests

\* The type invariant of the group's fields and of every ladder's locals.
TypeOK == FlagsTyped /\ CountsTyped /\ RequestsTyped

\* "The caller who gets true owns every subsequent send until EndSend" (Trip):
\* g.probing is set exactly while one live request carries own, the group is
\* tripped all that time, and no request leaves its ladder with the token.
TokenExclusive ==
  /\ probing <=> (own # {})
  /\ \A r, s \in own : r = s
  /\ probing => tripped
  /\ \A r \in own : pc[r] \notin {"idle", "done"}

\* WaitSend snapshots its channels before the predicates so that no wakeup is
\* lost: a request parked on channels nobody has closed is really shut out,
\* and whatever shuts it out ends in a kick (the pacer is armed for an open
\* window, another request owns the token, a hold is in force).
NoLostWakeup ==
  \A r \in current :
    /\ pc[r] = "gatePark" => pacer \/ callbacks > 0 \/ own \ {r} # {}
    /\ pc[r] = "heldPark" => hold

\* "DrainQueue releases every parked waiter matching scope": a send already
\* waiting when a matching drain was issued is not left asleep by it.
DrainReachesParked ==
  \A r \in owed : pc[r] \in Parks => r \notin current

\* Stats reads g.sendWaiters: the counter is exactly the WaitSend calls that
\* have parked and not returned, whatever the order of parks, re-parks,
\* cancellations and drains.
SendWaitersExact == sendWaiters = Cardinality(parked)

\* Whoever is parked in WaitSend is counted and will be woken (WaitSend, Stats).
WaitersAccounted == NoLostWakeup /\ SendWaitersExact

\* "A sibling first-attempt exhaust must not wipe an in-flight retry's attempt
\* streak", "Retry-After already on the group is not shrunk": the streaks, the
\* pacing window (but for the passing of time), serial sending and the token
\* are only ever given up by the request that owns the token.
OnlyOwnerRelents ==
  [][ (\/ backoff' < backoff
       \/ requestBackoff' < requestBackoff
       \/ window' < window /\ pc' # pc
       \/ tripped /\ ~tripped'
       \/ probing /\ ~probing')
      => \E r \in own : pc'[r] = "done" ]_vars

\* "While any request is retrying, WaitSend lets only that owner send": while
\* one request owns the token no other request passes the gate.
NoSecondProbe ==
  [][ \A r \in own, s \in Requests \ own :
        pc[s] = "gate" => pc'[s] # "storm" ]_vars

\* "After it succeeds or exhausts, exactly one sibling is the probe" (package
\* comment of internal/scheduler): an owner that retried and succeeded leaves
\* sends serial.
RetriedOwnerKeepsSerial ==
  [][ \A r \in own \cap retried :
        pc[r] = "succeeded" /\ pc'[r] = "done" => tripped' ]_vars

\* Nobody waits for ever: once holds stop and providers stop reporting a spent
\* quota, every request that entered a ladder leaves it, however the token, the
\* window and the kicks interleave.  doWithRetry re-sends after a quota pause
\* without a bound, so a quota that never clears keeps its request.
QuotaClears ==
  <>[][\A r \in Requests, manual \in BOOLEAN : ~ParkOnQuota(r, manual)]_vars
EveryRequestFinishes ==
  <>[](~hold) /\ QuotaClears
    => \A r \in Requests : (pc[r] # "idle") ~> (pc[r] = "done")

\* The refinement: the group's flags and the request that carries own.
NoOne == "nobody"
mode == CASE ~tripped -> "closed"
          [] tripped /\ probing -> "open"
          [] OTHER -> "halfOpen"
owner == IF probing THEN CHOOSE r \in Requests : r \in own ELSE NoOne

B == INSTANCE Breaker

\* The send gate implements the one-owner circuit breaker.
ImplementsBreaker == B!Spec

=============================================================================
