----------------------------- MODULE StormGate -----------------------------
(***************************************************************************)
(* Outage protection of one provider (internal/scheduler/storm.go): the    *)
(* threshold storms of its models and of the provider as a whole, and the  *)
(* provider-wide durable-quota gate.  Requests pass WaitStormReady before  *)
(* admission and WaitStorm before every send; the permit of a send claims  *)
(* the scopes it was admitted through and is settled exactly once, by      *)
(* Observe, ObserveQuota or Cancel.                                        *)
(*                                                                         *)
(* Every section under stormState.mu is one action.  The absolute retryAt  *)
(* of a scope is kept as the ticks that remain, cooldown.  The 64-bucket   *)
(* sampling window is its two totals, which observations leave with age.   *)
(* A Boolean field of a scope is the set of scopes that have it; a scope   *)
(* of an earlier generation, which no new request can reach, is forgotten. *)
(***************************************************************************)
EXTENDS Naturals, Integers, FiniteSets

CONSTANTS
  Requests,
  Models,                 \* the provider's models
  ModelOf,                \* the model each request asks for
  Provider,               \* the key of the provider-wide scope
  Policies,               \* StormOptions a reload may install
  MinSamples, ErrorPercent,
  InitialBackoff, MaxBackoff, BackoffMultiplier, JitterPercent,
  Hints,                  \* clamped retry hints a response may carry
  RecoverySuccesses, QuotaRecoverySuccesses,
  MaxAttempts,            \* bound: sends of one request
  MaxGenerations,         \* bound: option sets installed
  MaxReleases             \* bound: operator quota releases

Scopes == Models \cup {Provider}

Policy == [enabled : BOOLEAN, provider : BOOLEAN, model : BOOLEAN,
           quota : BOOLEAN, maxQueue : Nat, maxScopes : Nat]

ASSUME StormAssumption ==
  /\ IsFiniteSet(Requests)
  /\ Provider \notin Models
  /\ ModelOf \in [Requests -> Models]
  /\ Policies \subseteq Policy
  /\ MinSamples \in Nat /\ ErrorPercent \in Nat
  /\ InitialBackoff \in Nat /\ MaxBackoff \in Nat /\ BackoffMultiplier \in Nat
  /\ JitterPercent \in 0 .. 100
  /\ Hints \subseteq Nat
  /\ RecoverySuccesses \in Nat \ {0} /\ QuotaRecoverySuccesses \in Nat \ {0}
  /\ MaxAttempts \in Nat /\ MaxGenerations \in Nat /\ MaxReleases \in Nat

VARIABLES
  opts,       \* the installed switches and limits
  generation, \* bumped when the options change
  lowered,    \* history: the generations that installed a smaller MaxQueue
  scopes,     \* the keys present in the scopes map
  active,     \* scopes with an open threshold storm
  quota,      \* {Provider} while the durable-quota gate is open
  probing,    \* scopes whose one recovery probe is out
  epoch,      \* per scope, bumped when a gate opens
  recovered,  \* per scope, clean probes since the gate opened or last failed
  backoff,    \* per scope
  cooldown,   \* per scope, ticks until retryAt
  timer,      \* scopes whose wake timer is armed
  samples, failures, \* per scope, the totals of the sampling window
  recent,     \* scopes with activity inside the sampling window
  refs,       \* per scope, unsettled permits
  waiters,    \* per scope, queued requests
  queued,     \* stormState.queued
  current,    \* parked requests whose kick channel is still open
  pc,         \* each request's position
  claimed,    \* per request, the scopes its permit claims or it queues on
  probes,     \* ... those it claims as their probe
  seen,       \* ... the epoch it saw on each
  permitGen,  \* ... the generation it saw
  outdated,   \* history: per request, scopes where a gate opened since its grant
  attempts,   \* per request, sends so far, for the bound
  releases    \* operator releases so far, for the bound

optVars == <<opts, generation, lowered>>
gateVars == <<active, quota, probing, epoch, recovered>>
paceVars == <<backoff, cooldown, timer>>
windowVars == <<samples, failures, recent>>
queueVars == <<waiters, queued, current>>
permitVars == <<claimed, probes, seen, permitGen, outdated>>
boundVars == <<attempts, releases>>
vars == <<optVars, scopes, gateVars, paceVars, windowVars, refs, queueVars, pc,
          permitVars, boundVars>>

(***************************************************************************)
(* Control points: ready and send are the first look of waitStorm with     *)
(* reserve FALSE and TRUE, readyPark and sendPark its select; upstream is  *)
(* an unsettled permit.                                                    *)
(***************************************************************************)
Parks == {"readyPark", "sendPark"}
Points == {"idle", "ready", "send", "upstream", "done"} \cup Parks

Zero == [s \in Scopes |-> 0]

Init ==
  /\ opts \in Policies /\ generation = 1 /\ lowered = {}
  /\ scopes = {} /\ active = {} /\ quota = {} /\ probing = {}
  /\ epoch = Zero /\ recovered = Zero
  /\ backoff = Zero /\ cooldown = Zero /\ timer = {}
  /\ samples = Zero /\ failures = Zero /\ recent = {}
  /\ refs = Zero /\ waiters = Zero /\ queued = 0 /\ current = {}
  /\ pc = [r \in Requests |-> "idle"]
  /\ claimed = [r \in Requests |-> {}] /\ probes = [r \in Requests |-> {}]
  /\ seen = [r \in Requests |-> Zero]
  /\ permitGen = [r \in Requests |-> 0]
  /\ outdated = [r \in Requests |-> {}]
  /\ attempts = [r \in Requests |-> 0] /\ releases = 0

Goto(r, point) == pc' = [pc EXCEPT ![r] = point]

\* wakeLocked: every parked request's kick channel is closed.
Wake == current' = {}

\* Mutant: a settlement never wakes.
WakeNever(changed) == UNCHANGED current

WakeIf(changed) == IF changed THEN Wake ELSE UNCHANGED current

Bump(f, S) == [s \in Scopes |-> IF s \in S THEN f[s] + 1 ELSE f[s]]
Drop(f, S) == [s \in Scopes |-> IF s \in S THEN f[s] - 1 ELSE f[s]]
Reset(f, S) == [s \in Scopes |-> IF s \in S THEN 0 ELSE f[s]]

(***************************************************************************)
(* The predicates of the gates.                                            *)
(***************************************************************************)
Disarmed == (~opts.enabled \/ (~opts.provider /\ ~opts.model)) /\ ~opts.quota

\* The scopes one send is admitted through.
Keys(r) == {ModelOf[r]} \cup
           (IF opts.provider \/ opts.quota THEN {Provider} ELSE {})

gates(s) == s = Provider \/ opts.model

Gated(s) == (gates(s) /\ s \in active) \/ s \in quota

\* Mutant: an elapsed cooldown admits although a probe is still out.
gateHeldByCooldown(s) == Gated(s) /\ cooldown[s] > 0

gateHeld(s) == Gated(s) /\ (s \in probing \/ cooldown[s] > 0)

Blocked(r) == \E s \in Keys(r) : gateHeld(s)

(***************************************************************************)
(* waitStorm.  A request looks at the gates when it calls and again after  *)
(* every wakeup; a woken one leaves the queue in the same section.         *)
(***************************************************************************)
Parked(r) == pc[r] \in Parks
Looks(r) == pc[r] \in {"ready", "send"} \/ (Parked(r) /\ r \notin current)
Reserving(r) == pc[r] \in {"send", "sendPark"}

\* Mutant: scopes are looked up by key, whatever the generation.
AnyGeneration(r) == TRUE

\* r works with the scope objects of this generation.
SameGeneration(r) == permitGen[r] = generation

\* Mutant: a woken request keeps its place counted.
unqueueForgotten(r) == queued

\* unqueue: an older generation's scopes count their own waiters.
unqueueQueued(r) == IF Parked(r) THEN queued - 1 ELSE queued

unqueueWaiters(r) ==
  IF Parked(r) /\ SameGeneration(r) THEN Drop(waiters, claimed[r]) ELSE waiters

\* scopesFor evicts quiet scopes when the map is full, and then either has
\* room for the scopes the request lacks or reports ErrStormCapacity.
Missing(r) == Keys(r) \ scopes
Overfull(S, r) == Cardinality(S) + Cardinality(Missing(r)) > opts.maxScopes

\* Mutant: a scope with a permit out may be evicted.
QuietIgnoringRefs(s, r) ==
  s \notin active \cup quota \cup recent /\ unqueueWaiters(r)[s] = 0

Quiet(s, r) ==
  /\ s \notin active \cup quota \cup recent
  /\ refs[s] = 0 /\ unqueueWaiters(r)[s] = 0

Evicted(r) ==
  IF Overfull(scopes, r) THEN {s \in scopes \ Keys(r) : Quiet(s, r)} ELSE {}
Fits(r) == ~Overfull(scopes \ Evicted(r), r)

\* An evicted scope is forgotten; the gates in due get their probe.
Evict(r, due) ==
  /\ probing' = (probing \ Evicted(r)) \cup due
  /\ epoch' = Reset(epoch, Evicted(r))
  /\ recovered' = Reset(recovered, Evicted(r))
  /\ backoff' = Reset(backoff, Evicted(r))
  /\ cooldown' = Reset(cooldown, Evicted(r))
  /\ timer' = timer \ Evicted(r)
  /\ samples' = Reset(samples, Evicted(r))
  /\ failures' = Reset(failures, Evicted(r))
  /\ UNCHANGED <<active, quota>>

\* The first look of a call at a generation marks its scopes active, and a
\* scope is created active.
TouchScopes(r) ==
  /\ scopes' = (scopes \ Evicted(r)) \cup Keys(r)
  /\ recent' = recent \cup
       (IF Parked(r) /\ SameGeneration(r) THEN Missing(r) ELSE Keys(r))

NoPermit(r) ==
  /\ claimed' = [claimed EXCEPT ![r] = {}]
  /\ probes' = [probes EXCEPT ![r] = {}]
  /\ seen' = [seen EXCEPT ![r] = Zero]
  /\ permitGen' = [permitGen EXCEPT ![r] = 0]
  /\ outdated' = [outdated EXCEPT ![r] = {}]

Unqueue(r) ==
  /\ queued' = unqueueQueued(r) /\ waiters' = unqueueWaiters(r)
  /\ current' = current \ {r}

CountSend(r) ==
  attempts' = IF Reserving(r) THEN [attempts EXCEPT ![r] = @ + 1] ELSE attempts

Start(r) ==
  /\ pc[r] = "idle"
  /\ Goto(r, "ready")
  /\ UNCHANGED <<optVars, scopes, gateVars, paceVars, windowVars, refs,
                 queueVars, permitVars, boundVars>>

\* A fully disarmed state admits with the disabled permit, which claims nothing.
AdmitDisarmed(r) ==
  /\ Looks(r) /\ Disarmed
  /\ Unqueue(r) /\ NoPermit(r) /\ CountSend(r)
  /\ Goto(r, IF Reserving(r) THEN "upstream" ELSE "send")
  /\ UNCHANGED <<optVars, scopes, gateVars, paceVars, windowVars, refs,
                 releases>>

\* ErrStormCapacity: the scope map is full of scopes in use.
RefuseCapacity(r) ==
  /\ Looks(r) /\ ~Disarmed /\ ~Fits(r)
  /\ Evict(r, {}) /\ scopes' = scopes \ Evicted(r)
  /\ Unqueue(r) /\ NoPermit(r)
  /\ Goto(r, "done")
  /\ UNCHANGED <<optVars, recent, refs, boundVars>>

\* WaitStormReady returns without reserving anything.
PassReady(r) ==
  /\ Looks(r) /\ ~Reserving(r) /\ ~Disarmed /\ Fits(r) /\ ~Blocked(r)
  /\ Evict(r, {}) /\ TouchScopes(r)
  /\ Unqueue(r) /\ NoPermit(r)
  /\ Goto(r, "send")
  /\ UNCHANGED <<optVars, refs, boundVars>>

\* Mutant: an open quota gate is not claimed by the send it lets through.
DueStorms(r) == {s \in Keys(r) : s \in active}

\* The gates this send would probe.
Due(r) == {s \in Keys(r) : Gated(s)}

\* WaitStorm grants a permit: it claims every scope of the send at once, as
\* the recovery probe of those whose gate is open.
Grant(r) ==
  /\ Looks(r) /\ Reserving(r) /\ ~Disarmed /\ Fits(r) /\ ~Blocked(r)
  /\ Evict(r, Due(r)) /\ TouchScopes(r)
  /\ Unqueue(r) /\ CountSend(r)
  /\ refs' = Bump(refs, Keys(r))
  /\ claimed' = [claimed EXCEPT ![r] = Keys(r)]
  /\ probes' = [probes EXCEPT ![r] = Due(r)]
  /\ seen' = [seen EXCEPT ![r] = Reset(epoch, Scopes \ Keys(r))]
  /\ permitGen' = [permitGen EXCEPT ![r] = generation]
  /\ outdated' = [outdated EXCEPT ![r] = {}]
  /\ Goto(r, "upstream")
  /\ UNCHANGED <<optVars, releases>>

\* Mutant: the queue is measured with the woken request still in it.
QueueFullBeforeUnqueue(r) == queued >= opts.maxQueue

QueueFull(r) == unqueueQueued(r) >= opts.maxQueue

\* ErrStormQueueFull.
RefuseFull(r) ==
  /\ Looks(r) /\ ~Disarmed /\ Fits(r) /\ Blocked(r)
  /\ QueueFull(r)
  /\ Evict(r, {}) /\ TouchScopes(r)
  /\ Unqueue(r) /\ NoPermit(r)
  /\ Goto(r, "done")
  /\ UNCHANGED <<optVars, refs, boundVars>>

Park(r) ==
  /\ Looks(r) /\ ~Disarmed /\ Fits(r) /\ Blocked(r)
  /\ ~QueueFull(r)
  /\ Evict(r, {}) /\ TouchScopes(r)
  /\ queued' = unqueueQueued(r) + 1
  /\ waiters' = Bump(unqueueWaiters(r), Keys(r))
  /\ current' = current \cup {r}
  /\ claimed' = [claimed EXCEPT ![r] = Keys(r)]
  /\ permitGen' = [permitGen EXCEPT ![r] = generation]
  /\ Goto(r, IF Reserving(r) THEN "sendPark" ELSE "readyPark")
  /\ UNCHANGED <<optVars, refs, probes, seen, outdated, boundVars>>

\* The client goes away, or ErrStormMaxWait.
GiveUp(r) ==
  /\ pc[r] \in {"ready", "send"} \cup Parks
  /\ Unqueue(r) /\ NoPermit(r)
  /\ Goto(r, "done")
  /\ UNCHANGED <<optVars, scopes, gateVars, paceVars, windowVars, refs,
                 boundVars>>
(***************************************************************************)
(* Settling a permit.                                                      *)
(***************************************************************************)
\* A settled request retries its send or is answered.
Resume(r) ==
  \E point \in {"send", "done"} :
     /\ point = "send" => attempts[r] < MaxAttempts
     /\ Goto(r, point)

\* The gate transitions of a permit guard against an older generation.
Live(r) == pc[r] = "upstream" /\ SameGeneration(r)

\* The permit of an older generation counts on scopes nobody reads.
SettleStale(r) ==
  /\ pc[r] = "upstream" /\ ~SameGeneration(r)
  /\ Resume(r) /\ NoPermit(r)
  /\ UNCHANGED <<optVars, scopes, gateVars, paceVars, windowVars, refs,
                 queueVars, boundVars>>

\* The rolling failure rate crosses the threshold.
threshold(s, seenSamples, seenFailures) ==
  /\ seenSamples[s] >= MinSamples /\ seenSamples[s] > 0
  /\ seenFailures[s] > 0
  /\ 100 * seenFailures[s] >= ErrorPercent * seenSamples[s]

\* Mutant: only the observed model is consulted.
ownModelAffected(r) ==
  \A s \in claimed[r] \cap Models :
    threshold(s, Bump(samples, claimed[r]), Bump(failures, claimed[r]))

\* Every model with activity in the window is failing, r's included.
allActiveModelsAffected(r) ==
  LET live == (recent \cup claimed[r]) \cap Models
  IN  /\ live # {}
      /\ \A s \in live : threshold(s, Bump(samples, claimed[r]),
                                      Bump(failures, claimed[r]))

\* delay: the next backoff, its jittered delay, and the window it leaves.

\* Mutant: growth is not capped.
NextBackoffUncapped(s, grow) ==
  IF grow /\ backoff[s] > 0 THEN backoff[s] * BackoffMultiplier
                            ELSE InitialBackoff

NextBackoff(s, grow) ==
  LET grown == IF BackoffMultiplier > 0
                    /\ backoff[s] <= MaxBackoff \div BackoffMultiplier
                 THEN backoff[s] * BackoffMultiplier ELSE MaxBackoff
      next == IF grow /\ backoff[s] > 0 THEN grown ELSE InitialBackoff
  IN  IF next > MaxBackoff THEN MaxBackoff ELSE next

Jittered(b) ==
  {d \in 0 .. MaxBackoff :
     \E value \in (b * (100 - JitterPercent)) \div 100 ..
                  (b * (100 + JitterPercent)) \div 100 :
        d = IF value > MaxBackoff THEN MaxBackoff ELSE value}

Longer(a, b) == IF a > b THEN a ELSE b

\* Mutant: the new delay replaces a longer window a response had announced.
delayReplacing(s, grow, hint, d) == Longer(d, hint)

delay(s, grow, hint, d) == Longer(cooldown[s], Longer(d, hint))

\* delay on every scope of S, growing those of Grown; the cooldowns of Cleared
\* are dropped and those of Extended become the hint.
Repace(S, Grown, hint, Cleared, Extended) ==
  /\ backoff' = [s \in Scopes |-> IF s \in S THEN NextBackoff(s, s \in Grown)
                                  ELSE IF s \in Cleared THEN 0 ELSE backoff[s]]
  /\ \E jitter \in [S -> 0 .. MaxBackoff] :
       /\ \A s \in S : jitter[s] \in Jittered(NextBackoff(s, s \in Grown))
       /\ cooldown' = [s \in Scopes |->
            IF s \in S THEN delay(s, s \in Grown, hint, jitter[s])
            ELSE IF s \in Cleared THEN 0
            ELSE IF s \in Extended THEN hint ELSE cooldown[s]]
  /\ timer' = (timer \cup S \cup Extended) \ Cleared

\* Claims whose scope takes part in gating, and among them the probe flags
\* this permit gives back and the gates it is the probe of.
Settling(r) == {s \in claimed[r] : gates(s) \/ s \in quota}

\* Mutant: a probe outdated by a new opening gives no flag back.
ReleasedIfCurrent(r) ==
  {s \in Settling(r) \cap probes[r] \cap probing : seen[r][s] = epoch[s]}

Released(r) == Settling(r) \cap probes[r] \cap probing

\* Mutant: a permit granted before the gate opened speaks for it.
ProbedAnyEpoch(r) ==
  {s \in Settling(r) \cap probes[r] : s \in active \cup quota}

Probed(r) == {s \in Settling(r) \cap probes[r] :
                seen[r][s] = epoch[s] /\ s \in active \cup quota}

\* The unsettled permits for which the openings at S are news.
Outdate(r, S) ==
  outdated' = [q \in Requests |-> IF q = r THEN {}
                 ELSE IF Live(q) THEN outdated[q] \cup (S \cap claimed[q])
                 ELSE outdated[q]]

Settle(r) ==
  /\ refs' = Drop(refs, claimed[r])
  /\ claimed' = [claimed EXCEPT ![r] = {}]
  /\ probes' = [probes EXCEPT ![r] = {}]
  /\ seen' = [seen EXCEPT ![r] = Zero]
  /\ permitGen' = [permitGen EXCEPT ![r] = 0]
  /\ Resume(r)
  /\ UNCHANGED <<optVars, scopes, waiters, queued, boundVars>>

\* The threshold storms r's failure opens.
Opening(r) ==
  {s \in Settling(r) \ Probed(r) :
     /\ opts.enabled /\ (s \in Models \/ opts.provider)
     /\ s \notin active
     /\ threshold(s, Bump(samples, claimed[r]), Bump(failures, claimed[r]))
     /\ s \in Models \/ allActiveModelsAffected(r)}

\* Open storms whose window r's longer hint extends.
Extending(r, hint) ==
  {s \in (Settling(r) \ Probed(r)) \ Opening(r) :
     s \in active /\ hint > cooldown[s]}

\* Every gate that opens starts a new epoch.
OpenEpoch(r) == epoch' = Bump(epoch, Opening(r))

\* Observe(failed = true).
ObserveFailure(r, hint) ==
  /\ Live(r)
  /\ active' = active \cup Opening(r)
  /\ OpenEpoch(r)
  /\ recovered' = Reset(recovered, Probed(r) \cup Opening(r))
  /\ probing' = probing \ Released(r)
  /\ Repace(Probed(r) \cup Opening(r), Probed(r), hint, {}, Extending(r, hint))
  /\ samples' = Bump(samples, claimed[r])
  /\ failures' = Bump(failures, claimed[r])
  /\ recent' = recent \cup claimed[r]
  /\ WakeIf(Released(r) \cup Opening(r) \cup Extending(r, hint) # {})
  /\ Outdate(r, Opening(r))
  /\ Settle(r)
  /\ UNCHANGED quota

\* Facets that r's clean probe was the last needed to close.
QuotaClosed(r) == {s \in Probed(r) \cap quota :
                     recovered[s] + 1 >= QuotaRecoverySuccesses}
StormClosed(r) == {s \in Probed(r) \cap active :
                     recovered[s] + 1 >= RecoverySuccesses}
StillOpen(r) == (active \ StormClosed(r)) \cup (quota \ QuotaClosed(r))

\* Observe(failed = false).
ObserveSuccess(r) ==
  /\ Live(r)
  /\ active' = active \ StormClosed(r)
  /\ quota' = quota \ QuotaClosed(r)
  /\ recovered' = Bump(recovered, Probed(r))
  /\ probing' = probing \ Released(r)
  /\ Repace(Probed(r) \cap StillOpen(r), {}, 0, Probed(r) \ StillOpen(r), {})
  /\ samples' = Reset(Bump(samples, claimed[r]), StormClosed(r))
  /\ failures' = Reset(failures, StormClosed(r))
  /\ recent' = recent \cup claimed[r]
  /\ WakeIf(Released(r) # {})
  /\ Outdate(r, {})
  /\ Settle(r)
  /\ UNCHANGED epoch

\* Cancel: the outcome says nothing about the provider's health.
CancelPermit(r) ==
  /\ Live(r)
  /\ probing' = probing \ Released(r)
  /\ WakeIf(Released(r) # {})
  /\ Outdate(r, {})
  /\ Settle(r)
  /\ UNCHANGED <<active, quota, epoch, recovered, paceVars, windowVars>>

\* The quota gate r probes, and the one its observation opens.
QuotaProbed(r) == {s \in claimed[r] \cap {Provider} :
                     s \in probes[r] /\ seen[r][s] = epoch[s] /\ s \in quota}
QuotaOpening(r) == (claimed[r] \cap {Provider}) \ quota

\* ObserveQuota: a durable quota or billing failure.  The mode that leads here
\* is the proxy's, which a reload changes before it changes opts.
ObserveQuota(r, hint) ==
  /\ Live(r)
  /\ quota' = quota \cup QuotaOpening(r)
  /\ epoch' = Bump(epoch, QuotaOpening(r))
  /\ recovered' = Reset(recovered, QuotaProbed(r) \cup QuotaOpening(r))
  /\ probing' = probing \ probes[r]
  /\ Repace(QuotaProbed(r) \cup QuotaOpening(r), QuotaProbed(r), hint, {}, {})
  /\ WakeIf(probes[r] \cap probing # {})
  /\ Outdate(r, QuotaOpening(r))
  /\ Settle(r)
  /\ UNCHANGED <<active, windowVars>>

(***************************************************************************)
(* The operator, the configuration and time.                               *)
(***************************************************************************)
ReleaseQuota ==
  /\ Provider \in quota /\ releases < MaxReleases
  /\ quota' = quota \ {Provider}
  /\ recovered' = Reset(recovered, {Provider})
  /\ backoff' = Reset(backoff, {Provider} \ active)
  /\ cooldown' = Reset(cooldown, {Provider} \ active)
  /\ timer' = timer \ ({Provider} \ active)
  /\ Wake
  /\ releases' = releases + 1
  /\ UNCHANGED <<optVars, scopes, active, probing, epoch, windowVars, refs,
                 waiters, queued, pc, permitVars, attempts>>

\* Mutant: the gates go, the probe flags stay.
CloseKeepingProbes ==
  active' = {} /\ quota' = {} /\ UNCHANGED probing /\ Wake

\* Mutant: nobody is told.
CloseSilently ==
  active' = {} /\ quota' = {} /\ probing' = {} /\ UNCHANGED current

Close == active' = {} /\ quota' = {} /\ probing' = {} /\ Wake

\* configure: different options, limits included, start a generation with an
\* empty scope map.  Whoever is parked stays counted in stormState.queued, which
\* may then exceed the new limit.
Configure ==
  /\ generation < MaxGenerations
  /\ \E policy \in Policies \ {opts} :
       /\ opts' = policy
       /\ lowered' = IF policy.maxQueue < opts.maxQueue
                     THEN lowered \cup {generation + 1} ELSE lowered
  /\ generation' = generation + 1
  /\ scopes' = {} /\ Close
  /\ epoch' = Zero /\ recovered' = Zero
  /\ backoff' = Zero /\ cooldown' = Zero /\ timer' = {}
  /\ samples' = Zero /\ failures' = Zero /\ recent' = {}
  /\ refs' = Zero /\ waiters' = Zero
  /\ UNCHANGED <<queued, pc, permitVars, boundVars>>

Tick ==
  /\ \E s \in Scopes : cooldown[s] > 0
  /\ cooldown' = [s \in Scopes |-> IF cooldown[s] > 0 THEN cooldown[s] - 1 ELSE 0]
  /\ UNCHANGED <<optVars, scopes, gateVars, backoff, timer, windowVars, refs,
                 queueVars, pc, permitVars, boundVars>>

\* Mutant: the timer's callback wakes nobody.
FireSilently(s) == timer' = timer \ {s} /\ UNCHANGED current

Fire(s) == timer' = timer \ {s} /\ Wake

\* The wake timer of s fires at retryAt.
TimerFires(s) ==
  /\ s \in timer /\ cooldown[s] = 0
  /\ Fire(s)
  /\ UNCHANGED <<optVars, scopes, gateVars, backoff, cooldown, windowVars, refs,
                 waiters, queued, pc, permitVars, boundVars>>

\* The oldest observation leaves the window of s.
SampleExpires(s) ==
  /\ samples[s] > 0
  /\ \/ failures[s] > 0 /\ failures' = [failures EXCEPT ![s] = @ - 1]
     \/ failures[s] < samples[s] /\ failures' = failures
  /\ samples' = [samples EXCEPT ![s] = @ - 1]
  /\ UNCHANGED <<optVars, scopes, gateVars, paceVars, recent, refs, queueVars,
                 pc, permitVars, boundVars>>

\* A whole window passes without activity on s.
ActivityExpires(s) ==
  /\ s \in recent /\ samples[s] = 0
  /\ recent' = recent \ {s}
  /\ UNCHANGED <<optVars, scopes, gateVars, paceVars, samples, failures, refs,
                 queueVars, pc, permitVars, boundVars>>

\* Every request was answered; the process idles.
Finished ==
  /\ \A r \in Requests : pc[r] = "done"
  /\ UNCHANGED vars

Waits(r) ==
  \/ AdmitDisarmed(r) \/ RefuseCapacity(r) \/ PassReady(r) \/ Grant(r)
  \/ RefuseFull(r) \/ Park(r)

Settles(r) ==
  \/ SettleStale(r) \/ ObserveSuccess(r) \/ CancelPermit(r)
  \/ \E hint \in Hints : ObserveFailure(r, hint) \/ ObserveQuota(r, hint)

Next ==
  \/ \E r \in Requests : Start(r) \/ Waits(r) \/ GiveUp(r) \/ Settles(r)
  \/ ReleaseQuota \/ Configure \/ Tick \/ Finished
  \/ \E s \in Scopes : TimerFires(s) \/ SampleExpires(s) \/ ActivityExpires(s)

Spec == Init /\ [][Next]_vars

(***************************************************************************)
(* Goroutines run, an attempt ends (every send has a deadline), timers     *)
(* fire and time passes; nobody has to give up, reload or release.         *)
(***************************************************************************)
FairSpec ==
  /\ Spec
  /\ \A r \in Requests : WF_vars(Waits(r)) /\ WF_vars(Settles(r))
  /\ \A s \in Scopes : WF_vars(TimerFires(s))
  /\ WF_vars(Tick)
-----------------------------------------------------------------------------
(***************************************************************************)
(* Properties.                                                             *)
(***************************************************************************)
GatesTyped ==
  /\ opts \in Policies /\ generation \in Nat \ {0} /\ lowered \subseteq Nat
  /\ scopes \subseteq Scopes /\ active \subseteq Scopes
  /\ quota \subseteq {Provider} /\ probing \subseteq Scopes
  /\ epoch \in [Scopes -> Nat] /\ recovered \in [Scopes -> Nat]

PaceTyped ==
  /\ backoff \in [Scopes -> 0 .. MaxBackoff] /\ cooldown \in [Scopes -> Nat]
  /\ timer \subseteq Scopes /\ recent \subseteq Scopes
  /\ samples \in [Scopes -> Nat] /\ failures \in [Scopes -> Nat]

RequestsTyped ==
  /\ refs \in [Scopes -> Int] /\ waiters \in [Scopes -> Int] /\ queued \in Int
  /\ current \subseteq Requests
  /\ pc \in [Requests -> Points]
  /\ claimed \in [Requests -> SUBSET Scopes]
  /\ probes \in [Requests -> SUBSET Scopes]
  /\ seen \in [Requests -> [Scopes -> Nat]]
  /\ permitGen \in [Requests -> Nat]
  /\ outdated \in [Requests -> SUBSET Scopes]
  /\ attempts \in [Requests -> Nat] /\ releases \in Nat

\* Type invariant; a backoff never exceeds MaxBackoff, the cap in delay.
TypeOK == GatesTyped /\ PaceTyped /\ RequestsTyped

Holders(s) == {r \in Requests : Live(r) /\ s \in claimed[r]}
Queuers(s) == {r \in Requests : Parked(r) /\ SameGeneration(r) /\ s \in claimed[r]}

\* stormScope.refs and .queued count exactly the unsettled permits and the
\* parked requests of this generation that hold on to the scope, stormState.queued
\* the parked requests of every generation, and none of those scopes has been
\* evicted: nothing leaks when reloads, wakeups, timeouts and late settlements
\* cross.
CountsExact ==
  /\ \A s \in Scopes : /\ refs[s] = Cardinality(Holders(s))
                       /\ waiters[s] = Cardinality(Queuers(s))
                       /\ Holders(s) \cup Queuers(s) # {} => s \in scopes
  /\ queued = Cardinality({r \in Requests : Parked(r)})

\* The comment on gateHeld: the probe flag is owned by the unique unsettled
\* probe claim, across epoch bumps, releases, reloads and evictions.  A flag
\* nobody owns would park its scope forever, two owners would be two probes.
ProbeOwned ==
  \A s \in Scopes :
    /\ s \in probing => \E r \in Requests : Live(r) /\ s \in probes[r]
    /\ \A r, q \in Requests :
         Live(r) /\ Live(q) /\ s \in probes[r] \cap probes[q] => r = q

\* While a gate is open, at most one of the sends admitted since it opened is
\* in flight: recovery is single file, whichever facets opened and closed.
SingleFileRecovery ==
  \A s \in Scopes : Gated(s) =>
    \A r, q \in Requests :
      (/\ Live(r) /\ s \in claimed[r] \ outdated[r]
       /\ Live(q) /\ s \in claimed[q] \ outdated[q]) => r = q

\* A parked request that nobody has woken will be: one of its scopes has an
\* armed timer or a probe in flight whose settlement wakes.
NoLostWakeup ==
  \A r \in current : \E s \in claimed[r] :
    \/ s \in timer
    \/ s \in probing /\ \E q \in Requests : Live(q) /\ s \in probes[q]

\* Whoever is parked in waitStorm is counted, holds on to its scopes and will be woken.
WaitersAccounted == CountsExact /\ NoLostWakeup

Settled(r) == pc[r] = "upstream" /\ pc'[r] # "upstream"

\* A facet of s closes, and it may: by a reload, by an operator's release, or by
\* the settlement of a permit of this generation that probes the gate and was
\* granted after its last opening.
Closes(s) == \/ s \in active /\ s \notin active'
             \/ s \in quota /\ s \notin quota'
HasReason(s) ==
  \/ generation' # generation
  \/ releases' # releases /\ active' = active
  \/ \E r \in Requests : /\ Settled(r) /\ permitGen[r] = generation
                         /\ s \in probes[r] \ outdated[r]

\* The comment on StormPermit: an old permit cannot recover a storm opened or
\* reconfigured after its grant.
ClosedByItsProbe == [][\A s \in Scopes : Closes(s) => HasReason(s)]_vars

\* A provider-wide storm is declared only when every model with activity in the
\* window is over the threshold, the failure that declares it included: one bad
\* model never parks the traffic of a healthy one.
OutageIsTotal ==
  [][(Provider \notin active /\ Provider \in active') =>
       \A s \in recent' \cap Models :
         100 * failures'[s] >= ErrorPercent * samples'[s] /\ failures'[s] > 0]_vars

\* A provider's announced window is honoured: while a gate stays open only the
\* passage of time brings its next probe closer, never a success, a sibling's
\* shorter hint or the other facet's closing.
WindowHonoured ==
  [][\A s \in Scopes :
       Gated(s) /\ Gated(s)' /\ generation' = generation
         => cooldown'[s] >= cooldown[s] \/ Tick]_vars

\* A request that was let into the wait queue keeps its place at every wakeup: the
\* only way to be turned away as ErrStormQueueFull after queueing is a reload, since
\* it last queued, that lowered MaxQueue.
LimitLowered(r) == \E g \in lowered : g > permitGen[r]
QueuedKeepsPlace ==
  [][\A r \in Requests : RefuseFull(r) => ~Parked(r) \/ LimitLowered(r)]_vars

\* What a storm asks of requests is what the provider gave cause for: it is declared on
\* the evidence of every model, its window is honoured, and a place in its queue is kept.
StormsJust == OutageIsTotal /\ WindowHonoured /\ QueuedKeepsPlace

\* Every request that starts is answered: no gate parks it forever.
OffTheGate(r) == pc[r] \in {"idle", "done"}
EveryRequestFinishes == \A r \in Requests : []<>OffTheGate(r)
=============================================================================
