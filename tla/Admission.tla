----------------------------- MODULE Admission -----------------------------
(***************************************************************************)
(* Admission to one provider: the groups (provider+key) with their FIFO    *)
(* queues and caps, the provider gate they share (concurrency cap and      *)
(* token bucket), and the fair drain that hands freed capacity to queued   *)
(* waiters.  Sources: scheduler_admission.go, scheduler_groups.go,         *)
(* throttle.go, scheduler.go and the policy edges of hold.go, all in       *)
(* internal/scheduler.                                                     *)
(*                                                                         *)
(* Every section under g.mu, the gate's mutex or the index's mutex is one  *)
(* action; drainProvider, which holds no lock across its passes, is a      *)
(* sequence of them that any number of drainers run at once.  A drainer is *)
(* a request's goroutine or one of Background: timer callbacks and         *)
(* operator calls.  A client in Returning comes back with another request  *)
(* on the same key as often as it likes; any other sends just one.         *)
(*                                                                         *)
(* The set of groups is fixed and every group is attributed; AntiBurst is  *)
(* off and the requests-per-window dimension is unset.                     *)
(***************************************************************************)
EXTENDS Integers, Sequences, FiniteSets

CONSTANTS
  Requests,        \* clients, each with one request at a time
  Returning,       \* those that come back after their request
  Groups,          \* provider+key groups of the provider
  GroupOf,         \* the group a request's key selects
  FirstCap,        \* each group's cap at the start, 0 = unlimited
  Caps,            \* the caps a request may bring (X-Proxy-Max-Concurrency)
  MaxQueueSize,    \* opts.MaxQueueSize, 0 = unlimited
  Est,             \* each request's estimated tokens
  Actual,          \* what a finished request may report: its token count, or
                   \* -1 (TokensUnavailable)
  HoldScope,       \* requests an operator hold matches
  Limits,          \* policies of the provider; UpdateThrottle installs another
  Background,      \* goroutines of timer callbacks and operator calls
  Interventions,   \* what may interfere: abort, maxWait, pace, hold, drain,
                   \* throttle, cap
  MaxInterventions \* bound: how often, lifting a hold not counted

Limit == [concurrency : Nat, tokens : Nat]

ASSUME AdmissionAssumption ==
  /\ IsFiniteSet(Requests)
  /\ GroupOf \in [Requests -> Groups]
  /\ FirstCap \in [Groups -> Nat] /\ Caps \subseteq Nat
  /\ MaxQueueSize \in Nat /\ MaxInterventions \in Nat
  /\ Est \in [Requests -> Nat]
  /\ Actual \subseteq Nat \cup {-1}
  /\ HoldScope \subseteq Requests /\ Returning \subseteq Requests
  /\ Limits \subseteq Limit
  /\ Requests \cap Background = {}
  /\ "gate" \notin Groups

VARIABLES
  inFlight,      \* g.inFlight
  queued,        \* waiters linked in their group's queue (queueNode.owner)
  ahead,         \* the waiters in front of each queued waiter
  granted,       \* waiters whose buffered w.ch holds an unread grant
  limit,         \* the installed gate's throttle.Limit
  gateGen,       \* which gate object is installed, or will be next
  tokGen,        \* the token bucket's incarnation (gate and tokEpoch)
  gateInFlight,  \* gate.inFlight
  tokens,        \* gate.tok.tokens
  wake,          \* ticks until gate.wake fires, 0 when it is not armed
  leaseGen,      \* admission.gate, 0 for a nil gate or a settled lease
  reserved,      \* admission.reserved
  leaseTok,      \* admission.tokEpoch
  fair,          \* idx.fair: the groups with gateWaiting, in list order
  cursor,        \* idx.cursor, as a set of at most one group
  paced,         \* groups inside their pacing window (nextAllowedAt)
  due,           \* timers that have fired and whose callback has not run
  cap,           \* g.maxConcurrent, 0 = unlimited
  raised,        \* history: groups whose cap was raised and that no drain has
                 \* marked since
  hold,          \* the operator hold: none, until lifted, or with an Until
  drained,       \* waiters that a drain ticket newer than they are matches
  owed,          \* history: those of them not yet granted at the ticket
  interventions, \* how many so far, for the bound
  current,       \* waiters whose snapshot of the policy kick is still open
  sendCurrent,   \* waiters whose snapshot of sendKick is still open
  timed,         \* waiters parked with an Until timer
  cancelled,     \* waiters whose context is done
  pc,            \* each request's position
  job,           \* each drainer's position in its drain
  tomark,        \* groups a drain still has to mark
  found,         \* drainers that will walk the provider after marking
  round,         \* the fair snapshot a drainer walks
  at,            \* its position in it
  productive,    \* drainers that granted in the current pass
  served         \* the group a drainer granted in last, as a set

slots == <<inFlight, queued, ahead, granted>>
gate == <<limit, gateGen, tokGen, gateInFlight, tokens, wake>>
lease == <<leaseGen, reserved, leaseTok>>
index == <<fair, cursor>>
caps == <<cap, raised>>
windows == <<paced, due, caps>>
policy == <<hold, drained, owed, interventions>>
channels == <<current, sendCurrent, timed>>
walk == <<round, at, productive, served>>
drains == <<job, tomark, found, walk>>

vars == <<slots, gate, lease, index, windows, policy, channels, cancelled, pc,
          drains>>

Drainers == Requests \cup Background

(***************************************************************************)
(* A request's control points.                                             *)
(*   idle      no request              arriving  has rewritten the cap     *)
(*   enqueued  first drainAdmission                                        *)
(*   check     top of the wait loop    snapshot  takes both wake channels  *)
(*   holdRead  reads the hold policy   heldPark  parked under a hold       *)
(*   expired   drains after an Until   redrain   drains before parking     *)
(*   parked    parked, not held        running   holds the slot            *)
(*   settled   the lease is settled    leaving   the trailing drain        *)
(*   gone      will not come back                                          *)
(* enqueued, expired, redrain and leaving run a drain.                     *)
(***************************************************************************)
Parks == {"heldPark", "parked"}
Waiting == Parks \cup {"enqueued", "check", "snapshot", "holdRead", "expired",
                       "redrain"}
Points == Waiting \cup {"idle", "arriving", "running", "settled", "leaving", "gone"}
Jobs == {"none", "kick", "mark", "count", "snapshot", "peek", "serve",
         "capacity", "advance"}

Active == limit.concurrency > 0 \/ limit.tokens > 0

Init ==
  /\ inFlight = [g \in Groups |-> 0]
  /\ queued = {} /\ ahead = [r \in Requests |-> {}] /\ granted = {}
  /\ limit \in Limits /\ gateInFlight = 0 /\ tokens = limit.tokens /\ wake = 0
  /\ gateGen = 1 /\ tokGen = 1
  /\ leaseGen = [r \in Requests |-> 0] /\ reserved = [r \in Requests |-> 0]
  /\ leaseTok = [r \in Requests |-> 0]
  /\ fair = <<>> /\ cursor = {} /\ paced = {} /\ due = {}
  /\ cap = FirstCap /\ raised = {}
  /\ hold = "none" /\ drained = {} /\ owed = {} /\ interventions = 0
  /\ current = {} /\ sendCurrent = {} /\ timed = {} /\ cancelled = {}
  /\ pc = [r \in Requests |-> "idle"]
  /\ job = [d \in Drainers |-> "none"] /\ tomark = [d \in Drainers |-> {}]
  /\ found = {} /\ round = [d \in Drainers |-> <<>>]
  /\ at = [d \in Drainers |-> 1] /\ productive = {}
  /\ served = [d \in Drainers |-> {}]

(***************************************************************************)
(* Predicates.                                                             *)
(***************************************************************************)
Members(g) == {r \in Requests : GroupOf[r] = g}
Queue(g) == queued \cap Members(g)

Held(r) == r \in HoldScope /\ hold # "none"

\* Mutant: one slot too many.
WindowOpenAtCap(g) ==
  /\ cap[g] = 0 \/ inFlight[g] <= cap[g]
  /\ g \notin paced

\* admissionWindowOpenLocked: the group's own cap and pacing window.
WindowOpen(g) ==
  /\ cap[g] = 0 \/ inFlight[g] < cap[g]
  /\ g \notin paced

\* Mutant: one slot too many.
ConcurrencyOverfull ==
  limit.concurrency > 0 /\ gateInFlight > limit.concurrency

\* providerConcurrencyFull.
ConcurrencyFull ==
  limit.concurrency > 0 /\ gateInFlight >= limit.concurrency

\* What the token bucket must hold before r is admitted: one token for a
\* request without an estimate or larger than the bucket.
TokensNeeded(r) ==
  IF Est[r] = 0 \/ Est[r] > limit.tokens THEN 1 ELSE Est[r]

TokensShort(r) == limit.tokens > 0 /\ tokens < TokensNeeded(r)

\* providerGate.blocked.
Blocked(r) == ConcurrencyFull \/ TokensShort(r)

\* The waiters a drain skips: cancelled ones keep their place for their own
\* removeWaiter, held ones for the day the hold lifts.
Reachable(r) == r \in queued /\ r \notin cancelled /\ ~Held(r)

\* The waiter a drain of g reaches first, as a set of at most one.
First(g) ==
  {r \in Queue(g) : Reachable(r) /\ \A x \in ahead[r] : ~Reachable(x)}

(***************************************************************************)
(* Steps of the gate.                                                      *)
(***************************************************************************)
\* wake.arm with the earliest deadline winning; blocked reports no wait when
\* it is the concurrency cap that refuses.
ArmFor(r) ==
  LET wait == TokensNeeded(r) - tokens
  IN  wake' = IF ConcurrencyFull THEN wake
              ELSE IF wake = 0 \/ wait < wake THEN wait ELSE wake

\* providerGate.tryAdmit, admitting: an inactive limit leaves no trace.
Charge(r) ==
  IF Active
    THEN /\ gateInFlight' = gateInFlight + 1
         /\ leaseGen' = [leaseGen EXCEPT ![r] = gateGen]
         /\ leaseTok' = [leaseTok EXCEPT ![r] = tokGen]
         /\ IF limit.tokens > 0
              THEN /\ reserved' = [reserved EXCEPT ![r] = Est[r]]
                   /\ tokens' = tokens - Est[r]
              ELSE UNCHANGED <<reserved, tokens>>
    ELSE UNCHANGED <<gateInFlight, tokens, lease>>

\* Mutant: the gate is looked up by name when the lease is settled.
SettleByName(r, actual) ==
  /\ gateInFlight' = IF gateInFlight > 0 THEN gateInFlight - 1 ELSE 0
  /\ leaseGen' = [leaseGen EXCEPT ![r] = 0]
  /\ reserved' = [reserved EXCEPT ![r] = 0]
  /\ leaseTok' = [leaseTok EXCEPT ![r] = 0]
  /\ UNCHANGED tokens

\* admission.settle: the gate captured at admission, if it is still the one
\* installed; an older gate object is no longer visible to anybody.  The
\* refill before the next read brings a refund back under the capacity.
Settle(r, actual) ==
  /\ IF leaseGen[r] = gateGen
       THEN gateInFlight' = IF gateInFlight > 0 THEN gateInFlight - 1 ELSE 0
       ELSE UNCHANGED gateInFlight
  /\ IF /\ leaseGen[r] # 0 /\ leaseTok[r] = tokGen
        /\ limit.tokens > 0 /\ actual >= 0
       THEN LET after == tokens - (actual - reserved[r])
            IN  tokens' = IF after > limit.tokens THEN limit.tokens ELSE after
       ELSE UNCHANGED tokens
  /\ leaseGen' = [leaseGen EXCEPT ![r] = 0]
  /\ reserved' = [reserved EXCEPT ![r] = 0]
  /\ leaseTok' = [leaseTok EXCEPT ![r] = 0]

(***************************************************************************)
(* Steps of the queues and of the fair set.                                *)
(***************************************************************************)
InFair(g) == \E i \in DOMAIN fair : fair[i] = g

Position(g) == CHOOSE i \in DOMAIN fair : fair[i] = g

\* markGateWaitingLocked, given that g has a live waiter.
Mark(g) ==
  fair' = IF InFair(g) \/ ~WindowOpen(g) THEN fair ELSE Append(fair, g)

\* clearGateWaitingLocked.
Unmark(g) ==
  fair' = IF InFair(g)
            THEN SubSeq(fair, 1, Position(g) - 1)
                   \o SubSeq(fair, Position(g) + 1, Len(fair))
            ELSE fair

\* linkedList.remove.
Unlink(r) ==
  /\ queued' = queued \ {r}
  /\ ahead' = [x \in Requests |-> IF x = r THEN {} ELSE ahead[x] \ {r}]

Goto(r, point) == pc' = [pc EXCEPT ![r] = point]

Away(r) == IF r \in Returning THEN "idle" ELSE "gone"

\* A goroutine starts drainAdmission for its group.
StartDrain(d, g) ==
  /\ job' = [job EXCEPT ![d] = "mark"]
  /\ tomark' = [tomark EXCEPT ![d] = {g}]
  /\ found' = found \cup {d}
  /\ UNCHANGED walk

\* The request is over: whatever the waiter carried is gone with it.
Forget(r) ==
  /\ current' = current \ {r} /\ sendCurrent' = sendCurrent \ {r}
  /\ timed' = timed \ {r} /\ cancelled' = cancelled \ {r}
  /\ drained' = drained \ {r} /\ owed' = owed \ {r}

Intervene(kind) ==
  /\ kind \in Interventions
  /\ interventions < MaxInterventions
  /\ interventions' = interventions + 1

(***************************************************************************)
(* acquire.                                                                *)
(***************************************************************************)
\* Whether a cap of next lets more requests run than one of now.
Looser(next, now) == now # 0 /\ (next = 0 \/ next > now)

\* AcquireWith's lookup, under s.mu: groupForLocked installs the cap that this
\* request brings, whoever runs or waits under the old one, and drains nothing.
\* A lookup that brings the cap in force changes nothing and has no step.
groupForLocked(r, next) ==
  /\ pc[r] = "idle"
  /\ next # cap[GroupOf[r]]
  /\ Intervene("cap")
  /\ cap' = [cap EXCEPT ![GroupOf[r]] = next]
  /\ raised' = IF Looser(next, cap[GroupOf[r]]) THEN raised \cup {GroupOf[r]} ELSE raised
  /\ Goto(r, "arriving")
  /\ UNCHANGED <<slots, gate, lease, index, paced, due, hold, drained, owed, channels,
                 cancelled, drains>>

\* The request is at the door of its group.
AtDoor(r) == pc[r] \in {"idle", "arriving"}

\* Mutant: a fresh key does not look for waiting peers.
FastPathJumps(r) ==
  /\ Queue(GroupOf[r]) = {}
  /\ WindowOpen(GroupOf[r])
  /\ ~Held(r)

\* The fast path is open when nobody waits in the group, no peer group waits
\* for the gate, and neither the group nor a hold stands in the way.
FastPath(r) ==
  /\ Queue(GroupOf[r]) = {}
  /\ fair = <<>>
  /\ WindowOpen(GroupOf[r])
  /\ ~Held(r)

AcquireFast(r) ==
  /\ AtDoor(r)
  /\ FastPath(r) /\ ~Blocked(r)
  /\ inFlight' = [inFlight EXCEPT ![GroupOf[r]] = @ + 1]
  /\ Charge(r)
  /\ Goto(r, "running")
  /\ UNCHANGED <<queued, ahead, granted, limit, gateGen, tokGen, wake, index,
                 windows, policy, channels, cancelled, drains>>

\* A refusal by the gate arms its timer.
ArmIfRefused(r) == IF FastPath(r) THEN ArmFor(r) ELSE UNCHANGED wake

QueueFull(g) == MaxQueueSize > 0 /\ Cardinality(Queue(g)) >= MaxQueueSize

\* ErrQueueFull, a full queue or a hold's MaxQueued: the request is turned away,
\* with no drain even when its lookup has just raised the cap.
AcquireRefused(r) ==
  /\ AtDoor(r)
  /\ ~FastPath(r)
  /\ QueueFull(GroupOf[r]) \/ Held(r)
  /\ Goto(r, Away(r))
  /\ UNCHANGED <<slots, gate, lease, index, windows, policy, channels, cancelled, drains>>

AcquireQueues(r) ==
  /\ AtDoor(r)
  /\ ~(FastPath(r) /\ ~Blocked(r))
  /\ ~QueueFull(GroupOf[r])
  /\ ArmIfRefused(r)
  /\ ahead' = [ahead EXCEPT ![r] = Queue(GroupOf[r])]
  /\ queued' = queued \cup {r}
  /\ StartDrain(r, GroupOf[r])
  /\ Goto(r, "enqueued")
  /\ UNCHANGED <<inFlight, granted, limit, gateGen, tokGen, gateInFlight,
                 tokens, lease, index, windows, policy, channels, cancelled>>

\* removeWaiter found the waiter in the queue: only a new head is drained.
RemoveQueued(r) ==
  /\ r \in queued
  /\ Unlink(r)
  /\ IF Queue(GroupOf[r]) = {r} THEN Unmark(GroupOf[r]) ELSE UNCHANGED fair
  /\ IF ahead[r] = {}
       THEN StartDrain(r, GroupOf[r]) /\ Goto(r, "leaving")
       ELSE Goto(r, Away(r)) /\ UNCHANGED drains
  /\ UNCHANGED <<inFlight, granted, gate, lease>>

\* Mutant: a drained waiter keeps the slot it never read.
RemoveGrantedKeepsSlot(r) ==
  /\ r \notin queued
  /\ granted' = granted \ {r}
  /\ Settle(r, 0)
  /\ StartDrain(r, GroupOf[r]) /\ Goto(r, "leaving")
  /\ UNCHANGED <<inFlight, queued, ahead, limit, gateGen, tokGen, wake, fair>>

\* Mutant: the slot is given back without the drain that hands it on.
RemoveGrantedUndrained(r) ==
  /\ r \notin queued
  /\ granted' = granted \ {r}
  /\ Settle(r, 0)
  /\ inFlight' = [inFlight EXCEPT ![GroupOf[r]] = @ - 1]
  /\ Goto(r, Away(r))
  /\ UNCHANGED <<queued, ahead, limit, gateGen, tokGen, wake, fair, drains>>

\* removeWaiter did not find it, so it was granted: the grant it never read
\* is given back.
RemoveGranted(r) ==
  /\ r \notin queued
  /\ granted' = granted \ {r}
  /\ Settle(r, 0)
  /\ inFlight' = [inFlight EXCEPT ![GroupOf[r]] =
                    IF @ > 0 THEN @ - 1 ELSE 0]
  /\ StartDrain(r, GroupOf[r]) /\ Goto(r, "leaving")
  /\ UNCHANGED <<queued, ahead, limit, gateGen, tokGen, wake, fair>>

removeWaiter(r) ==
  /\ RemoveQueued(r) \/ RemoveGranted(r)
  /\ Forget(r)
  /\ UNCHANGED <<cursor, windows, hold>>

\* queueDrained at the top of the loop.
DrainCheck(r) ==
  /\ pc[r] = "check"
  /\ \/ /\ r \in drained
        /\ removeWaiter(r)
        /\ UNCHANGED interventions
     \/ /\ r \notin drained
        /\ Goto(r, "snapshot")
        /\ UNCHANGED <<slots, gate, lease, index, windows, policy, channels,
                       cancelled, drains>>

\* kickC and sendKickC, before the hold predicate is read.
SnapshotKicks(r) ==
  /\ pc[r] = "snapshot"
  /\ Goto(r, "holdRead")
  /\ current' = current \cup {r}
  /\ sendCurrent' = sendCurrent \cup {r}
  /\ UNCHANGED <<slots, gate, lease, index, windows, policy, timed, cancelled,
                 drains>>

\* matchingHold: park under the hold with a timer for its Until, or drain once
\* more and park.
HoldRead(r) ==
  /\ pc[r] = "holdRead"
  /\ IF Held(r)
       THEN /\ Goto(r, "heldPark")
            /\ timed' = IF hold = "timed" THEN timed \cup {r} ELSE timed
            /\ UNCHANGED drains
       ELSE /\ Goto(r, "redrain")
            /\ StartDrain(r, GroupOf[r])
            /\ UNCHANGED timed
  /\ UNCHANGED <<slots, gate, lease, index, windows, policy, current,
                 sendCurrent, cancelled>>

\* case <-w.ch.
ReadGrant(r) ==
  /\ pc[r] \in Parks
  /\ r \in granted
  /\ granted' = granted \ {r}
  /\ Goto(r, "running")
  /\ Forget(r)
  /\ UNCHANGED <<inFlight, queued, ahead, gate, lease, index, windows, hold,
                 interventions, drains>>

\* case <-kick, and <-sendKick where the select has it.
Wake(r) ==
  /\ \/ pc[r] \in Parks /\ r \notin current
     \/ pc[r] = "parked" /\ r \notin sendCurrent
  /\ Goto(r, "check")
  /\ timed' = timed \ {r}
  /\ UNCHANGED <<slots, gate, lease, index, windows, policy, current,
                 sendCurrent, cancelled, drains>>

\* case <-untilC: the hold's Until has passed.
UntilFires(r) ==
  /\ pc[r] = "heldPark" /\ r \in timed /\ hold # "timed"
  /\ Goto(r, "expired")
  /\ timed' = timed \ {r}
  /\ StartDrain(r, GroupOf[r])
  /\ UNCHANGED <<slots, gate, lease, index, windows, policy, current,
                 sendCurrent, cancelled>>

\* case <-ctx.Done().
WaitCancelled(r) ==
  /\ pc[r] \in Parks
  /\ r \in cancelled
  /\ removeWaiter(r)
  /\ UNCHANGED interventions

\* case <-maxWaitC.
WaitExpires(r) ==
  /\ pc[r] = "parked"
  /\ Intervene("maxWait")
  /\ removeWaiter(r)

\* The client gives up while its request waits.
Abort(r) ==
  /\ pc[r] \in Waiting /\ r \notin cancelled
  /\ Intervene("abort")
  /\ cancelled' = cancelled \cup {r}
  /\ UNCHANGED <<slots, gate, lease, index, windows, hold, drained, owed, channels, pc,
                 drains>>

(***************************************************************************)
(* Release: settle the lease, then free the slot, then drain.              *)
(***************************************************************************)
ReleaseSettles(r, actual) ==
  /\ pc[r] = "running"
  /\ Settle(r, actual)
  /\ Goto(r, "settled")
  /\ UNCHANGED <<slots, limit, gateGen, tokGen, wake, index, windows, policy,
                 channels, cancelled, drains>>

release(r) ==
  /\ pc[r] = "settled"
  /\ inFlight' = [inFlight EXCEPT ![GroupOf[r]] = IF @ > 0 THEN @ - 1 ELSE 0]
  /\ StartDrain(r, GroupOf[r])
  /\ Goto(r, "leaving")
  /\ UNCHANGED <<queued, ahead, granted, gate, lease, index, windows, policy,
                 channels, cancelled>>

(***************************************************************************)
(* A drain: drainAdmission or drainAll marks, drainProvider walks.         *)
(***************************************************************************)
Continue(d, point) == job' = [job EXCEPT ![d] = point]

\* Where a request goes on when its drain is over.
AfterDrain(r) ==
  CASE pc[r] \in {"enqueued", "expired"} -> "check"
    [] pc[r] = "redrain" -> "parked"
    [] OTHER -> Away(r)

\* The drain returns and the goroutine goes on, or ends.
FinishDrain(d) ==
  /\ Continue(d, "none")
  /\ tomark' = [tomark EXCEPT ![d] = {}]
  /\ found' = found \ {d}
  /\ round' = [round EXCEPT ![d] = <<>>] /\ at' = [at EXCEPT ![d] = 1]
  /\ productive' = productive \ {d}
  /\ served' = [served EXCEPT ![d] = {}]
  /\ IF d \in Requests THEN Goto(d, AfterDrain(d)) ELSE UNCHANGED pc

\* One group of drainAdmission or of drainAll, under its g.mu; mark tells
\* whether the group is published.  After the last group, drainAll walks the
\* provider only when it saw queued work.
MarkingGroup(d, g, mark) ==
  /\ job[d] = "mark" /\ g \in tomark[d]
  /\ IF mark THEN Mark(g) ELSE UNCHANGED fair
  /\ raised' = raised \ {g}
  /\ LET left == tomark[d] \ {g}
         walks == d \in found \/ Queue(g) # {}
     IN  IF left = {} /\ ~walks
           THEN FinishDrain(d)
           ELSE /\ tomark' = [tomark EXCEPT ![d] = left]
                /\ found' = IF walks THEN found \cup {d} ELSE found
                /\ Continue(d, IF left = {} THEN "count" ELSE "mark")
                /\ UNCHANGED <<pc, walk>>
  /\ UNCHANGED <<slots, gate, lease, cursor, paced, due, cap, policy, channels,
                 cancelled>>

\* Mutant: a local trigger does not publish its group before it drains.
MarkGroupSilently(d, g) == MarkingGroup(d, g, FALSE)

MarkGroup(d, g) == MarkingGroup(d, g, Queue(g) # {})

\* drainProvider's two early returns: nobody waits for the gate (fairCount),
\* or the concurrency cap is full.  A fair set that empties between the two
\* reads ends the drain at its snapshot, so one step covers both.
CheckProvider(d) ==
  /\ job[d] = "count"
  /\ IF fair = <<>> \/ ConcurrencyFull
       THEN FinishDrain(d)
       ELSE Continue(d, "snapshot") /\ UNCHANGED <<pc, tomark, found, walk>>
  /\ UNCHANGED <<slots, gate, lease, index, windows, policy, channels,
                 cancelled>>

\* The fair groups, starting after the one a productive drain served last.
Rotation ==
  IF \E g \in cursor : InFair(g)
    THEN LET i == Position(CHOOSE g \in cursor : InFair(g))
         IN  SubSeq(fair, i + 1, Len(fair)) \o SubSeq(fair, 1, i)
    ELSE fair

fairSnapshot(d) ==
  /\ job[d] = "snapshot"
  /\ cursor' = {g \in cursor : InFair(g)}
  /\ IF fair = <<>>
       THEN FinishDrain(d)
       ELSE /\ Continue(d, "peek")
            /\ round' = [round EXCEPT ![d] = Rotation]
            /\ UNCHANGED <<pc, tomark, found, at, productive, served>>
  /\ UNCHANGED <<slots, gate, lease, fair, windows, policy, channels, cancelled>>

Turn(d) == round[d][at[d]]

\* On to the next group; after the last one another pass if this one granted,
\* and otherwise the drain ends.
NextTurn(d) ==
  CASE at[d] < Len(round[d]) ->
         /\ Continue(d, "peek")
         /\ at' = [at EXCEPT ![d] = @ + 1]
         /\ UNCHANGED <<pc, tomark, found, round, productive, served>>
    [] at[d] = Len(round[d]) /\ d \in productive ->
         /\ Continue(d, "peek")
         /\ at' = [at EXCEPT ![d] = 1]
         /\ productive' = productive \ {d}
         /\ UNCHANGED <<pc, tomark, found, round, served>>
    [] OTHER ->
         IF served[d] = {} THEN FinishDrain(d)
         ELSE Continue(d, "advance") /\ UNCHANGED <<pc, tomark, found, walk>>

\* The lock-free look at gateWaiting and hasQueued before a group is locked.
Peek(d) ==
  /\ job[d] = "peek"
  /\ IF InFair(Turn(d)) /\ Queue(Turn(d)) # {}
       THEN Continue(d, "serve") /\ UNCHANGED <<pc, tomark, found, walk>>
       ELSE NextTurn(d)
  /\ UNCHANGED <<slots, gate, lease, index, windows, policy, channels,
                 cancelled>>

\* Mutant: a drain drops the cancelled waiters it passes.
ServeNoneDropsCancelled(d, g) ==
  /\ ~WindowOpen(g) \/ First(g) = {}
  /\ queued' = queued \ cancelled
  /\ ahead' = [x \in Requests |-> ahead[x] \ cancelled]
  /\ Unmark(g)
  /\ NextTurn(d)
  /\ UNCHANGED <<inFlight, granted, gate, lease, cursor, windows, policy,
                 channels, cancelled>>

\* drainLimited(1) that stops on the group's own window, or finds only held
\* and cancelled waiters: it withdraws the group from the fair set.
ServeNone(d, g) ==
  /\ ~WindowOpen(g) \/ First(g) = {}
  /\ Unmark(g)
  /\ NextTurn(d)
  /\ UNCHANGED <<slots, gate, lease, cursor, windows, policy, channels,
                 cancelled>>

\* Mutants: the refused group leaves the fair set, or no timer is armed.
ServeRefusedUnmarks(d, g) ==
  /\ WindowOpen(g)
  /\ \E r \in First(g) : Blocked(r) /\ ArmFor(r)
  /\ Unmark(g)
  /\ NextTurn(d)
  /\ UNCHANGED <<slots, limit, gateGen, tokGen, gateInFlight, tokens, lease,
                 cursor, windows, policy, channels, cancelled>>
ServeRefusedUnarmed(d, g) ==
  /\ WindowOpen(g)
  /\ \E r \in First(g) : Blocked(r)
  /\ Mark(g)
  /\ NextTurn(d)
  /\ UNCHANGED <<slots, gate, lease,
                 cursor, windows, policy, channels, cancelled>>

\* drainLimited(1) refused by the gate: the group stays in the fair set.
ServeRefused(d, g) ==
  /\ WindowOpen(g)
  /\ \E r \in First(g) : Blocked(r) /\ ArmFor(r)
  /\ Mark(g)
  /\ NextTurn(d)
  /\ UNCHANGED <<slots, limit, gateGen, tokGen, gateInFlight, tokens, lease,
                 cursor, windows, policy, channels, cancelled>>

\* drainLimited(1) grants: the budget keeps the group in the fair set when
\* anybody is linked behind the granted waiter.
ServeGrants(d, g) ==
  /\ WindowOpen(g)
  /\ \E r \in First(g) :
       /\ ~Blocked(r)
       /\ Charge(r)
       /\ Unlink(r)
       /\ granted' = granted \cup {r}
       /\ IF \E x \in queued : r \in ahead[x] THEN UNCHANGED fair ELSE Unmark(g)
  /\ inFlight' = [inFlight EXCEPT ![g] = @ + 1]
  /\ productive' = productive \cup {d}
  /\ served' = [served EXCEPT ![d] = {g}]
  /\ Continue(d, "capacity")
  /\ UNCHANGED <<limit, gateGen, tokGen, wake, cursor, windows, policy,
                 channels, cancelled, pc, tomark, found, round, at>>

drainLimited(d) ==
  /\ job[d] = "serve"
  /\ \/ ServeNone(d, Turn(d))
     \/ ServeRefused(d, Turn(d))
     \/ ServeGrants(d, Turn(d))

\* A grant that fills the cap ends the drain.
CheckCapacity(d) ==
  /\ job[d] = "capacity"
  /\ IF ConcurrencyFull
       THEN Continue(d, "advance") /\ UNCHANGED <<pc, tomark, found, walk>>
       ELSE NextTurn(d)
  /\ UNCHANGED <<slots, gate, lease, index, windows, policy, channels,
                 cancelled>>

advanceFair(d) ==
  /\ job[d] = "advance"
  /\ cursor' = served[d]
  /\ FinishDrain(d)
  /\ UNCHANGED <<slots, gate, lease, fair, windows, policy, channels, cancelled>>

(***************************************************************************)
(* Timers.                                                                 *)
(***************************************************************************)
\* Mutant: the timer keeps counting after it fired.
TickUnarmed ==
  /\ limit.tokens > 0
  /\ tokens < limit.tokens \/ wake > 0
  /\ tokens' = IF tokens < limit.tokens THEN tokens + 1 ELSE tokens
  /\ wake' = wake - 1
  /\ due' = IF wake = 1 THEN due \cup {"gate"} ELSE due
  /\ UNCHANGED <<slots, limit, gateGen, tokGen, gateInFlight, lease, index,
                 paced, caps, policy, channels, cancelled, pc, drains>>

\* A tick of the clock: one token's refill, one tick of the gate's timer.
Tick ==
  /\ limit.tokens > 0
  /\ tokens < limit.tokens \/ wake > 0
  /\ tokens' = IF tokens < limit.tokens THEN tokens + 1 ELSE tokens
  /\ wake' = IF wake > 0 THEN wake - 1 ELSE 0
  /\ due' = IF wake = 1 THEN due \cup {"gate"} ELSE due
  /\ UNCHANGED <<slots, limit, gateGen, tokGen, gateInFlight, lease, index,
                 paced, caps, policy, channels, cancelled, pc, drains>>

\* drainProviderWake, the callback of the gate's timer.
GateWakes(d) ==
  /\ d \in Background /\ job[d] = "none"
  /\ "gate" \in due
  /\ due' = due \ {"gate"}
  /\ Continue(d, "count")
  /\ found' = found \cup {d}
  /\ UNCHANGED <<slots, gate, lease, index, paced, caps, policy, channels, cancelled,
                 pc, tomark, walk>>

\* A running request trips its group: a pacing window, and sendKick.
Pace(r) ==
  /\ pc[r] = "running" /\ GroupOf[r] \notin paced
  /\ Intervene("pace")
  /\ paced' = paced \cup {GroupOf[r]}
  /\ sendCurrent' = sendCurrent \ Members(GroupOf[r])
  /\ UNCHANGED <<slots, gate, lease, index, due, caps, hold, drained, owed, current,
                 timed,
                 cancelled, pc, drains>>

\* The pacing window ends, which is when the group's pacer fires.
PaceEnds(g) ==
  /\ g \in paced
  /\ paced' = paced \ {g}
  /\ due' = due \cup {g}
  /\ UNCHANGED <<slots, gate, lease, index, caps, policy, channels, cancelled, pc,
                 drains>>

\* The pacer's callback: kickSend, then drainAdmission.
PacerFires(d, g) ==
  /\ d \in Background /\ job[d] = "none"
  /\ g \in due
  /\ due' = due \ {g}
  /\ sendCurrent' = sendCurrent \ Members(g)
  /\ StartDrain(d, g)
  /\ UNCHANGED <<slots, gate, lease, index, paced, caps, policy, current, timed,
                 cancelled, pc>>

(***************************************************************************)
(* Operator calls.  Each ends in drainAll.                                 *)
(***************************************************************************)
DrainAll(d) ==
  /\ Continue(d, "mark")
  /\ tomark' = [tomark EXCEPT ![d] = Groups]

\* AddHold, ReplaceHold and RemoveHold: commitPolicyLocked, then drainAll.
SetHold(d, next) ==
  /\ d \in Background /\ job[d] = "none"
  /\ next # hold
  /\ IF next = "none" THEN UNCHANGED interventions ELSE Intervene("hold")
  /\ hold' = next
  /\ current' = {}
  /\ DrainAll(d)
  /\ UNCHANGED <<slots, gate, lease, index, windows, drained, owed,
                 sendCurrent,
                 timed, cancelled, pc, found, walk>>

\* The hold's Until passes; only the waiters' own timers notice.
HoldExpires ==
  /\ hold = "timed"
  /\ hold' = "none"
  /\ UNCHANGED <<slots, gate, lease, index, windows, drained, owed,
                 interventions,
                 channels, cancelled, pc, drains>>

\* DrainQueue publishes its ticket; the kick follows outside drainMu.
DrainQueue(d) ==
  /\ d \in Background /\ job[d] = "none"
  /\ Intervene("drain")
  /\ drained' = drained \cup {r \in Requests : pc[r] \in Waiting}
  /\ owed' = owed \cup queued
  /\ Continue(d, "kick")
  /\ UNCHANGED <<slots, gate, lease, index, windows, hold, channels, cancelled,
                 pc, tomark, found, walk>>

\* resetBuckets and the token bucket's reset.
ResizedTokens(next) ==
  CASE next.tokens = 0 -> 0
    [] next.tokens > 0 /\ limit.tokens = 0 -> next.tokens
    [] OTHER -> LET grown == IF next.tokens > limit.tokens
                               THEN tokens + next.tokens - limit.tokens
                               ELSE tokens
                IN  IF grown > next.tokens THEN next.tokens ELSE grown

UpdateThrottleClearing(d, next, clears) ==
  /\ d \in Background /\ job[d] = "none"
  /\ next # limit
  /\ Intervene("throttle")
  /\ limit' = next
  /\ wake' = 0
  /\ due' = due \ {"gate"}
  /\ tokens' = ResizedTokens(next)
  /\ tokGen' = IF (next.tokens > 0) # (limit.tokens > 0) \/ ~Active
                 THEN tokGen + 1 ELSE tokGen
  /\ gateInFlight' = IF clears THEN 0 ELSE gateInFlight
  /\ gateGen' = IF next.concurrency = 0 /\ next.tokens = 0 THEN gateGen + 1
                                                           ELSE gateGen
  /\ Continue(d, "kick")
  /\ UNCHANGED <<slots, lease, index, paced, caps, hold, drained, owed, channels,
                 cancelled, pc, tomark, found, walk>>

\* Mutant: every edit starts from an empty gate.
UpdateThrottleForgets(d, next) == UpdateThrottleClearing(d, next, TRUE)

\* UpdateThrottle: replace the policy in place, or clear or create the gate.
UpdateThrottle(d, next) ==
  UpdateThrottleClearing(d, next, next.concurrency = 0 /\ next.tokens = 0)

\* The policy kick that DrainQueue and kickThrottles close, then drainAll.
KickPolicy(d) ==
  /\ job[d] = "kick"
  /\ current' = {}
  /\ DrainAll(d)
  /\ UNCHANGED <<slots, gate, lease, index, windows, policy, sendCurrent, timed,
                 cancelled, pc, found, walk>>

(***************************************************************************)
(* The specification.                                                      *)
(***************************************************************************)
RequestStep(r) ==
  \/ DrainCheck(r) \/ SnapshotKicks(r) \/ HoldRead(r) \/ ReadGrant(r) \/ Wake(r)
  \/ UntilFires(r) \/ WaitCancelled(r)
  \/ \E actual \in Actual : ReleaseSettles(r, actual)
  \/ release(r)

DrainStep(d) ==
  \/ \E g \in Groups : MarkGroup(d, g)
  \/ CheckProvider(d) \/ fairSnapshot(d) \/ Peek(d) \/ drainLimited(d)
  \/ CheckCapacity(d) \/ advanceFair(d) \/ KickPolicy(d)

Arrive(r) ==
  \/ \E next \in Caps : groupForLocked(r, next)
  \/ AcquireFast(r) \/ AcquireQueues(r) \/ AcquireRefused(r)

GiveUp(r) == WaitExpires(r) \/ Abort(r) \/ Pace(r)

Operate(d) ==
  \/ \E next \in {"none", "manual", "timed"} : SetHold(d, next)
  \/ DrainQueue(d)
  \/ \E next \in Limits : UpdateThrottle(d, next)

TimerStep ==
  \/ Tick
  \/ \E d \in Drainers : GateWakes(d)
  \/ \E g \in Groups : PaceEnds(g)
  \/ \E d \in Drainers, g \in Groups : PacerFires(d, g)

\* Every client has gone and nothing is left to run.
Finished ==
  /\ \A r \in Requests : pc[r] = "gone"
  /\ UNCHANGED vars

Next ==
  \/ \E r \in Requests : Arrive(r) \/ GiveUp(r) \/ RequestStep(r)
  \/ \E d \in Drainers : DrainStep(d) \/ Operate(d)
  \/ TimerStep
  \/ HoldExpires
  \/ Finished

Spec == Init /\ [][Next]_vars

\* Goroutines run, timers fire and an admitted request ends: its per-send
\* deadline sees to that.  Nobody has to arrive, give up or call the operator
\* API.
Fairness ==
  /\ \A r \in Requests : WF_vars(RequestStep(r))
  /\ \A d \in Drainers : WF_vars(DrainStep(d))
  /\ WF_vars(Tick)
  /\ WF_vars(\E d \in Drainers : GateWakes(d))
  /\ \A g \in Groups :
       /\ WF_vars(PaceEnds(g))
       /\ WF_vars(\E d \in Drainers : PacerFires(d, g))

FairSpec == Spec /\ Fairness

(***************************************************************************)
(* Properties.                                                             *)
(***************************************************************************)
\* Every variable has its type.
TypeOK ==
  /\ inFlight \in [Groups -> Nat]
  /\ queued \subseteq Requests /\ ahead \in [Requests -> SUBSET Requests]
  /\ granted \subseteq Requests
  /\ limit \in Limit /\ gateGen \in Nat \ {0} /\ tokGen \in Nat
  /\ gateInFlight \in Nat /\ tokens \in Int /\ wake \in Nat
  /\ leaseGen \in [Requests -> Nat] /\ reserved \in [Requests -> Nat]
  /\ leaseTok \in [Requests -> Nat]
  /\ fair \in Seq(Groups) /\ cursor \subseteq Groups
  /\ paced \subseteq Groups /\ due \subseteq Groups \cup {"gate"}
  /\ cap \in [Groups -> Nat] /\ raised \subseteq Groups
  /\ hold \in {"none", "manual", "timed"}
  /\ drained \subseteq Requests /\ owed \subseteq Requests
  /\ interventions \in Nat
  /\ current \subseteq Requests /\ sendCurrent \subseteq Requests
  /\ timed \subseteq Requests /\ cancelled \subseteq Requests
  /\ pc \in [Requests -> Points]
  /\ job \in [Drainers -> Jobs] /\ tomark \in [Drainers -> SUBSET Groups]
  /\ found \subseteq Drainers /\ round \in [Drainers -> Seq(Groups)]
  /\ at \in [Drainers -> Nat] /\ productive \subseteq Drainers
  /\ served \in [Drainers -> SUBSET Groups]

\* Whoever holds a slot: it runs, it has settled but not yet released, or its
\* grant lies unread in its channel.
Holds(r) == r \in granted \/ pc[r] \in {"running", "settled"}

\* A group's inFlight counts exactly the requests that hold one of its slots:
\* a grant racing a cancellation, a timeout or a drain neither leaks a slot
\* nor frees one twice (drainLimited, removeWaiter, release).
SlotsExact ==
  \A g \in Groups :
    inFlight[g] = Cardinality({r \in Members(g) : Holds(r)})

\* The gate's inFlight counts exactly the leases taken from this very gate
\* object, through every clear and reinstall of the limit (tryAdmit, settle).
GateExact ==
  gateInFlight = Cardinality({r \in Requests : leaseGen[r] = gateGen})

\* A waiter is either linked in its queue or granted, never both and never
\* neither: removeWaiter tells a grant from a cancellation by membership.
GrantOrQueued ==
  \A r \in Requests :
    /\ pc[r] \in Waiting <=> r \in queued \cup granted
    /\ ~(r \in queued /\ r \in granted)

\* The waiter is about to look at the queue again by itself.
Awake(r) ==
  \/ pc[r] \in Waiting \ Parks
  \/ pc[r] \in Parks /\ (r \notin current \/ r \in cancelled)
  \/ pc[r] = "parked" /\ r \notin sendCurrent
  \/ pc[r] = "heldPark" /\ r \in timed /\ hold # "timed"

\* Some drain is running, or is bound to run without anybody's help.
DrainPending ==
  \/ \E d \in Drainers : job[d] # "none"
  \/ due # {}
  \/ \E r \in Requests : pc[r] = "settled" \/ Awake(r)

\* The group's cap was raised by a request that took no drain along, and a slot of
\* the group is out, whose release will drain it.
RaisedUnseen(g) == g \in raised /\ inFlight[g] > 0

\* No lost wakeup: when no drain runs or is due, nobody is left parked whom
\* its group's window, the hold policy and the gate would all let in.  Two waiters
\* sleep on although they fit: behind a waiter that a hold keeps at the head, when
\* the one between them left, until the gate's timer, as removeWaiter drains for a new
\* head alone; and where a request that was turned away has raised the cap, until
\* a slot of the group is released.
NoLostWakeup ==
  \/ DrainPending
  \/ \A g \in Groups : WindowOpen(g) =>
       \A r \in First(g) : \/ Blocked(r) \/ (wake > 0 /\ ahead[r] # {})
                           \/ RaisedUnseen(g)

\* A waiter that only the token bucket keeps out has a timer to wait for: no
\* release is bound to come, so without it nobody would look again.
BucketWaitHasTimer ==
  \/ DrainPending \/ wake > 0
  \/ \A g \in Groups :
       WindowOpen(g) => \A r \in First(g) : \/ ~TokensShort(r) \/ ConcurrencyFull
                                            \/ RaisedUnseen(g)

\* Whoever is parked in acquire is let in by a drain that runs, is due or has a timer.
WaitersWoken == NoLostWakeup /\ BucketWaitHasTimer

\* The detailed scheduler implements the slots it promises: with real holders
\* counted instead of the counters the code keeps, no grant ever exceeds the caps in
\* force when it is made.
Promise == INSTANCE Slots WITH
  holders <- {r \in Requests : Holds(r)},
  leased <- {r \in Requests : leaseGen[r] = gateGen},
  groupCap <- cap,
  gateCap <- limit.concurrency

ImplementsSlots == Promise!Spec

\* Starvation freedom: a queued waiter is granted or leaves, however many
\* clients of busier keys keep coming back (fairSnapshot, advanceFair and the
\* fast path's look at fairCount).
Served(r) == r \notin queued
EveryWaiterServed == \A r \in Requests : []<>Served(r)

\* scheduler_admission.go says of its drain check that an operator drain
\* releases this waiter before it can be granted: a waiter still queued when
\* the drain was issued does not go on to run.
DrainBeatsGrant ==
  [][\A r \in owed : ~(pc[r] \in Parks /\ pc'[r] = "running")]_vars

\* removeWaiter says that a non-head removal cannot change which waiter a
\* drain reaches first.
NonHeadRemovalKeepsFirst ==
  [][\A r \in queued :
       r \notin queued' /\ r \notin granted' /\ ahead[r] # {}
         => First(GroupOf[r])' = First(GroupOf[r])]_vars
=============================================================================
