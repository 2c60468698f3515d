----------------------------- MODULE GroupTable -----------------------------
(***************************************************************************)
(* The scheduler's bounded table of groups, one per provider and key       *)
(* (internal/scheduler/scheduler_groups.go, pacingLRU of                   *)
(* scheduler_pacing.go, the lookup loop of AcquireWith).                   *)
(*                                                                         *)
(* A lookup holds s.mu and may evict idle groups; admission, cancellation  *)
(* and release hold only the group's own lock, so they run between any two *)
(* sections of an eviction and after a lookup that is already stale.       *)
(***************************************************************************)
EXTENDS Naturals, Sequences, FiniteSets, SequencesExt

CONSTANTS
    Requests, Keys,
    KeyOf,                  \* the key of each request
    ProviderOf,             \* the provider each request attributes, or None
    GroupCap,               \* groupCap
    PacingCap,              \* maxSchedulerPacingStates
    CapOf,                  \* the maxConcurrent each request brings, 0 = unlimited
    MaxGroups, MaxPace      \* bounds: group objects made, pacing values written

None == "none"
Objects == 1..MaxGroups
Providers == {ProviderOf[r] : r \in Requests} \ {None}

VARIABLES
    groups,                 \* s.groups: per key an object, or 0
    obj,                    \* per object: its fields
    made,                   \* objects made so far
    idle,                   \* the idle order, least recent first
    pacing,                 \* the pacing LRU, least recent first
    linked,                 \* providerIndex.groups, per provider
    fairQueued,             \* providerIndex.queued
    smu, cand,              \* who holds s.mu; the candidate of its eviction
    pc, at,                 \* per request: where it is, the object it looked up
    paced, forgotten        \* history: the last pacing of a key; keys the LRU dropped

vars == <<groups, obj, made, idle, pacing, linked, fairQueued, smu, cand, pc, at, paced, forgotten>>

Fresh(k) == [key |-> k, retired |-> FALSE, slots |-> {}, queue |-> <<>>, pace |-> 0,
             max |-> 0, provider |-> None]

Init ==
    /\ groups = [k \in Keys |-> 0] /\ obj = [o \in Objects |-> Fresh(None)] /\ made = 0
    /\ idle = <<>> /\ pacing = <<>>
    /\ linked = [p \in Providers |-> {}] /\ fairQueued = [p \in Providers |-> 0]
    /\ smu = None /\ cand = 0
    /\ pc = [r \in Requests |-> "new"] /\ at = [r \in Requests |-> 0]
    /\ paced = [k \in Keys |-> 0] /\ forgotten = {}

Live == {groups[k] : k \in Keys} \ {0}
Busy(o) == obj[o].slots # {} \/ obj[o].queue # <<>>
Listed(o) == \E i \in DOMAIN idle : idle[i] = o
idlePushLocked(o) == IF Listed(o) THEN idle ELSE Append(idle, o)
idleUnlinkLocked(o) == SelectSeq(idle, LAMBDA x : x # o)
Goes(r, p) == pc' = [pc EXCEPT ![r] = p]

---------------------------------------------------------------------------
(* AcquireWith, under s.mu.                                                *)

Lookup(r) ==
    /\ pc[r] = "new" /\ smu = None
    /\ smu' = r
    /\ Goes(r, IF groups[KeyOf[r]] = 0 THEN "room" ELSE "group")
    /\ UNCHANGED <<groups, obj, made, idle, pacing, linked, fairQueued, cand, at, paced, forgotten>>

\* makeGroupRoomLocked: the least recently idle group, while the table is full.
makeGroupRoomLocked(r) ==
    /\ pc[r] = "room" /\ smu = r
    /\ \/ /\ Cardinality(Live) < GroupCap
          /\ Goes(r, "group") /\ UNCHANGED <<idle, cand, smu>>
       \/ /\ Cardinality(Live) >= GroupCap /\ idle = <<>>
          /\ Goes(r, "refused") /\ smu' = None /\ UNCHANGED <<idle, cand>>
       \/ /\ Cardinality(Live) >= GroupCap /\ idle # <<>>
          /\ cand' = Head(idle) /\ idle' = Tail(idle)
          /\ Goes(r, "evict") /\ UNCHANGED smu
    /\ UNCHANGED <<groups, obj, made, pacing, linked, fairQueued, at, paced, forgotten>>

\* MutantTrustsIdleList: the candidate is not looked at again under its own lock.
MutantTrustsIdleList(r) ==
    /\ pc[r] = "evict" /\ smu = r
    /\ obj' = [obj EXCEPT ![cand].retired = TRUE]
    /\ Goes(r, "detach") /\ UNCHANGED cand
    /\ UNCHANGED <<groups, made, idle, pacing, linked, fairQueued, smu, at, paced, forgotten>>

\* evictIdleGroupLocked: the re-check under g.mu is the authority.
evictIdleGroupLocked(r) ==
    /\ pc[r] = "evict" /\ smu = r
    /\ IF obj[cand].retired \/ Busy(cand)
         THEN Goes(r, "room") /\ cand' = 0 /\ UNCHANGED obj
         ELSE /\ obj' = [obj EXCEPT ![cand].retired = TRUE]
              /\ Goes(r, "detach") /\ UNCHANGED cand
    /\ UNCHANGED <<groups, made, idle, pacing, linked, fairQueued, smu, at, paced, forgotten>>

\* pacingLRU.put: the newest, the oldest falls out past the bound.
put(k, v) == LET s == Append(SelectSeq(pacing, LAMBDA e : e.key # k), [key |-> k, pace |-> v])
             IN  IF Len(s) > PacingCap THEN Tail(s) ELSE s

\* The rest of the eviction: a release may have listed the group again meanwhile.
detachProviderLocked(r) ==
    LET g == obj[cand] IN
    /\ pc[r] = "detach" /\ smu = r
    /\ idle' = idleUnlinkLocked(cand)
    /\ groups' = [groups EXCEPT ![g.key] = 0]
    /\ linked' = [p \in Providers |-> linked[p] \ {cand}]
    /\ pacing' = IF g.pace = 0 THEN pacing ELSE put(g.key, g.pace)
    /\ forgotten' = forgotten \union ({pacing[i].key : i \in DOMAIN pacing} \ {pacing'[i].key : i \in DOMAIN pacing'})
    /\ cand' = 0 /\ Goes(r, "room")
    /\ UNCHANGED <<obj, made, fairQueued, smu, at, paced>>

\* attributeProviderLocked: the first provider named stays.
Attributed(g, r) == IF g.provider = None THEN [g EXCEPT !.provider = ProviderOf[r]] ELSE g
Attributes(g, r) == g.provider = None /\ ProviderOf[r] # None

\* groupForLocked, which takes the pacing an evicted group left and installs the cap
\* this request brings, and the attribution.
groupForLocked(r) ==
    LET k == KeyOf[r]
        o == IF groups[k] = 0 THEN made + 1 ELSE groups[k]
        left == SelectSeq(pacing, LAMBDA e : e.key = k)
        g == IF groups[k] # 0 THEN obj[o]
             ELSE [Fresh(k) EXCEPT !.pace = IF left = <<>> THEN 0 ELSE left[1].pace]
    IN  /\ pc[r] = "group" /\ smu = r
        /\ groups[k] = 0 => made < MaxGroups
        /\ made' = IF groups[k] = 0 THEN made + 1 ELSE made
        /\ groups' = [groups EXCEPT ![k] = o]
        /\ obj' = [obj EXCEPT ![o] = [Attributed(g, r) EXCEPT !.max = CapOf[r]]]
        /\ idle' = IF groups[k] = 0 THEN Append(idle, o) ELSE idle
        /\ pacing' = IF groups[k] = 0 THEN SelectSeq(pacing, LAMBDA e : e.key # k) ELSE pacing
        /\ linked' = IF Attributes(g, r) THEN [linked EXCEPT ![ProviderOf[r]] = @ \union {o}] ELSE linked
        /\ fairQueued' = IF Attributes(g, r) /\ g.queue # <<>>
                         THEN [fairQueued EXCEPT ![ProviderOf[r]] = @ + 1] ELSE fairQueued
        /\ at' = [at EXCEPT ![r] = o]
        /\ smu' = None /\ Goes(r, "acquire")
        /\ UNCHANGED <<cand, paced, forgotten>>

---------------------------------------------------------------------------
(* The group's own sections.                                               *)

\* syncQueueLocked moves the provider's count on the edge only.
syncQueueLocked(o, q) ==
    LET p == obj[o].provider
        was == obj[o].queue # <<>>
        is == q # <<>>
    IN  fairQueued' = CASE p = None \/ was = is -> fairQueued
                        [] ~was /\ is -> [fairQueued EXCEPT ![p] = @ + 1]
                        [] OTHER -> [fairQueued EXCEPT ![p] = @ - 1]

\* markGroupIdleLocked and markGroupBusyLocked.
Marked(o, slots, q) ==
    IF slots # {} \/ q # <<>> THEN idleUnlinkLocked(o)
    ELSE IF obj[o].retired THEN idle ELSE idlePushLocked(o)

\* A section that leaves object o as g, its counts and lists kept up.
Works(o, g) ==
    /\ obj' = [obj EXCEPT ![o] = g]
    /\ idle' = Marked(o, g.slots, g.queue)
    /\ syncQueueLocked(o, g.queue)

\* The drain that follows: as many waiters as the cap lets in, oldest first.
Drained(g) ==
    LET n == CHOOSE k \in 0..Len(g.queue) :
               /\ g.max = 0 \/ k = 0 \/ Cardinality(g.slots) + k <= g.max
               /\ k = Len(g.queue) \/ (g.max > 0 /\ Cardinality(g.slots) + k >= g.max)
    IN  [g EXCEPT !.slots = @ \union {g.queue[i] : i \in 1..n}, !.queue = SubSeq(@, n + 1, Len(@))]

acquire(r) ==
    LET o == at[r]
        g == obj[o]
        free == (g.max = 0 \/ Cardinality(g.slots) < g.max) /\ g.queue = <<>>
    IN  /\ pc[r] = "acquire"
        /\ IF g.retired
             THEN Goes(r, "new") /\ UNCHANGED <<obj, idle, fairQueued>>
             ELSE IF free
               THEN Works(o, [g EXCEPT !.slots = @ \union {r}]) /\ Goes(r, "running")
               ELSE Works(o, Drained([g EXCEPT !.queue = Append(@, r)])) /\ Goes(r, "queued")
        /\ UNCHANGED <<groups, made, pacing, linked, smu, cand, at, paced, forgotten>>

\* Trip and FailSend write the pacing of the group, by a request that holds a slot.
Trip(r) ==
    LET o == groups[KeyOf[r]] IN
    /\ pc[r] = "running" /\ smu = None /\ paced[KeyOf[r]] < MaxPace
    /\ obj' = [obj EXCEPT ![o].pace = paced[KeyOf[r]] + 1]
    /\ paced' = [paced EXCEPT ![KeyOf[r]] = @ + 1]
    /\ forgotten' = forgotten \ {KeyOf[r]}
    /\ UNCHANGED <<groups, made, idle, pacing, linked, fairQueued, smu, cand, pc, at>>

\* The slot of a request that leaves goes to whoever waits, as far as the cap allows.
Release(r) ==
    /\ pc[r] = "running"
    /\ Works(at[r], Drained([obj[at[r]] EXCEPT !.slots = @ \ {r}]))
    /\ pc' = [pc EXCEPT ![r] = "done"]
    /\ UNCHANGED <<groups, made, pacing, linked, smu, cand, at, paced, forgotten>>

TakeGrant(r) ==
    /\ pc[r] = "queued" /\ r \in obj[at[r]].slots
    /\ Goes(r, "running")
    /\ UNCHANGED <<groups, obj, made, idle, pacing, linked, fairQueued, smu, cand, at, paced, forgotten>>

\* A cancelled waiter leaves the queue, or gives back the slot it was just granted.
removeWaiter(r) ==
    /\ pc[r] = "queued"
    /\ Works(at[r], Drained([obj[at[r]] EXCEPT !.slots = @ \ {r},
                                             !.queue = SelectSeq(@, LAMBDA x : x # r)]))
    /\ Goes(r, "done")
    /\ UNCHANGED <<groups, made, pacing, linked, smu, cand, at, paced, forgotten>>

Again(r) ==
    /\ pc[r] \in {"done", "refused"} /\ made < MaxGroups
    /\ Goes(r, "new") /\ at' = [at EXCEPT ![r] = 0]
    /\ UNCHANGED <<groups, obj, made, idle, pacing, linked, fairQueued, smu, cand, paced, forgotten>>

Next ==
    \E r \in Requests :
        \/ Lookup(r) \/ makeGroupRoomLocked(r) \/ evictIdleGroupLocked(r) \/ detachProviderLocked(r)
        \/ groupForLocked(r) \/ acquire(r) \/ Trip(r) \/ Release(r) \/ TakeGrant(r)
        \/ removeWaiter(r) \/ Again(r)

Spec == Init /\ [][Next]_vars

---------------------------------------------------------------------------
(* Properties.                                                             *)

\* Work is only ever on a group of the table: a lookup that an eviction overtook
\* finds its group retired, and an eviction that work overtook refuses.
NoWorkOnRetired == \A o \in Objects : obj[o].retired => ~Busy(o)

\* No group is stranded: a group of the table is in the idle order exactly when it
\* has no work, so a full table always finds what it may reclaim.
IdleIsListed ==
    smu = None => \A o \in Objects :
        Cardinality({i \in DOMAIN idle : idle[i] = o}) = IF o \in Live /\ ~Busy(o) THEN 1 ELSE 0

\* The pacing of a key outlives the eviction of its group, within the LRU's bound.
PacingSurvives ==
    \A k \in Keys : k \notin forgotten =>
        IF groups[k] # 0 THEN obj[groups[k]].pace = paced[k]
        ELSE paced[k] = 0 \/ \E i \in DOMAIN pacing : pacing[i] = [key |-> k, pace |-> paced[k]]

\* The provider's index holds the groups attributed to it, and counts the queued.
IndexExact ==
    smu = None => \A p \in Providers :
        /\ linked[p] = {o \in Live : obj[o].provider = p}
        /\ fairQueued[p] = Cardinality({o \in linked[p] : obj[o].queue # <<>>})

TableSound ==
    /\ NoWorkOnRetired /\ IdleIsListed /\ PacingSurvives /\ IndexExact
    /\ Cardinality(Live) <= GroupCap
=============================================================================
