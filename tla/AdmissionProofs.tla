--------------------------- MODULE AdmissionProofs ---------------------------
(***************************************************************************)
(* Proofs about Admission: the slot and lease counters are exact, the      *)
(* scheduler implements Slots, and nobody is left parked whom it would let *)
(* in, for any clients, groups, caps and limits.                           *)
(*                                                                         *)
(* Slots come first. A step has one of a few shapes where they are         *)
(* concerned: a request joins or leaves a queue, takes a slot, reads its   *)
(* grant, settles its lease, frees its slot or gives an unread grant back; *)
(* the operator edits the limit; anything else moves no slot. The          *)
(* invariant is proved once per shape.                                     *)
(***************************************************************************)
EXTENDS Admission, FiniteSetTheorems, WellFoundedInduction, TLAPS

counted == <<inFlight, queued, granted, gateInFlight, gateGen, leaseGen>>

Draining == {"enqueued", "expired", "redrain", "leaving"}

SlotTypes ==
  /\ inFlight \in [Groups -> Nat]
  /\ queued \subseteq Requests /\ granted \subseteq Requests
  /\ gateInFlight \in Nat /\ gateGen \in Nat /\ gateGen # 0
  /\ leaseGen \in [Requests -> Nat] /\ limit \in Limit
  /\ pc \in [Requests -> Points]
  /\ job \in [Drainers -> Jobs]

\* A lease belongs to a request that was granted and has not settled, and
\* comes from the installed gate or an older one.
LeasesHeld ==
  \A r \in Requests :
    /\ leaseGen[r] # 0 => r \in granted \/ pc[r] = "running"
    /\ leaseGen[r] <= gateGen
    /\ leaseGen[r] = gateGen => Active

\* A request that runs a drain stands at a point that waits for its end.
DrainersStand == \A r \in Requests : job[r] # "none" => pc[r] \in Draining

SlotInv ==
  /\ GrantOrQueued
  /\ LeasesHeld
  /\ SlotsExact
  /\ GateExact

(***************************************************************************)
(* The shapes of a step.                                                   *)
(***************************************************************************)
PhaseKept(r) ==
  /\ pc[r] \in Waiting <=> pc'[r] \in Waiting
  /\ pc[r] = "running" <=> pc'[r] = "running"
  /\ pc[r] = "settled" <=> pc'[r] = "settled"

OthersKept(r) == \A x \in Requests : x # r => PhaseKept(x)

Still == UNCHANGED <<counted, limit>> /\ \A r \in Requests : PhaseKept(r)

Over == {"idle", "arriving", "gone", "leaving"}

Joins(r) ==
  /\ pc[r] \in Over /\ pc'[r] \in Waiting
  /\ queued' = queued \cup {r}
  /\ UNCHANGED <<inFlight, granted, gateInFlight, gateGen, leaseGen, limit>>
  /\ OthersKept(r)

Leaves(r) ==
  /\ pc[r] \in Waiting /\ pc'[r] \in Over /\ r \in queued
  /\ queued' = queued \ {r}
  /\ UNCHANGED <<inFlight, granted, gateInFlight, gateGen, leaseGen, limit>>
  /\ OthersKept(r)

Reads(r) ==
  /\ pc[r] \in Waiting /\ pc'[r] = "running" /\ r \in granted
  /\ granted' = granted \ {r}
  /\ UNCHANGED <<inFlight, queued, gateInFlight, gateGen, leaseGen, limit>>
  /\ OthersKept(r)

LeaseTaken(r) ==
  IF Active
    THEN /\ gateInFlight' = gateInFlight + 1
         /\ leaseGen' = [leaseGen EXCEPT ![r] = gateGen]
    ELSE UNCHANGED <<gateInFlight, leaseGen>>

Takes(r) ==
  /\ \/ /\ pc[r] \in Over /\ pc'[r] = "running"
        /\ UNCHANGED <<queued, granted>>
     \/ /\ r \in queued /\ PhaseKept(r)
        /\ queued' = queued \ {r} /\ granted' = granted \cup {r}
  /\ WindowOpen(GroupOf[r]) /\ ~ConcurrencyFull
  /\ inFlight' = [inFlight EXCEPT ![GroupOf[r]] = @ + 1]
  /\ LeaseTaken(r)
  /\ UNCHANGED <<gateGen, limit>>
  /\ OthersKept(r)

LeaseSettled(r) ==
  /\ IF leaseGen[r] = gateGen
       THEN gateInFlight' = IF gateInFlight > 0 THEN gateInFlight - 1 ELSE 0
       ELSE UNCHANGED gateInFlight
  /\ leaseGen' = [leaseGen EXCEPT ![r] = 0]

SlotFreed(r) ==
  inFlight' = [inFlight EXCEPT ![GroupOf[r]] = IF @ > 0 THEN @ - 1 ELSE 0]

Ends(r) ==
  /\ pc[r] = "running" /\ pc'[r] = "settled"
  /\ LeaseSettled(r)
  /\ UNCHANGED <<inFlight, queued, granted, gateGen, limit>>
  /\ OthersKept(r)

Frees(r) ==
  /\ pc[r] = "settled" /\ pc'[r] \in Over
  /\ SlotFreed(r)
  /\ UNCHANGED <<queued, granted, gateInFlight, gateGen, leaseGen, limit>>
  /\ OthersKept(r)

GivesBack(r) ==
  /\ pc[r] \in Waiting /\ pc'[r] \in Over /\ r \notin queued
  /\ granted' = granted \ {r}
  /\ LeaseSettled(r) /\ SlotFreed(r)
  /\ UNCHANGED <<queued, gateGen, limit>>
  /\ OthersKept(r)

Inactive(lim) == lim.concurrency = 0 /\ lim.tokens = 0

Edits ==
  /\ IF Inactive(limit')
       THEN gateGen' = gateGen + 1 /\ gateInFlight' = 0
       ELSE UNCHANGED <<gateGen, gateInFlight>>
  /\ UNCHANGED <<inFlight, queued, granted, leaseGen, pc>>

RequestShape(r) ==
  \/ Joins(r) \/ Leaves(r) \/ Reads(r) \/ Takes(r) \/ Ends(r) \/ Frees(r)
  \/ GivesBack(r)

Shape == Still \/ Edits \/ \E r \in Requests : RequestShape(r)

(***************************************************************************)
(* What each shape keeps.                                                  *)
(***************************************************************************)
\* A shape keeps every waiter either queued or granted.
LEMMA MembershipStep ==
  ASSUME SlotTypes, GrantOrQueued, Shape
  PROVE  GrantOrQueued'
<1>1. CASE Still
  BY <1>1 DEF Still, counted, PhaseKept, GrantOrQueued
<1>2. CASE Edits
  BY <1>2 DEF Edits, GrantOrQueued
<1>3. ASSUME NEW r \in Requests, RequestShape(r)
      PROVE  GrantOrQueued'
  <2>1. \A x \in Requests : x # r => PhaseKept(x)
    BY <1>3 DEF RequestShape, Joins, Leaves, Reads, Takes, Ends, Frees,
      GivesBack, OthersKept
  <2>2. /\ pc'[r] \in Waiting <=> r \in queued' \cup granted'
        /\ ~(r \in queued' /\ r \in granted')
    <3> USE DEF Waiting, Parks, Over
    <3>1. CASE Joins(r) BY <3>1 DEF Joins, GrantOrQueued
    <3>2. CASE Leaves(r) BY <3>2 DEF Leaves, GrantOrQueued
    <3>3. CASE Reads(r) BY <3>3 DEF Reads, GrantOrQueued
    <3>4. CASE Takes(r) BY <3>4 DEF Takes, PhaseKept, GrantOrQueued
    <3>5. CASE Ends(r) BY <3>5 DEF Ends, GrantOrQueued
    <3>6. CASE Frees(r) BY <3>6 DEF Frees, GrantOrQueued
    <3>7. CASE GivesBack(r) BY <3>7 DEF GivesBack, GrantOrQueued
    <3> QED BY <1>3, <3>1, <3>2, <3>3, <3>4, <3>5, <3>6, <3>7 DEF RequestShape
  <2>3. \A x \in Requests : x # r => /\ x \in queued' <=> x \in queued
                                     /\ x \in granted' <=> x \in granted
    BY <1>3 DEF RequestShape, Joins, Leaves, Reads, Takes, Ends, Frees,
      GivesBack
  <2>4. ASSUME NEW x \in Requests, x # r
        PROVE  /\ pc'[x] \in Waiting <=> x \in queued' \cup granted'
               /\ ~(x \in queued' /\ x \in granted')
    BY <2>1, <2>3, <2>4 DEF PhaseKept, GrantOrQueued
  <2> QED BY <2>2, <2>4 DEF GrantOrQueued
<1> QED BY <1>1, <1>2, <1>3 DEF Shape

\* A shape keeps every lease with a holder and no newer than its gate.
LEMMA LeasesStep ==
  ASSUME SlotTypes, SlotTypes', GrantOrQueued, LeasesHeld, Shape
  PROVE  LeasesHeld'
<1>1. CASE Still
  BY <1>1 DEF Still, counted, PhaseKept, LeasesHeld, Active
<1>2. CASE Edits
  <2>1. CASE Inactive(limit')
    <3>1. gateGen' = gateGen + 1 /\ UNCHANGED <<granted, leaseGen, pc>>
      BY <1>2, <2>1 DEF Edits
    <3> QED BY <3>1 DEF LeasesHeld, SlotTypes
  <2>2. CASE ~Inactive(limit')
    <3>1. UNCHANGED <<gateGen, granted, leaseGen, pc>>
      BY <1>2, <2>2 DEF Edits
    <3>2. ASSUME NEW r \in Requests, leaseGen[r] = gateGen PROVE Active'
      BY <3>2, <2>2 DEF Inactive, Active, SlotTypes, Limit
    <3> QED BY <3>1, <3>2 DEF LeasesHeld
  <2> QED BY <2>1, <2>2
<1>3. ASSUME NEW r \in Requests, RequestShape(r)
      PROVE  LeasesHeld'
  <2>1. \A x \in Requests : x # r =>
          /\ PhaseKept(x)
          /\ x \in granted' <=> x \in granted
          /\ leaseGen'[x] = leaseGen[x]
    BY <1>3 DEF RequestShape, Joins, Leaves, Reads, Takes, Ends, Frees,
      GivesBack, OthersKept, LeaseTaken, LeaseSettled, SlotTypes
  <2>2. /\ UNCHANGED <<gateGen, limit>>
        /\ Active' <=> Active
    BY <1>3 DEF RequestShape, Joins, Leaves, Reads, Takes, Ends, Frees,
      GivesBack, Active
  <2>3. /\ leaseGen'[r] # 0 => r \in granted' \/ pc'[r] = "running"
        /\ leaseGen'[r] <= gateGen
        /\ leaseGen'[r] = gateGen => Active
    <3> USE DEF SlotTypes, LeasesHeld, Waiting, Parks, Over
    <3>1. CASE Joins(r) BY <3>1 DEF Joins
    <3>2. CASE Leaves(r) BY <3>2 DEF Leaves, GrantOrQueued
    <3>3. CASE Reads(r) BY <3>3 DEF Reads
    <3>4. CASE Takes(r) BY <3>4 DEF Takes, PhaseKept, LeaseTaken
    <3>5. CASE Ends(r) BY <3>5 DEF Ends, LeaseSettled
    <3>6. CASE Frees(r) BY <3>6 DEF Frees, GrantOrQueued
    <3>7. CASE GivesBack(r) BY <3>7 DEF GivesBack, LeaseSettled
    <3> QED BY <1>3, <3>1, <3>2, <3>3, <3>4, <3>5, <3>6, <3>7 DEF RequestShape
  <2>4. ASSUME NEW x \in Requests, x # r
        PROVE  /\ leaseGen'[x] # 0 => x \in granted' \/ pc'[x] = "running"
               /\ leaseGen'[x] <= gateGen
               /\ leaseGen'[x] = gateGen => Active
    BY <2>1, <2>4 DEF PhaseKept, LeasesHeld
  <2> QED BY <2>2, <2>3, <2>4 DEF LeasesHeld
<1> QED BY <1>1, <1>2, <1>3 DEF Shape

Holders(g) == {r \in Members(g) : Holds(r)}
Leases == {r \in Requests : leaseGen[r] = gateGen}

\* The sets that the counters count are finite.
LEMMA CountedFinite ==
  /\ \A g : IsFiniteSet(Holders(g))
  /\ IsFiniteSet(Leases)
<1>1. \A g : Holders(g) \subseteq Requests
  BY DEF Holders, Members
<1>2. Leases \subseteq Requests
  BY DEF Leases
<1> QED BY <1>1, <1>2, FS_Subset, AdmissionAssumption

\* A request outside the step neither takes nor gives back a slot.
LEMMA OthersHold ==
  ASSUME NEW r \in Requests, RequestShape(r), NEW x \in Requests, x # r
  PROVE  Holds(x)' <=> Holds(x)
<1>1. PhaseKept(x)
  BY DEF RequestShape, Joins, Leaves, Reads, Takes, Ends, Frees, GivesBack,
    OthersKept
<1>2. x \in granted' <=> x \in granted
  BY DEF RequestShape, Joins, Leaves, Reads, Takes, Ends, Frees, GivesBack
<1> QED BY <1>1, <1>2 DEF PhaseKept, Holds

\* Whether the request of a step holds a slot before and after it.
LEMMA OwnHold ==
  ASSUME SlotTypes, GrantOrQueued, NEW r \in Requests, RequestShape(r)
  PROVE  \/ UNCHANGED inFlight /\ (Holds(r)' <=> Holds(r))
         \/ Takes(r) /\ ~Holds(r) /\ Holds(r)'
         \/ SlotFreed(r) /\ Holds(r) /\ ~Holds(r)'
<1> USE DEF Holds, Waiting, Parks, Over, GrantOrQueued
<1>1. CASE Joins(r) BY <1>1 DEF Joins
<1>2. CASE Leaves(r) BY <1>2 DEF Leaves
<1>3. CASE Reads(r) BY <1>3 DEF Reads
<1>4. CASE Takes(r) BY <1>4 DEF Takes, PhaseKept
<1>5. CASE Ends(r) BY <1>5 DEF Ends
<1>6. CASE Frees(r) BY <1>6 DEF Frees
<1>7. CASE GivesBack(r) BY <1>7 DEF GivesBack
<1> QED BY <1>1, <1>2, <1>3, <1>4, <1>5, <1>6, <1>7 DEF RequestShape

\* A shape keeps every group's counter equal to its holders.
LEMMA SlotsStep ==
  ASSUME SlotTypes, GrantOrQueued, SlotsExact, Shape
  PROVE  SlotsExact'
<1> USE AdmissionAssumption
<1>0. \A g \in Groups : inFlight[g] = Cardinality(Holders(g))
  BY DEF SlotsExact, Holders
<1> SUFFICES \A g \in Groups : inFlight'[g] = Cardinality(Holders(g)')
  BY DEF SlotsExact, Holders, Members
<1>1. CASE Still
  <2>1. \A g : Holders(g)' = Holders(g)
    BY <1>1 DEF Still, counted, PhaseKept, Holders, Members, Holds
  <2> QED BY <1>0, <1>1, <2>1 DEF Still, counted
<1>2. CASE Edits
  <2>1. \A g : Holders(g)' = Holders(g)
    BY <1>2 DEF Edits, Holders, Members, Holds
  <2> QED BY <1>0, <1>2, <2>1 DEF Edits
<1>3. ASSUME NEW r \in Requests, RequestShape(r), NEW g \in Groups
      PROVE  inFlight'[g] = Cardinality(Holders(g)')
  <2>0. GroupOf[r] \in Groups
    OBVIOUS
  <2>1. \A x \in Requests : x # r => (Holds(x)' <=> Holds(x))
    BY <1>3, OthersHold
  <2>2. CASE GroupOf[r] # g
    <3>1. Holders(g)' = Holders(g)
      BY <2>1, <2>2 DEF Holders, Members
    <3>2. inFlight'[g] = inFlight[g]
      BY <1>3, <2>2, <2>0, OwnHold DEF SlotFreed, Takes, SlotTypes
    <3> QED BY <1>0, <3>1, <3>2
  <2>3. CASE GroupOf[r] = g /\ UNCHANGED inFlight /\ (Holds(r)' <=> Holds(r))
    <3>1. Holders(g)' = Holders(g)
      BY <2>1, <2>3 DEF Holders, Members
    <3> QED BY <1>0, <2>3, <3>1
  <2>4. CASE GroupOf[r] = g /\ Takes(r) /\ ~Holds(r) /\ Holds(r)'
    <3>1. Holders(g)' = Holders(g) \cup {r} /\ r \notin Holders(g)
      BY <2>1, <2>4 DEF Holders, Members
    <3>2. Cardinality(Holders(g)') = Cardinality(Holders(g)) + 1
      BY <3>1, CountedFinite, FS_AddElement
    <3>3. inFlight'[g] = inFlight[g] + 1
      BY <2>4 DEF Takes, SlotTypes
    <3> QED BY <1>0, <3>2, <3>3
  <2>5. CASE GroupOf[r] = g /\ SlotFreed(r) /\ Holds(r) /\ ~Holds(r)'
    <3>1. Holders(g)' = Holders(g) \ {r} /\ r \in Holders(g)
      BY <2>1, <2>5 DEF Holders, Members
    <3>2. /\ Cardinality(Holders(g)') = Cardinality(Holders(g)) - 1
          /\ Cardinality(Holders(g)) \in Nat
          /\ Cardinality(Holders(g)) # 0
      BY <3>1, CountedFinite, FS_RemoveElement, FS_EmptySet, FS_CardinalityType
    <3>3. inFlight'[g] = IF inFlight[g] > 0 THEN inFlight[g] - 1 ELSE 0
      BY <2>5 DEF SlotFreed, SlotTypes
    <3> QED BY <1>0, <3>2, <3>3
  <2> QED BY <1>3, <2>2, <2>3, <2>4, <2>5, OwnHold
<1> QED BY <1>1, <1>2, <1>3 DEF Shape

\* A shape keeps the gate's counter equal to the leases it has out.
LEMMA GateStep ==
  ASSUME SlotTypes, GrantOrQueued, LeasesHeld, GateExact, Shape
  PROVE  GateExact'
<1>0. gateInFlight = Cardinality(Leases)
  BY DEF GateExact, Leases
<1> SUFFICES gateInFlight' = Cardinality(Leases')
  BY DEF GateExact, Leases
<1>1. ASSUME UNCHANGED <<gateInFlight, gateGen, leaseGen>>
      PROVE  gateInFlight' = Cardinality(Leases')
  BY <1>0, <1>1 DEF Leases
<1>2. CASE Still BY <1>1, <1>2 DEF Still, counted
<1>3. CASE Edits
  <2>1. CASE Inactive(limit')
    <3>1. gateGen' = gateGen + 1 /\ gateInFlight' = 0 /\ UNCHANGED leaseGen
      BY <1>3, <2>1 DEF Edits
    <3>2. Leases' = {}
      BY <3>1 DEF Leases, LeasesHeld, SlotTypes
    <3> QED BY <3>1, <3>2, FS_EmptySet
  <2>2. CASE ~Inactive(limit')
    BY <1>1, <1>3, <2>2 DEF Edits
  <2> QED BY <2>1, <2>2
<1>4. ASSUME NEW r \in Requests, RequestShape(r)
      PROVE  gateInFlight' = Cardinality(Leases')
  <2>1. CASE Joins(r) \/ Leaves(r) \/ Reads(r) \/ Frees(r)
    BY <1>1, <2>1 DEF Joins, Leaves, Reads, Frees
  <2>2. CASE Takes(r)
    <3>1. leaseGen[r] = 0
      BY <2>2 DEF Takes, GrantOrQueued, LeasesHeld, Over, SlotTypes, Waiting,
        Parks
    <3>2. CASE Active
      <4>1. gateInFlight' = gateInFlight + 1 /\ UNCHANGED gateGen
        BY <2>2, <3>2 DEF Takes, LeaseTaken
      <4>2. Leases' = Leases \cup {r} /\ r \notin Leases
        BY <2>2, <3>1, <3>2 DEF Takes, LeaseTaken, Leases, SlotTypes
      <4> QED BY <1>0, <4>1, <4>2, CountedFinite, FS_AddElement
    <3>3. CASE ~Active
      BY <1>1, <2>2, <3>3 DEF Takes, LeaseTaken
    <3> QED BY <3>2, <3>3
  <2>3. CASE Ends(r) \/ GivesBack(r)
    <3>0. LeaseSettled(r) /\ UNCHANGED gateGen
      BY <2>3 DEF Ends, GivesBack
    <3>1. CASE leaseGen[r] = gateGen
      <4>1. Leases' = Leases \ {r} /\ r \in Leases
        BY <3>0, <3>1 DEF LeaseSettled, Leases, SlotTypes
      <4>2. /\ Cardinality(Leases') = Cardinality(Leases) - 1
            /\ Cardinality(Leases) \in Nat /\ Cardinality(Leases) # 0
        BY <4>1, CountedFinite, FS_RemoveElement, FS_EmptySet,
          FS_CardinalityType
      <4> QED BY <1>0, <3>0, <3>1, <4>2 DEF LeaseSettled
    <3>2. CASE leaseGen[r] # gateGen
      <4>1. Leases' = Leases
        BY <3>0, <3>2 DEF LeaseSettled, Leases, SlotTypes
      <4> QED BY <1>0, <3>0, <3>2, <4>1 DEF LeaseSettled
    <3> QED BY <3>1, <3>2
  <2> QED BY <1>4, <2>1, <2>2, <2>3 DEF RequestShape
<1> QED BY <1>2, <1>3, <1>4 DEF Shape

(***************************************************************************)
(* Every step has a shape.                                                 *)
(***************************************************************************)
\* A request brings a cap, or is turned away.
Door(r) == (\E next \in Caps : groupForLocked(r, next)) \/ AcquireRefused(r)

\* The alternatives of a step.
LEMMA NextCases ==
  ASSUME [Next]_vars
  PROVE  \/ \E r \in Requests : AcquireFast(r) \/ AcquireQueues(r)
         \/ \E r \in Requests : Door(r)
         \/ \E r \in Requests : WaitExpires(r) \/ Abort(r) \/ Pace(r)
         \/ \E r \in Requests : RequestStep(r)
         \/ \E d \in Drainers : DrainStep(d)
         \/ \E d \in Drainers : Operate(d)
         \/ TimerStep \/ HoldExpires \/ UNCHANGED vars
BY Zenon DEF Next, Arrive, Door, GiveUp, Finished

\* A request at the door moves no slot, no lease, no place and no drain.
LEMMA DoorStep ==
  ASSUME NEW r \in Requests, Door(r)
  PROVE  /\ UNCHANGED <<slots, gate, lease, index, paced, due, hold, drained, owed, channels,
                       cancelled, drains>>
         /\ AtDoor(r) /\ \E p \in {"idle", "arriving", "gone"} : Goto(r, p)
<1>1. ASSUME NEW next, groupForLocked(r, next)
      PROVE  /\ UNCHANGED <<slots, gate, lease, index, paced, due, hold, drained, owed,
                           channels, cancelled, drains>>
             /\ AtDoor(r) /\ \E p \in {"idle", "arriving", "gone"} : Goto(r, p)
  BY <1>1 DEF groupForLocked, AtDoor
<1>2. CASE AcquireRefused(r)
  <2>1. Away(r) \in {"idle", "arriving", "gone"}
    BY DEF Away
  <2>2. UNCHANGED <<hold, drained, owed>> /\ UNCHANGED <<paced, due>>
    BY <1>2 DEF AcquireRefused, policy, windows
  <2> QED BY <1>2, <2>1, <2>2 DEF AcquireRefused
<1> QED BY <1>1, <1>2, Zenon DEF Door

\* The goroutine of d ends its drain, or stays in it.
PcAfter(d) ==
  \/ UNCHANGED pc
  \/ d \in Requests /\ pc' = [pc EXCEPT ![d] = AfterDrain(d)]

\* A request that ends a drain stays a waiter or stays gone.
LEMMA FinishKeepsPhase ==
  ASSUME SlotTypes, DrainersStand, NEW d \in Drainers, job[d] # "none",
         PcAfter(d), NEW r \in Requests
  PROVE  PhaseKept(r)
<1>1. CASE UNCHANGED pc
  BY <1>1 DEF PhaseKept
<1>2. CASE d \in Requests /\ pc' = [pc EXCEPT ![d] = AfterDrain(d)]
  <2>1. CASE r # d
    BY <1>2, <2>1 DEF PhaseKept, SlotTypes
  <2>2. CASE r = d
    <3>1. pc'[d] = AfterDrain(d) /\ pc[d] \in Draining
      BY <1>2 DEF SlotTypes, DrainersStand
    <3> QED BY <2>2, <3>1 DEF PhaseKept, Draining, AfterDrain, Away, Waiting,
              Parks
  <2> QED BY <2>1, <2>2
<1> QED BY <1>1, <1>2 DEF PcAfter

\* Only d's goroutine moves, and it stands where a drain may run.
MovesOnly(d) ==
  /\ \A x \in Requests : x # d => job'[x] = job[x] /\ pc'[x] = pc[x]
  /\ d \in Requests => job'[d] = "none" \/ pc'[d] \in Draining

\* Such a move keeps every drain where a drain may run.
LEMMA MovesOnlyStands ==
  ASSUME DrainersStand, NEW d, MovesOnly(d)
  PROVE  DrainersStand'
BY DEF DrainersStand, MovesOnly

\* Steps inside a drain that leave the slots alone.
LEMMA TurnMoves ==
  ASSUME SlotTypes, DrainersStand, NEW d \in Drainers, job[d] # "none",
         NextTurn(d) \/ FinishDrain(d)
  PROVE  PcAfter(d) /\ MovesOnly(d)
<1>1. FinishDrain(d) => PcAfter(d) /\ MovesOnly(d)
  BY DEF FinishDrain, Continue, Goto, PcAfter, MovesOnly, SlotTypes, Drainers
<1>2. ASSUME NEW point, Continue(d, point), UNCHANGED pc
      PROVE  PcAfter(d) /\ MovesOnly(d)
  BY <1>2 DEF Continue, PcAfter, MovesOnly, SlotTypes, Drainers, DrainersStand
<1>3. NextTurn(d) => FinishDrain(d)
                     \/ \E point : Continue(d, point) /\ UNCHANGED pc
  BY Zenon DEF NextTurn
<1> QED BY <1>1, <1>2, <1>3

\* A drain that goes on moves nobody else.
LEMMA DrainMoves ==
  ASSUME SlotTypes, DrainersStand, NEW d \in Drainers, job[d] # "none",
         NEW point, Continue(d, point), UNCHANGED pc
  PROVE  PcAfter(d) /\ MovesOnly(d)
BY DEF Continue, PcAfter, MovesOnly, SlotTypes, Drainers, DrainersStand

\* A step of a drain that counts nothing differently is a Still step.
LEMMA DrainStill ==
  ASSUME SlotTypes, DrainersStand, NEW d \in Drainers, job[d] # "none",
         PcAfter(d), UNCHANGED <<counted, limit>>
  PROVE  Still
BY FinishKeepsPhase DEF Still

\* A grant by a drain is a request taking a slot.
LEMMA ServeTakes ==
  ASSUME SlotTypes, NEW d \in Drainers, NEW g, ServeGrants(d, g)
  PROVE  \E r \in Requests : Takes(r)
<1>1. PICK r \in First(g) : /\ ~Blocked(r) /\ Charge(r) /\ Unlink(r)
                            /\ granted' = granted \cup {r}
  BY DEF ServeGrants
<1>2. r \in Requests /\ r \in queued /\ GroupOf[r] = g
  BY DEF First, Queue, Members
<1>3. \A x \in Requests : PhaseKept(x)
  BY DEF ServeGrants, PhaseKept
<1>4. LeaseTaken(r) /\ UNCHANGED <<gateGen, limit>>
  BY <1>1 DEF Charge, LeaseTaken, ServeGrants, lease
<1>5. WindowOpen(g) /\ ~ConcurrencyFull
  BY <1>1 DEF ServeGrants, Blocked
<1> QED BY <1>1, <1>2, <1>3, <1>4, <1>5 DEF Takes, Unlink, OthersKept,
          ServeGrants

\* The steps of a drain.
LEMMA DrainShape ==
  ASSUME SlotTypes, DrainersStand, NEW d \in Drainers, DrainStep(d)
  PROVE  Shape /\ DrainersStand'
<1>0. job[d] # "none"
  BY DEF DrainStep, MarkGroup, MarkingGroup, CheckProvider, fairSnapshot, Peek,
    drainLimited, CheckCapacity, advanceFair, KickPolicy
<1>1. ASSUME NEW g, ServeGrants(d, g), job[d] = "serve"
      PROVE  Shape /\ DrainersStand'
  <2>1. MovesOnly(d)
    BY <1>0, <1>1, DrainMoves DEF ServeGrants
  <2> QED BY <1>1, <2>1, ServeTakes, MovesOnlyStands DEF Shape, RequestShape
<1>2. ASSUME UNCHANGED <<counted, limit>>,
             \/ NextTurn(d) \/ FinishDrain(d)
             \/ \E point : Continue(d, point) /\ UNCHANGED pc
      PROVE  Shape /\ DrainersStand'
  <2>1. PcAfter(d) /\ MovesOnly(d)
    BY <1>0, <1>2, TurnMoves, DrainMoves
  <2> QED BY <1>0, <1>2, <2>1, DrainStill, MovesOnlyStands DEF Shape
<1>3. \/ \E g : job[d] = "serve" /\ ServeGrants(d, g)
      \/ /\ UNCHANGED <<counted, limit>>
         /\ \/ NextTurn(d) \/ FinishDrain(d)
            \/ \E point : Continue(d, point) /\ UNCHANGED pc
  <2>1. CASE \E g \in Groups : MarkGroup(d, g)
    BY <2>1, Zenon DEF MarkGroup, MarkingGroup, counted, slots, gate, lease
  <2>2. CASE CheckProvider(d) \/ fairSnapshot(d) \/ Peek(d) \/ CheckCapacity(d)
             \/ advanceFair(d) \/ KickPolicy(d)
    BY <2>2, Zenon DEF CheckProvider, fairSnapshot, Peek, CheckCapacity,
      advanceFair, KickPolicy, DrainAll, counted, slots, gate, lease
  <2>3. CASE drainLimited(d)
    BY <2>3, Zenon DEF drainLimited, ServeNone, ServeRefused, counted, slots,
      gate, lease
  <2> QED BY <2>1, <2>2, <2>3, Zenon DEF DrainStep
<1> QED BY <1>1, <1>2, <1>3

\* A request that moves on its own, without or with a drain to follow.
LEMMA RequestMoves ==
  ASSUME SlotTypes, DrainersStand, NEW r \in Requests, NEW point, Goto(r, point),
         \/ UNCHANGED job /\ pc[r] \notin Draining
         \/ StartDrain(r, GroupOf[r]) /\ point \in Draining
  PROVE  /\ DrainersStand'
         /\ OthersKept(r)
         /\ pc'[r] = point
<1>1. pc'[r] = point /\ \A x \in Requests : x # r => pc'[x] = pc[x]
  BY DEF Goto, SlotTypes
<1>2. MovesOnly(r)
  BY <1>1 DEF MovesOnly, StartDrain, SlotTypes, Drainers, DrainersStand
<1> QED BY <1>1, <1>2, MovesOnlyStands DEF OthersKept, PhaseKept

\* removeWaiter takes a waiter out of its queue or gives its grant back.
LEMMA RemoveShape ==
  ASSUME SlotTypes, DrainersStand, NEW r \in Requests, removeWaiter(r),
         pc[r] \in Parks \cup {"check"}
  PROVE  Shape /\ DrainersStand'
<1>0. pc[r] \in Waiting /\ pc[r] \notin Draining
  BY DEF Waiting, Parks, Draining
<1>1. Away(r) \in Over /\ "leaving" \in Over /\ "leaving" \in Draining
  BY DEF Away, Over, Draining
<1>2. CASE RemoveQueued(r)
  <2>1. \E point \in Over : /\ Goto(r, point)
                            /\ \/ UNCHANGED job
                               \/ /\ StartDrain(r, GroupOf[r])
                                  /\ point \in Draining
    BY <1>1, <1>2 DEF RemoveQueued, drains
  <2>2. DrainersStand' /\ OthersKept(r) /\ pc'[r] \in Over
    BY <1>0, <2>1, RequestMoves
  <2>3. Leaves(r)
    BY <1>0, <1>2, <2>2 DEF RemoveQueued, Leaves, Unlink, gate, lease
  <2> QED BY <2>2, <2>3 DEF Shape, RequestShape
<1>3. CASE RemoveGranted(r)
  <2>1. DrainersStand' /\ OthersKept(r) /\ pc'[r] \in Over
    BY <1>1, <1>3, RequestMoves DEF RemoveGranted
  <2>2. GivesBack(r)
    BY <1>0, <1>3, <2>1 DEF RemoveGranted, GivesBack, Settle, LeaseSettled,
      SlotFreed
  <2> QED BY <2>1, <2>2 DEF Shape, RequestShape
<1> QED BY <1>2, <1>3 DEF removeWaiter

\* A waiter that stays a waiter.
LEMMA WaiterStill ==
  ASSUME SlotTypes, DrainersStand, NEW r \in Requests, NEW point \in Waiting,
         pc[r] \in Waiting, pc[r] \notin Draining, Goto(r, point),
         UNCHANGED job \/ (StartDrain(r, GroupOf[r]) /\ point \in Draining),
         UNCHANGED <<counted, limit>>
  PROVE  Shape /\ DrainersStand'
<1>1. DrainersStand' /\ OthersKept(r) /\ pc'[r] = point
  BY RequestMoves
<1>2. PhaseKept(r)
  BY <1>1 DEF PhaseKept, Waiting, Parks
<1> QED BY <1>1, <1>2 DEF Shape, Still, OthersKept

\* The steps of a request's own goroutine.
LEMMA RequestStepShape ==
  ASSUME SlotTypes, DrainersStand, NEW r \in Requests, RequestStep(r)
  PROVE  Shape /\ DrainersStand'
<1> USE DEF Waiting, Parks, Draining
<1>1. CASE DrainCheck(r)
  <2>1. CASE removeWaiter(r)
    BY <1>1, <2>1, RemoveShape DEF DrainCheck
  <2>2. CASE ~removeWaiter(r)
    BY <1>1, <2>2, WaiterStill DEF DrainCheck, counted, slots, gate, lease,
      drains
  <2> QED BY <2>1, <2>2
<1>2. CASE SnapshotKicks(r)
  BY <1>2, WaiterStill DEF SnapshotKicks, counted, slots, gate, lease, drains
<1>3. CASE HoldRead(r)
  BY <1>3, WaiterStill DEF HoldRead, counted, slots, gate, lease,
    drains
<1>4. CASE ReadGrant(r)
  <2>1. DrainersStand' /\ OthersKept(r) /\ pc'[r] = "running"
    BY <1>4, RequestMoves DEF ReadGrant, drains
  <2>2. Reads(r)
    BY <1>4, <2>1 DEF ReadGrant, Reads, gate, lease
  <2> QED BY <2>1, <2>2 DEF Shape, RequestShape
<1>5. CASE Wake(r)
  BY <1>5, WaiterStill DEF Wake, counted, slots, gate, lease, drains
<1>6. CASE UntilFires(r)
  BY <1>6, WaiterStill DEF UntilFires, counted, slots, gate, lease
<1>7. CASE WaitCancelled(r)
  BY <1>7, RemoveShape DEF WaitCancelled
<1>8. ASSUME NEW actual \in Actual, ReleaseSettles(r, actual)
      PROVE  Shape /\ DrainersStand'
  <2>1. DrainersStand' /\ OthersKept(r) /\ pc'[r] = "settled"
    BY <1>8, RequestMoves DEF ReleaseSettles, drains
  <2>2. Ends(r)
    BY <1>8, <2>1 DEF ReleaseSettles, Ends, Settle, LeaseSettled, slots
  <2> QED BY <2>1, <2>2 DEF Shape, RequestShape
<1>9. CASE release(r)
  <2>1. DrainersStand' /\ OthersKept(r) /\ pc'[r] = "leaving"
    BY <1>9, RequestMoves DEF release
  <2>2. Frees(r)
    BY <1>9, <2>1 DEF release, Frees, SlotFreed, Over, gate, lease
  <2> QED BY <2>1, <2>2 DEF Shape, RequestShape
<1> QED BY <1>1, <1>2, <1>3, <1>4, <1>5, <1>6, <1>7, <1>8, <1>9 DEF RequestStep

\* Arrivals.
LEMMA ArriveShape ==
  ASSUME SlotTypes, DrainersStand, NEW r \in Requests,
         AcquireFast(r) \/ AcquireQueues(r) \/ Door(r)
  PROVE  Shape /\ DrainersStand'
<1>0. pc[r] \in Over /\ pc[r] \notin Draining
  BY DoorStep DEF AcquireFast, AcquireQueues, AtDoor, Over, Draining
<1>1. CASE AcquireFast(r)
  <2>1. DrainersStand' /\ OthersKept(r) /\ pc'[r] = "running"
    BY <1>0, <1>1, RequestMoves DEF AcquireFast, drains
  <2>2. WindowOpen(GroupOf[r]) /\ ~ConcurrencyFull
    BY <1>1 DEF AcquireFast, FastPath, Blocked
  <2>3. LeaseTaken(r)
    BY <1>1 DEF AcquireFast, Charge, LeaseTaken, lease
  <2>4. Takes(r)
    BY <1>0, <1>1, <2>1, <2>2, <2>3 DEF AcquireFast, Takes
  <2> QED BY <2>1, <2>4 DEF Shape, RequestShape
<1>2. CASE AcquireQueues(r)
  <2>1. DrainersStand' /\ OthersKept(r) /\ pc'[r] = "enqueued"
    BY <1>2, RequestMoves DEF AcquireQueues, Draining
  <2>2. Joins(r)
    BY <1>0, <1>2, <2>1 DEF AcquireQueues, Joins, Waiting, lease
  <2> QED BY <2>1, <2>2 DEF Shape, RequestShape
<1>3. CASE Door(r)
  <2>1. PICK p \in {"idle", "arriving", "gone"} : Goto(r, p)
    BY <1>3, DoorStep
  <2>2. UNCHANGED <<counted, limit, job>>
    BY <1>3, DoorStep DEF counted, slots, gate, lease, drains
  <2>3. DrainersStand' /\ OthersKept(r) /\ pc'[r] = p
    BY <1>0, <2>1, <2>2, RequestMoves
  <2>4. PhaseKept(r)
    BY <1>0, <2>3 DEF PhaseKept, Over, Waiting, Parks
  <2> QED BY <2>2, <2>3, <2>4 DEF Shape, Still, OthersKept
<1> QED BY <1>1, <1>2, <1>3

\* Steps that move no request.
LEMMA ElsewhereShape ==
  ASSUME DrainersStand, UNCHANGED pc, \A r \in Requests : job'[r] = job[r],
         Edits \/ UNCHANGED <<counted, limit>>
  PROVE  Shape /\ DrainersStand'
BY DEF DrainersStand, Shape, Still, PhaseKept

\* A waiter gives up, is cut short, or a running request trips its group.
LEMMA GiveUpShape ==
  ASSUME SlotTypes, DrainersStand, NEW r \in Requests,
         WaitExpires(r) \/ Abort(r) \/ Pace(r)
  PROVE  Shape /\ DrainersStand'
<1>1. CASE WaitExpires(r)
  BY <1>1, RemoveShape DEF WaitExpires, Parks
<1>2. CASE Abort(r)
  BY <1>2, ElsewhereShape DEF Abort, slots, gate, lease, counted, drains
<1>3. CASE Pace(r)
  BY <1>3, ElsewhereShape DEF Pace, slots, gate, lease, counted, drains
<1> QED BY <1>1, <1>2, <1>3

\* A background goroutine starts a drain: no request's drain is touched.
LEMMA BackgroundStarts ==
  ASSUME SlotTypes, NEW d \in Background, NEW point, Continue(d, point),
         NEW r \in Requests
  PROVE  job'[r] = job[r]
BY AdmissionAssumption DEF SlotTypes, Continue, Drainers

\* Operator calls.
LEMMA OperateShape ==
  ASSUME SlotTypes, DrainersStand, NEW d \in Drainers, Operate(d)
  PROVE  Shape /\ DrainersStand'
<1>1. ASSUME NEW next, SetHold(d, next)
      PROVE  Shape /\ DrainersStand'
  <2>1. d \in Background /\ Continue(d, "mark") /\ UNCHANGED pc
    BY <1>1 DEF SetHold, DrainAll
  <2>2. UNCHANGED <<counted, limit>>
    BY <1>1 DEF SetHold, slots, gate, lease, counted
  <2> QED BY <2>1, <2>2, BackgroundStarts, ElsewhereShape
<1>2. CASE DrainQueue(d)
  <2>1. d \in Background /\ Continue(d, "kick") /\ UNCHANGED pc
    BY <1>2 DEF DrainQueue
  <2>2. UNCHANGED <<counted, limit>>
    BY <1>2 DEF DrainQueue, slots, gate, lease, counted
  <2> QED BY <2>1, <2>2, BackgroundStarts, ElsewhereShape
<1>3. ASSUME NEW next, UpdateThrottle(d, next)
      PROVE  Shape /\ DrainersStand'
  <2>1. d \in Background /\ Continue(d, "kick") /\ UNCHANGED pc
    BY <1>3 DEF UpdateThrottle, UpdateThrottleClearing
  <2>2. Edits
    BY <1>3 DEF UpdateThrottle, UpdateThrottleClearing, Edits, Inactive, slots,
      lease
  <2> QED BY <2>1, <2>2, BackgroundStarts, ElsewhereShape
<1> QED BY <1>1, <1>2, <1>3, Zenon DEF Operate

\* Timers.
LEMMA TimerShape ==
  ASSUME SlotTypes, DrainersStand, TimerStep
  PROVE  Shape /\ DrainersStand'
<1>1. CASE Tick
  BY <1>1, ElsewhereShape DEF Tick, slots, lease, counted, drains
<1>2. ASSUME NEW d \in Drainers, GateWakes(d)
      PROVE  Shape /\ DrainersStand'
  <2>1. d \in Background /\ Continue(d, "count") /\ UNCHANGED pc
    BY <1>2 DEF GateWakes
  <2>2. UNCHANGED <<counted, limit>>
    BY <1>2 DEF GateWakes, slots, gate, lease, counted
  <2> QED BY <2>1, <2>2, BackgroundStarts, ElsewhereShape
<1>3. ASSUME NEW g \in Groups, PaceEnds(g)
      PROVE  Shape /\ DrainersStand'
  BY <1>3, ElsewhereShape DEF PaceEnds, slots, gate, lease, counted, drains
<1>4. ASSUME NEW d \in Drainers, NEW g \in Groups, PacerFires(d, g)
      PROVE  Shape /\ DrainersStand'
  <2>1. d \in Background /\ Continue(d, "mark") /\ UNCHANGED pc
    BY <1>4 DEF PacerFires, StartDrain, Continue
  <2>2. UNCHANGED <<counted, limit>>
    BY <1>4 DEF PacerFires, slots, gate, lease, counted
  <2> QED BY <2>1, <2>2, BackgroundStarts, ElsewhereShape
<1> QED BY <1>1, <1>2, <1>3, <1>4, Zenon DEF TimerStep

\* Every step has a shape, and leaves every drain where a drain may run.
LEMMA StepShape ==
  ASSUME SlotTypes, DrainersStand, [Next]_vars
  PROVE  Shape /\ DrainersStand'
<1>1. CASE HoldExpires
  BY <1>1, ElsewhereShape DEF HoldExpires, slots, gate, lease, counted, drains
<1>2. CASE UNCHANGED vars
  BY <1>2, ElsewhereShape DEF vars, slots, gate, lease, counted, drains
<1> QED BY <1>1, <1>2, NextCases, ArriveShape, GiveUpShape, RequestStepShape,
          DrainShape, OperateShape, TimerShape

(***************************************************************************)
(* Types, one block of variables at a time.                                *)
(***************************************************************************)
GateTypes ==
  /\ limit \in Limit /\ tokGen \in Nat /\ tokens \in Int /\ wake \in Nat
  /\ reserved \in [Requests -> Nat] /\ leaseTok \in [Requests -> Nat]

OrderTypes ==
  /\ ahead \in [Requests -> SUBSET Requests]
  /\ fair \in Seq(Groups) /\ cursor \subseteq Groups
  /\ round \in [Drainers -> Seq(Groups)]

WalkTypes ==
  /\ tomark \in [Drainers -> SUBSET Groups]
  /\ found \subseteq Drainers /\ productive \subseteq Drainers
  /\ at \in [Drainers -> Nat] /\ served \in [Drainers -> SUBSET Groups]

PolicyTypes ==
  /\ paced \subseteq Groups /\ due \subseteq Groups \cup {"gate"}
  /\ cap \in [Groups -> Nat] /\ raised \subseteq Groups
  /\ hold \in {"none", "manual", "timed"}
  /\ drained \subseteq Requests /\ owed \subseteq Requests
  /\ interventions \in Nat
  /\ current \subseteq Requests /\ sendCurrent \subseteq Requests
  /\ timed \subseteq Requests /\ cancelled \subseteq Requests

\* TypeOK is its blocks.
LEMMA TypeBlocks ==
  TypeOK <=> /\ SlotTypes /\ GateTypes /\ OrderTypes /\ WalkTypes
             /\ PolicyTypes
BY DEF TypeOK, SlotTypes, GateTypes, OrderTypes, WalkTypes, PolicyTypes

\* A shape keeps the types of the counters.
LEMMA CountedTyped ==
  ASSUME SlotTypes, Shape
  PROVE  /\ inFlight' \in [Groups -> Nat]
         /\ queued' \subseteq Requests /\ granted' \subseteq Requests
         /\ gateInFlight' \in Nat /\ gateGen' \in Nat /\ gateGen' # 0
         /\ leaseGen' \in [Requests -> Nat]
<1> USE AdmissionAssumption DEF SlotTypes
<1>1. CASE Still BY <1>1 DEF Still, counted
<1>2. CASE Edits BY <1>2 DEF Edits
<1>3. ASSUME NEW r \in Requests, RequestShape(r)
      PROVE  /\ inFlight' \in [Groups -> Nat]
             /\ queued' \subseteq Requests /\ granted' \subseteq Requests
             /\ gateInFlight' \in Nat /\ gateGen' \in Nat /\ gateGen' # 0
             /\ leaseGen' \in [Requests -> Nat]
  <2>1. CASE Joins(r) \/ Leaves(r) \/ Reads(r)
    BY <2>1 DEF Joins, Leaves, Reads
  <2>2. CASE Takes(r) BY <2>2 DEF Takes, LeaseTaken
  <2>3. CASE Ends(r) BY <2>3 DEF Ends, LeaseSettled
  <2>4. CASE Frees(r) BY <2>4 DEF Frees, SlotFreed
  <2>5. CASE GivesBack(r) BY <2>5 DEF GivesBack, SlotFreed, LeaseSettled
  <2> QED BY <1>3, <2>1, <2>2, <2>3, <2>4, <2>5 DEF RequestShape
<1> QED BY <1>1, <1>2, <1>3 DEF Shape

\* What a step may do to a request's position and to a drainer's.
PcSteps == UNCHANGED pc \/ \E r \in Requests, p \in Points : Goto(r, p)
JobSteps == UNCHANGED job \/ \E d \in Drainers, p \in Jobs : Continue(d, p)

\* Such moves keep the types of the control variables.
LEMMA MovesTyped ==
  ASSUME SlotTypes, PcSteps, JobSteps
  PROVE  pc' \in [Requests -> Points] /\ job' \in [Drainers -> Jobs]
BY DEF SlotTypes, PcSteps, JobSteps, Goto, Continue

\* The moves of removeWaiter.
LEMMA RemoveControl ==
  ASSUME NEW r \in Requests, removeWaiter(r)
  PROVE  PcSteps /\ JobSteps
<1>1. Away(r) \in Points /\ "leaving" \in Points /\ "mark" \in Jobs
      /\ r \in Drainers
  BY DEF Away, Points, Jobs, Drainers
<1> QED BY <1>1, Zenon DEF removeWaiter, RemoveQueued, RemoveGranted, PcSteps,
          JobSteps, StartDrain, Continue, drains

\* The moves of a drain's end and of a turn.
LEMMA FinishControl ==
  ASSUME NEW d \in Drainers, FinishDrain(d) \/ NextTurn(d)
  PROVE  PcSteps /\ JobSteps
<1>1. \A p \in Jobs : Continue(d, p) => JobSteps
  BY Zenon DEF JobSteps
<1>2. FinishDrain(d) => PcSteps /\ JobSteps
  <2>1. d \in Requests => AfterDrain(d) \in Points
    BY DEF AfterDrain, Away, Points, Waiting, Parks
  <2> QED BY <1>1, <2>1, Zenon DEF FinishDrain, PcSteps, Jobs
<1>3. {"peek", "advance"} \subseteq Jobs
  BY DEF Jobs
<1> QED BY <1>1, <1>2, <1>3, Zenon DEF NextTurn, PcSteps

\* Every step moves at most one request and one drainer.
LEMMA ControlStep ==
  ASSUME [Next]_vars
  PROVE  PcSteps /\ JobSteps
<1> DEFINE Goal == PcSteps /\ JobSteps
<1>0. /\ Points = Waiting \cup {"idle", "arriving", "running", "settled", "leaving", "gone"}
      /\ Requests \subseteq Drainers
      /\ \A r \in Requests, p \in Points : Goto(r, p) => PcSteps
      /\ \A d \in Drainers, p \in Jobs : Continue(d, p) => JobSteps
      /\ UNCHANGED pc => PcSteps
      /\ UNCHANGED job => JobSteps
  BY Zenon DEF PcSteps, JobSteps, Points, Drainers
<1>1. ASSUME NEW r \in Requests, NEW g, StartDrain(r, g) PROVE JobSteps
  BY <1>0, <1>1, Zenon DEF StartDrain, Continue, Jobs
<1>2. ASSUME NEW r \in Requests, AcquireFast(r) \/ AcquireQueues(r)
      PROVE  Goal
  BY <1>0, <1>1, <1>2, Zenon DEF AcquireFast, AcquireQueues, drains, Waiting
<1>9. ASSUME NEW r \in Requests, Door(r)
      PROVE  Goal
  <2>1. UNCHANGED job /\ \E p \in Points : Goto(r, p)
    BY <1>0, <1>9, DoorStep DEF drains
  <2> QED BY <1>0, <2>1, Zenon
<1>3. ASSUME NEW r \in Requests, WaitExpires(r) \/ Abort(r) \/ Pace(r)
      PROVE  Goal
  BY <1>0, <1>3, RemoveControl, Zenon DEF WaitExpires, Abort, Pace, drains
<1>4. ASSUME NEW r \in Requests, RequestStep(r)
      PROVE  Goal
  <2> USE <1>0, <1>1 DEF Waiting, Parks, drains
  <2>1. CASE DrainCheck(r) BY <2>1, RemoveControl, Zenon DEF DrainCheck
  <2>2. CASE SnapshotKicks(r) \/ ReadGrant(r) \/ Wake(r) \/ UntilFires(r)
    BY <2>2, Zenon DEF SnapshotKicks, ReadGrant, Wake, UntilFires
  <2>3. CASE HoldRead(r) BY <2>3, Zenon DEF HoldRead
  <2>4. CASE WaitCancelled(r) BY <2>4, RemoveControl DEF WaitCancelled
  <2>5. CASE release(r) \/ \E actual \in Actual : ReleaseSettles(r, actual)
    BY <2>5, Zenon DEF release, ReleaseSettles
  <2> QED BY <1>4, <2>1, <2>2, <2>3, <2>4, <2>5, Zenon DEF RequestStep
<1>5. ASSUME NEW d \in Drainers, DrainStep(d)
      PROVE  Goal
  <2> USE <1>0, FinishControl DEF Jobs
  <2>1. CASE \E g \in Groups : MarkGroup(d, g)
    BY <2>1, Zenon DEF MarkGroup, MarkingGroup
  <2>2. CASE CheckProvider(d) \/ fairSnapshot(d) \/ Peek(d) \/ CheckCapacity(d)
    BY <2>2, Zenon DEF CheckProvider, fairSnapshot, Peek, CheckCapacity
  <2>3. CASE advanceFair(d) \/ KickPolicy(d)
    BY <2>3, Zenon DEF advanceFair, KickPolicy, DrainAll
  <2>4. CASE drainLimited(d)
    BY <2>4, Zenon DEF drainLimited, ServeNone, ServeRefused, ServeGrants
  <2> QED BY <1>5, <2>1, <2>2, <2>3, <2>4, Zenon DEF DrainStep
<1>6. ASSUME NEW d \in Drainers, Operate(d)
      PROVE  Goal
  BY <1>0, <1>6, Zenon DEF Operate, SetHold, DrainQueue, UpdateThrottle,
    UpdateThrottleClearing, DrainAll, Jobs
<1>7. CASE TimerStep
  BY <1>0, <1>7, Zenon DEF TimerStep, Tick, GateWakes, PaceEnds, PacerFires,
    StartDrain, Continue, Jobs, drains
<1>8. CASE HoldExpires \/ UNCHANGED vars
  BY <1>0, <1>8, Zenon DEF HoldExpires, vars, drains
<1> QED BY <1>2, <1>3, <1>4, <1>5, <1>6, <1>7, <1>8, <1>9, NextCases, Zenon

gateData == <<limit, tokGen, tokens, wake, reserved, leaseTok>>

\* A refusal arms the timer for at least one tick.
LEMMA ArmTyped ==
  ASSUME GateTypes, NEW r \in Requests, Blocked(r), ArmFor(r)
  PROVE  wake' \in Nat
<1>1. TokensNeeded(r) \in Nat
  BY AdmissionAssumption DEF TokensNeeded, GateTypes, Limit
<1>2. ~ConcurrencyFull => tokens < TokensNeeded(r)
  BY DEF Blocked, TokensShort
<1>3. ~ConcurrencyFull => TokensNeeded(r) - tokens \in Nat
  BY <1>1, <1>2 DEF GateTypes
<1> QED BY <1>1, <1>2, <1>3 DEF ArmFor, GateTypes

\* Taking and settling a lease keep the types of the gate's data.
LEMMA LeaseTyped ==
  ASSUME GateTypes, NEW r \in Requests,
         Charge(r) \/ \E actual \in Int : Settle(r, actual)
  PROVE  /\ tokens' \in Int /\ reserved' \in [Requests -> Nat]
         /\ leaseTok' \in [Requests -> Nat]
<1> USE AdmissionAssumption DEF GateTypes, Limit, lease
<1>1. CASE Charge(r) BY <1>1 DEF Charge
<1>2. ASSUME NEW actual \in Int, Settle(r, actual)
      PROVE  /\ tokens' \in Int /\ reserved' \in [Requests -> Nat]
             /\ leaseTok' \in [Requests -> Nat]
  BY <1>2 DEF Settle
<1> QED BY <1>1, <1>2

\* removeWaiter keeps the types of the gate's data.
LEMMA RemoveGateTyped ==
  ASSUME GateTypes, NEW r \in Requests, removeWaiter(r)
  PROVE  GateTypes'
<1>1. CASE RemoveQueued(r)
  BY <1>1 DEF RemoveQueued, GateTypes, gate, lease
<1>2. CASE RemoveGranted(r)
  <2>1. /\ tokens' \in Int /\ reserved' \in [Requests -> Nat]
        /\ leaseTok' \in [Requests -> Nat]
    BY <1>2, LeaseTyped DEF RemoveGranted
  <2> QED BY <1>2, <2>1 DEF RemoveGranted, GateTypes
<1> QED BY <1>1, <1>2 DEF removeWaiter

\* Every step keeps the types of the gate's data.
LEMMA GateTyped ==
  ASSUME GateTypes, [Next]_vars
  PROVE  GateTypes'
<1>0. UNCHANGED gateData => GateTypes'
  BY DEF gateData, GateTypes
<1>1. ASSUME NEW r \in Requests, AcquireFast(r)
      PROVE  GateTypes'
  <2>1. /\ tokens' \in Int /\ reserved' \in [Requests -> Nat]
        /\ leaseTok' \in [Requests -> Nat]
    BY <1>1, LeaseTyped DEF AcquireFast
  <2> QED BY <1>1, <2>1 DEF AcquireFast, GateTypes
<1>2. ASSUME NEW r \in Requests, AcquireQueues(r)
      PROVE  GateTypes'
  <2>1. wake' \in Nat
    BY <1>2, ArmTyped DEF AcquireQueues, ArmIfRefused, GateTypes
  <2> QED BY <1>2, <2>1 DEF AcquireQueues, GateTypes, lease
<1>9. ASSUME NEW r \in Requests, Door(r)
      PROVE  GateTypes'
  BY <1>0, <1>9, DoorStep DEF gateData, gate, lease
<1>3. ASSUME NEW r \in Requests, WaitExpires(r) \/ Abort(r) \/ Pace(r)
      PROVE  GateTypes'
  BY <1>0, <1>3, RemoveGateTyped, Zenon DEF WaitExpires, Abort, Pace, gateData,
    gate, lease
<1>4. ASSUME NEW r \in Requests, RequestStep(r)
      PROVE  GateTypes'
  <2>1. ASSUME NEW actual \in Actual, ReleaseSettles(r, actual)
        PROVE  GateTypes'
    <3>1. /\ tokens' \in Int /\ reserved' \in [Requests -> Nat]
          /\ leaseTok' \in [Requests -> Nat]
      BY <2>1, LeaseTyped, AdmissionAssumption DEF ReleaseSettles
    <3> QED BY <2>1, <3>1 DEF ReleaseSettles, GateTypes
  <2> QED BY <1>0, <1>4, <2>1, RemoveGateTyped, Zenon DEF RequestStep,
            DrainCheck, SnapshotKicks, HoldRead, ReadGrant,
            Wake, UntilFires, WaitCancelled, release, gateData, gate, lease
<1>5. ASSUME NEW d \in Drainers, DrainStep(d)
      PROVE  GateTypes'
  <2>1. ASSUME NEW g, ServeRefused(d, g)
        PROVE  GateTypes'
    <3>1. PICK r \in First(g) : Blocked(r) /\ ArmFor(r)
      BY <2>1 DEF ServeRefused
    <3>2. wake' \in Nat
      BY <3>1, ArmTyped DEF First, Queue, Members
    <3> QED BY <2>1, <3>2 DEF ServeRefused, GateTypes, lease
  <2>2. ASSUME NEW g, ServeGrants(d, g)
        PROVE  GateTypes'
    <3>1. PICK r \in First(g) : Charge(r)
      BY <2>2 DEF ServeGrants
    <3>2. /\ tokens' \in Int /\ reserved' \in [Requests -> Nat]
          /\ leaseTok' \in [Requests -> Nat]
      BY <3>1, LeaseTyped DEF First, Queue, Members
    <3> QED BY <2>2, <3>2 DEF ServeGrants, GateTypes
  <2> QED BY <1>0, <1>5, <2>1, <2>2, Zenon DEF DrainStep, MarkGroup,
            MarkingGroup, CheckProvider, fairSnapshot, Peek, drainLimited,
            ServeNone, CheckCapacity, advanceFair, KickPolicy, gateData, gate,
            lease
<1>6. ASSUME NEW d \in Drainers, Operate(d)
      PROVE  GateTypes'
  <2>1. ASSUME NEW next \in Limits, UpdateThrottle(d, next)
        PROVE  GateTypes'
    <3>1. next \in Limit /\ next.tokens \in Nat
      BY AdmissionAssumption DEF Limit
    <3>2. ResizedTokens(next) \in Int
      BY <3>1 DEF ResizedTokens, GateTypes, Limit
    <3> QED BY <2>1, <3>1, <3>2 DEF UpdateThrottle, UpdateThrottleClearing,
              GateTypes, lease
  <2> QED BY <1>0, <1>6, <2>1, Zenon DEF Operate, SetHold, DrainQueue, gateData,
            gate, lease
<1>7. CASE TimerStep
  <2>1. CASE Tick
    BY <2>1 DEF Tick, GateTypes, Limit, lease
  <2> QED BY <1>0, <1>7, <2>1, Zenon DEF TimerStep, GateWakes, PaceEnds,
            PacerFires, gateData, gate, lease
<1>8. CASE HoldExpires \/ UNCHANGED vars
  BY <1>0, <1>8, Zenon DEF HoldExpires, vars, gateData, gate, lease
<1> QED BY <1>1, <1>2, <1>3, <1>4, <1>5, <1>6, <1>7, <1>8, <1>9,
          NextCases, Zenon

order == <<ahead, fair, cursor, round>>

\* A group in the list has a place in it.
LEMMA PositionInList ==
  ASSUME OrderTypes, NEW g, InFair(g)
  PROVE  Position(g) \in 1 .. Len(fair)
<1>1. \E i \in DOMAIN fair : fair[i] = g
  BY DEF InFair
<1>2. Position(g) \in DOMAIN fair
  BY <1>1, Zenon DEF Position
<1> QED BY <1>2 DEF OrderTypes

\* Adding a group, taking one out and rotating the list leave a list.
LEMMA FairTyped ==
  ASSUME OrderTypes
  PROVE  /\ \A g \in Groups : Mark(g) => fair' \in Seq(Groups)
         /\ \A g : Unmark(g) => fair' \in Seq(Groups)
         /\ Rotation \in Seq(Groups)
<1>1. \A g \in Groups : Mark(g) => fair' \in Seq(Groups)
  BY DEF Mark, OrderTypes
<1>2. ASSUME NEW i \in 1 .. Len(fair)
      PROVE  /\ SubSeq(fair, 1, i - 1) \in Seq(Groups)
             /\ SubSeq(fair, 1, i) \in Seq(Groups)
             /\ SubSeq(fair, i + 1, Len(fair)) \in Seq(Groups)
  BY DEF OrderTypes
<1>3. \A s, t \in Seq(Groups) : s \o t \in Seq(Groups)
  OBVIOUS
<1>4. \A g : Unmark(g) => fair' \in Seq(Groups)
  BY <1>2, <1>3, PositionInList DEF Unmark, OrderTypes
<1>5. Rotation \in Seq(Groups)
  <2>1. CASE \E g \in cursor : InFair(g)
    <3>1. InFair(CHOOSE g \in cursor : InFair(g))
      BY <2>1, Zenon
    <3> DEFINE i == Position(CHOOSE g \in cursor : InFair(g))
    <3>2. i \in 1 .. Len(fair)
      BY <3>1, PositionInList, Zenon
    <3>3. Rotation = SubSeq(fair, i + 1, Len(fair)) \o SubSeq(fair, 1, i)
      BY <2>1, Zenon DEF Rotation
    <3> HIDE DEF i
    <3> QED BY <1>2, <1>3, <3>2, <3>3
  <2> QED BY <2>1 DEF Rotation, OrderTypes
<1> QED BY <1>1, <1>4, <1>5

\* A drain's end and its turns keep the types of its walk.
LEMMA TurnTyped ==
  ASSUME OrderTypes, WalkTypes, NEW d \in Drainers, FinishDrain(d) \/ NextTurn(d)
  PROVE  round' \in [Drainers -> Seq(Groups)] /\ WalkTypes'
<1>1. CASE FinishDrain(d)
  BY <1>1 DEF FinishDrain, OrderTypes, WalkTypes
<1>2. CASE NextTurn(d)
  <2>1. \/ FinishDrain(d)
        \/ /\ UNCHANGED <<tomark, found, round, productive, served>>
           /\ at' = [at EXCEPT ![d] = @ + 1]
        \/ /\ UNCHANGED <<tomark, found, round, served>>
           /\ productive' = productive \ {d} /\ at' = [at EXCEPT ![d] = 1]
        \/ UNCHANGED <<tomark, found, walk>>
    BY <1>2, Zenon DEF NextTurn
  <2>2. CASE UNCHANGED <<tomark, found, round, productive, served>>
             /\ at' = [at EXCEPT ![d] = @ + 1]
    BY <2>2 DEF OrderTypes, WalkTypes
  <2>3. CASE /\ UNCHANGED <<tomark, found, round, served>>
             /\ productive' = productive \ {d} /\ at' = [at EXCEPT ![d] = 1]
    BY <2>3 DEF OrderTypes, WalkTypes
  <2>4. CASE UNCHANGED <<tomark, found, walk>>
    BY <2>4 DEF OrderTypes, WalkTypes, walk
  <2> QED BY <1>1, <2>1, <2>2, <2>3, <2>4
<1> QED BY <1>1, <1>2

\* Starting a drain keeps the types of the walks.
LEMMA StartTyped ==
  ASSUME WalkTypes, NEW d \in Drainers, NEW g \in Groups, StartDrain(d, g)
  PROVE  WalkTypes' /\ UNCHANGED round
BY DEF StartDrain, WalkTypes, walk

\* removeWaiter keeps the order and the walks well typed.
LEMMA RemoveOrderTyped ==
  ASSUME OrderTypes, WalkTypes, NEW r \in Requests, removeWaiter(r)
  PROVE  OrderTypes' /\ WalkTypes'
<1>0. GroupOf[r] \in Groups /\ r \in Drainers
  BY AdmissionAssumption DEF Drainers
<1>1. UNCHANGED drains \/ StartDrain(r, GroupOf[r])
  BY DEF removeWaiter, RemoveQueued, RemoveGranted
<1>2. WalkTypes' /\ UNCHANGED round
  BY <1>0, <1>1, StartTyped DEF WalkTypes, drains, walk
<1>3. fair' \in Seq(Groups)
  BY FairTyped DEF removeWaiter, RemoveQueued, RemoveGranted, OrderTypes
<1>4. ahead' \in [Requests -> SUBSET Requests]
  BY DEF removeWaiter, RemoveQueued, RemoveGranted, Unlink, OrderTypes
<1> QED BY <1>2, <1>3, <1>4 DEF OrderTypes, removeWaiter

\* A drain's steps keep the order and the walks well typed.
LEMMA DrainOrderTyped ==
  ASSUME OrderTypes, WalkTypes, NEW d \in Drainers, DrainStep(d)
  PROVE  OrderTypes' /\ WalkTypes'
<1>0. \A g : Queue(g) # {} \/ First(g) # {} => g \in Groups
  BY AdmissionAssumption DEF Queue, First, Members
<1>1. ASSUME UNCHANGED <<ahead, fair, cursor>>,
             \/ FinishDrain(d) \/ NextTurn(d)
             \/ UNCHANGED <<tomark, found, walk>>
      PROVE  OrderTypes' /\ WalkTypes'
  BY <1>1, TurnTyped DEF OrderTypes, WalkTypes, walk
<1>2. ASSUME NEW g \in Groups, MarkGroup(d, g)
      PROVE  OrderTypes' /\ WalkTypes'
  <2>1. fair' \in Seq(Groups) /\ UNCHANGED <<ahead, cursor>>
    BY <1>2, FairTyped DEF MarkGroup, MarkingGroup, OrderTypes, slots
  <2>2. \/ FinishDrain(d)
        \/ /\ tomark' = [tomark EXCEPT ![d] = tomark[d] \ {g}]
           /\ found' = found \cup {d} \/ found' = found
           /\ UNCHANGED walk
    BY <1>2, Zenon DEF MarkGroup, MarkingGroup
  <2>3. round' \in [Drainers -> Seq(Groups)] /\ WalkTypes'
    BY <2>2, TurnTyped DEF OrderTypes, WalkTypes, walk
  <2> QED BY <2>1, <2>3 DEF OrderTypes
<1>3. CASE CheckProvider(d) \/ Peek(d) \/ CheckCapacity(d)
  BY <1>1, <1>3, Zenon DEF CheckProvider, Peek, CheckCapacity, slots, index
<1>4. CASE fairSnapshot(d)
  <2>1. cursor' \subseteq Groups /\ UNCHANGED <<ahead, fair>>
    BY <1>4 DEF fairSnapshot, OrderTypes, slots
  <2>2. round' \in [Drainers -> Seq(Groups)] /\ WalkTypes'
    <3>1. CASE fair = <<>>
      BY <1>4, <3>1, TurnTyped DEF fairSnapshot
    <3>2. CASE fair # <<>>
      BY <1>4, <3>2, FairTyped DEF fairSnapshot, OrderTypes, WalkTypes
    <3> QED BY <3>1, <3>2
  <2> QED BY <2>1, <2>2 DEF OrderTypes
<1>5. CASE advanceFair(d)
  <2>1. cursor' \subseteq Groups /\ UNCHANGED <<ahead, fair>>
    BY <1>5 DEF advanceFair, WalkTypes, slots
  <2>2. round' \in [Drainers -> Seq(Groups)] /\ WalkTypes'
    BY <1>5, TurnTyped DEF advanceFair
  <2> QED BY <2>1, <2>2 DEF OrderTypes
<1>6. CASE KickPolicy(d)
  BY <1>6 DEF KickPolicy, DrainAll, OrderTypes, WalkTypes, slots, index, walk
<1>7. ASSUME NEW g, ServeNone(d, g) \/ ServeRefused(d, g)
      PROVE  OrderTypes' /\ WalkTypes'
  <2>1. fair' \in Seq(Groups) /\ UNCHANGED <<ahead, cursor>>
    BY <1>0, <1>7, FairTyped DEF ServeNone, ServeRefused, slots
  <2>2. round' \in [Drainers -> Seq(Groups)] /\ WalkTypes'
    BY <1>7, TurnTyped DEF ServeNone, ServeRefused
  <2> QED BY <2>1, <2>2 DEF OrderTypes
<1>8. ASSUME NEW g, ServeGrants(d, g)
      PROVE  OrderTypes' /\ WalkTypes'
  <2>1. PICK r \in First(g) :
          /\ Unlink(r)
          /\ IF \E x \in queued : r \in ahead[x] THEN UNCHANGED fair ELSE Unmark(g)
    BY <1>8 DEF ServeGrants
  <2>2. g \in Groups
    BY <1>0
  <2>3. /\ ahead' \in [Requests -> SUBSET Requests]
        /\ fair' \in Seq(Groups)
    BY <2>1, FairTyped DEF Unlink, OrderTypes
  <2>4. WalkTypes' /\ UNCHANGED <<cursor, round>>
    BY <1>8, <2>2 DEF ServeGrants, WalkTypes
  <2> QED BY <2>3, <2>4 DEF OrderTypes
<1> QED BY <1>2, <1>3, <1>4, <1>5, <1>6, <1>7, <1>8, Zenon DEF DrainStep,
          drainLimited

\* Every step keeps the order and the walks well typed.
LEMMA OrderTyped ==
  ASSUME OrderTypes, WalkTypes, [Next]_vars
  PROVE  OrderTypes' /\ WalkTypes'
<1>0. UNCHANGED order /\ UNCHANGED drains => OrderTypes' /\ WalkTypes'
  BY DEF order, drains, walk, OrderTypes, WalkTypes
<1>1. ASSUME NEW d \in Drainers, NEW g \in Groups, StartDrain(d, g),
             UNCHANGED <<ahead, fair, cursor>>
      PROVE  OrderTypes' /\ WalkTypes'
  BY <1>1, StartTyped DEF OrderTypes
<1>2. \A r \in Requests : GroupOf[r] \in Groups /\ r \in Drainers
  BY AdmissionAssumption DEF Drainers
<1>3. ASSUME NEW r \in Requests, AcquireFast(r)
      PROVE  OrderTypes' /\ WalkTypes'
  BY <1>0, <1>3 DEF AcquireFast, order, drains, walk, index
<1>4. ASSUME NEW r \in Requests, AcquireQueues(r)
      PROVE  OrderTypes' /\ WalkTypes'
  <2>1. WalkTypes' /\ UNCHANGED round
    BY <1>2, <1>4, StartTyped DEF AcquireQueues
  <2>2. ahead' \in [Requests -> SUBSET Requests]
    BY <1>4 DEF AcquireQueues, OrderTypes, Queue, Members
  <2> QED BY <1>4, <2>1, <2>2 DEF AcquireQueues, OrderTypes, index
<1>10. ASSUME NEW r \in Requests, Door(r)
       PROVE  OrderTypes' /\ WalkTypes'
  BY <1>0, <1>10, DoorStep DEF order, drains, walk, slots, index
<1>5. ASSUME NEW r \in Requests, WaitExpires(r) \/ Abort(r) \/ Pace(r)
      PROVE  OrderTypes' /\ WalkTypes'
  BY <1>0, <1>5, RemoveOrderTyped, Zenon DEF WaitExpires, Abort, Pace, order,
    drains, walk, slots, index
<1>6. ASSUME NEW r \in Requests, RequestStep(r)
      PROVE  OrderTypes' /\ WalkTypes'
  BY <1>0, <1>1, <1>2, <1>6, RemoveOrderTyped, Zenon DEF RequestStep, DrainCheck,
    SnapshotKicks, HoldRead, ReadGrant, Wake, UntilFires,
    WaitCancelled, ReleaseSettles, release, order, drains, walk, slots, index
<1>7. ASSUME NEW d \in Drainers, Operate(d)
      PROVE  OrderTypes' /\ WalkTypes'
  BY <1>7 DEF Operate, SetHold, DrainQueue, UpdateThrottle,
    UpdateThrottleClearing, DrainAll, OrderTypes, WalkTypes, slots, index, walk
<1>8. CASE TimerStep
  <2>1. ASSUME NEW d \in Drainers, GateWakes(d)
        PROVE  OrderTypes' /\ WalkTypes'
    BY <2>1 DEF GateWakes, OrderTypes, WalkTypes, slots, index, walk
  <2> QED BY <1>0, <1>1, <1>8, <2>1, Zenon DEF TimerStep, Tick, PaceEnds,
            PacerFires, order, drains, walk, slots, index
<1>9. CASE HoldExpires \/ UNCHANGED vars
  BY <1>0, <1>9, Zenon DEF HoldExpires, vars, order, drains, walk, slots, index
<1> QED BY <1>3, <1>4, <1>5, <1>6, <1>7, <1>8, <1>9, <1>10, DrainOrderTyped, NextCases,
          Zenon

(***************************************************************************)
(* The policy variables are sets of requests and a few flags: they change  *)
(* by adding a request or taking requests out.                             *)
(***************************************************************************)
policyData == <<windows, policy, channels, cancelled>>

\* removeWaiter keeps the types of the policy data.
LEMMA RemovePolicyTyped ==
  ASSUME PolicyTypes, NEW r \in Requests, removeWaiter(r),
         UNCHANGED interventions \/ Intervene("maxWait")
  PROVE  PolicyTypes'
BY DEF PolicyTypes, removeWaiter, Forget, Intervene, windows, caps

\* Every step keeps the types of the policy data.
LEMMA PolicyTyped ==
  ASSUME PolicyTypes, SlotTypes, [Next]_vars
  PROVE  PolicyTypes'
<1>0. UNCHANGED policyData => PolicyTypes'
  BY DEF policyData, windows, caps, policy, channels, PolicyTypes
<1>1. ASSUME NEW r \in Requests, AcquireFast(r) \/ AcquireQueues(r)
      PROVE  PolicyTypes'
  BY <1>0, <1>1, Zenon DEF AcquireFast, AcquireQueues, policyData
<1>11. ASSUME NEW r \in Requests, NEW next \in Caps, groupForLocked(r, next)
       PROVE  PolicyTypes'
  <2>1. next \in Nat /\ GroupOf[r] \in Groups
    BY AdmissionAssumption
  <2>2. cap' \in [Groups -> Nat] /\ raised' \subseteq Groups
    BY <1>11, <2>1 DEF groupForLocked, PolicyTypes
  <2>3. interventions' \in Nat
    BY <1>11 DEF groupForLocked, Intervene, PolicyTypes
  <2> QED BY <1>11, <2>2, <2>3 DEF groupForLocked, PolicyTypes, channels
<1>12. ASSUME NEW r \in Requests, AcquireRefused(r)
       PROVE  PolicyTypes'
  BY <1>0, <1>12, Zenon DEF AcquireRefused, policyData
<1>13. ASSUME NEW r \in Requests, Door(r)
       PROVE  PolicyTypes'
  BY <1>11, <1>12, <1>13, Zenon DEF Door
<1>2. ASSUME NEW r \in Requests, WaitExpires(r)
      PROVE  PolicyTypes'
  BY <1>2, RemovePolicyTyped DEF WaitExpires
<1>3. ASSUME NEW r \in Requests, Abort(r)
      PROVE  PolicyTypes'
  BY <1>3 DEF Abort, Intervene, PolicyTypes, windows, caps, channels
<1>4. ASSUME NEW r \in Requests, Pace(r)
      PROVE  PolicyTypes'
  BY <1>4, AdmissionAssumption DEF Pace, Intervene, PolicyTypes, caps
<1>5. ASSUME NEW r \in Requests, RequestStep(r)
      PROVE  PolicyTypes'
  <2>1. CASE DrainCheck(r)
    BY <1>0, <2>1, RemovePolicyTyped, Zenon DEF DrainCheck, policyData
  <2>2. CASE SnapshotKicks(r) \/ HoldRead(r) \/ Wake(r) \/ UntilFires(r)
    BY <2>2 DEF SnapshotKicks, HoldRead, Wake, UntilFires,
      PolicyTypes, windows, caps, policy
  <2>3. CASE ReadGrant(r)
    BY <2>3 DEF ReadGrant, Forget, PolicyTypes, windows, caps
  <2>4. CASE WaitCancelled(r)
    BY <2>4, RemovePolicyTyped DEF WaitCancelled
  <2>5. CASE release(r) \/ \E actual \in Actual : ReleaseSettles(r, actual)
    BY <1>0, <2>5, Zenon DEF release, ReleaseSettles, policyData
  <2> QED BY <1>5, <2>1, <2>2, <2>3, <2>4, <2>5, Zenon DEF RequestStep
<1>6. ASSUME NEW d \in Drainers, DrainStep(d)
      PROVE  PolicyTypes'
  <2>1. CASE KickPolicy(d)
    BY <2>1 DEF KickPolicy, PolicyTypes, windows, caps, policy
  <2>2. ASSUME NEW g \in Groups, MarkGroup(d, g) PROVE PolicyTypes'
    <3>1. /\ raised' = raised \ {g}
          /\ UNCHANGED <<paced, due, cap, policy, channels, cancelled>>
      BY <2>2, Zenon DEF MarkGroup, MarkingGroup
    <3> QED BY <3>1 DEF PolicyTypes, policy, channels
  <2> QED BY <1>0, <1>6, <2>1, <2>2, Zenon DEF DrainStep,
            CheckProvider, fairSnapshot, Peek, drainLimited, ServeNone,
            ServeRefused, ServeGrants, CheckCapacity, advanceFair, policyData
<1>7. ASSUME NEW d \in Drainers, Operate(d)
      PROVE  PolicyTypes'
  <2>1. ASSUME NEW next \in {"none", "manual", "timed"}, SetHold(d, next)
        PROVE  PolicyTypes'
    BY <2>1 DEF SetHold, Intervene, PolicyTypes, windows, caps
  <2>2. CASE DrainQueue(d)
    BY <2>2 DEF DrainQueue, Intervene, PolicyTypes, SlotTypes, windows, caps, channels
  <2>3. ASSUME NEW next \in Limits, UpdateThrottle(d, next)
        PROVE  PolicyTypes'
    BY <2>3 DEF UpdateThrottle, UpdateThrottleClearing, Intervene, PolicyTypes,
      channels, caps
  <2> QED BY <1>7, <2>1, <2>2, <2>3, Zenon DEF Operate
<1>8. CASE TimerStep
  BY <1>8 DEF TimerStep, Tick, GateWakes, PaceEnds, PacerFires, PolicyTypes,
    policy, channels, caps
<1>9. CASE HoldExpires
  BY <1>9 DEF HoldExpires, PolicyTypes, windows, caps, channels
<1>10. CASE UNCHANGED vars
  BY <1>0, <1>10, Zenon DEF vars, policyData
<1> QED BY <1>1, <1>2, <1>3, <1>4, <1>5, <1>6, <1>7, <1>8, <1>9, <1>10,
          <1>13, NextCases, Zenon

(***************************************************************************)
(* The theorems.                                                           *)
(***************************************************************************)
\* TypeOK and the position of the drains are inductive together.
TypeInv == TypeOK /\ DrainersStand

\* Both hold of every behaviour.
LEMMA TypeInvariant == Spec => []TypeInv
<1>1. Init => TypeInv
  <2>1. Init => SlotTypes /\ GateTypes
    BY AdmissionAssumption DEF Init, SlotTypes, GateTypes, Limit, Points, Jobs
  <2>2. Init => OrderTypes /\ WalkTypes /\ PolicyTypes
    BY AdmissionAssumption DEF Init, OrderTypes, WalkTypes, PolicyTypes
  <2>3. Init => DrainersStand
    BY DEF Init, DrainersStand, Drainers
  <2> QED BY <2>1, <2>2, <2>3, TypeBlocks DEF TypeInv
<1>2. TypeInv /\ [Next]_vars => TypeInv'
  <2> SUFFICES ASSUME TypeInv, [Next]_vars PROVE TypeInv'
    OBVIOUS
  <2>1. /\ SlotTypes /\ GateTypes /\ OrderTypes /\ WalkTypes /\ PolicyTypes
        /\ DrainersStand
    BY TypeBlocks DEF TypeInv
  <2>2. GateTypes' /\ OrderTypes' /\ WalkTypes' /\ PolicyTypes'
    BY <2>1, GateTyped, OrderTyped, PolicyTyped
  <2>3. Shape /\ DrainersStand'
    BY <2>1, StepShape
  <2>4. SlotTypes'
    BY <2>1, <2>2, <2>3, CountedTyped, ControlStep, MovesTyped DEF SlotTypes,
      GateTypes
  <2>5. TypeOK'
    BY <2>2, <2>4 DEF TypeOK, SlotTypes, GateTypes, OrderTypes, WalkTypes,
      PolicyTypes
  <2> QED BY <2>3, <2>5 DEF TypeInv
<1> QED BY <1>1, <1>2, PTL DEF Spec

\* Every variable of the scheduler keeps its type.
THEOREM TypeCorrect == Spec => []TypeOK
<1>1. TypeInv => TypeOK
  BY DEF TypeInv
<1> QED BY <1>1, TypeInvariant, PTL

\* The inductive invariant of the counters.
SlotsInductive == TypeInv /\ SlotInv

\* The inductive invariant holds of every behaviour.
LEMMA SlotInvariant == Spec => []SlotsInductive
<1>1. Init => SlotInv
  <2> SUFFICES ASSUME Init PROVE SlotInv
    OBVIOUS
  <2>1. /\ \A r \in Requests : pc[r] = "idle" /\ leaseGen[r] = 0
        /\ queued = {} /\ granted = {} /\ gateGen = 1 /\ gateInFlight = 0
        /\ \A g \in Groups : inFlight[g] = 0
    BY DEF Init
  <2>2. GrantOrQueued
    BY <2>1 DEF GrantOrQueued, Waiting, Parks
  <2>3. LeasesHeld
    BY <2>1 DEF LeasesHeld
  <2>4. ASSUME NEW g \in Groups
        PROVE  inFlight[g] = Cardinality({r \in Members(g) : Holds(r)})
    <3>1. {r \in Members(g) : Holds(r)} = {}
      BY <2>1 DEF Members, Holds
    <3> QED BY <2>1, <3>1, FS_EmptySet
  <2>5. GateExact
    <3>1. {r \in Requests : leaseGen[r] = gateGen} = {}
      BY <2>1
    <3> QED BY <2>1, <3>1, FS_EmptySet DEF GateExact
  <2> QED BY <2>2, <2>3, <2>4, <2>5 DEF SlotInv, SlotsExact
<1>2. TypeInv /\ TypeInv' /\ SlotInv /\ [Next]_vars => SlotInv'
  <2> SUFFICES ASSUME TypeInv, TypeInv', SlotInv, [Next]_vars PROVE SlotInv'
    OBVIOUS
  <2>1. SlotTypes /\ DrainersStand
    BY TypeBlocks DEF TypeInv
  <2>2. SlotTypes'
    BY DEF TypeInv, TypeOK, SlotTypes
  <2>3. Shape
    BY <2>1, StepShape
  <2> QED BY <2>1, <2>2, <2>3, MembershipStep, LeasesStep, SlotsStep, GateStep
            DEF SlotInv
<1>3. Spec => []TypeInv
  BY TypeInvariant
<1> QED BY <1>1, <1>2, <1>3, PTL DEF Spec, SlotsInductive

\* A group's inFlight always counts exactly the requests that hold its slots,
\* however grants, cancellations, timeouts and drains interleave (drainLimited,
\* removeWaiter, release).
THEOREM CountersExact == Spec => []SlotsExact
<1>1. SlotsInductive => SlotsExact
  BY DEF SlotsInductive, SlotInv
<1> QED BY <1>1, SlotInvariant, PTL

\* The gate's inFlight always counts exactly the leases taken from the
\* installed gate, through every clear and reinstall (tryAdmit, settle).
THEOREM LeasesExact == Spec => []GateExact
<1>1. SlotsInductive => GateExact
  BY DEF SlotsInductive, SlotInv
<1> QED BY <1>1, SlotInvariant, PTL

\* Every waiter is either queued or granted, so removeWaiter reads a grant
\* correctly from its absence in the queue.
THEOREM WaitersAccounted == Spec => []GrantOrQueued
<1>1. SlotsInductive => GrantOrQueued
  BY DEF SlotsInductive, SlotInv
<1> QED BY <1>1, SlotInvariant, PTL

(***************************************************************************)
(* Refinement: each shape is a step of Slots or stutters.                  *)
(***************************************************************************)
holdersNow == {r \in Requests : Holds(r)}

\* Slots counts as this module does.
LEMMA SameCardinality == \A S : Promise!Cardinality(S) = Cardinality(S)
BY Zenon DEF Promise!Cardinality, Cardinality, Promise!IsFiniteSet, IsFiniteSet

\* A step that takes a slot is a grant that Slots allows.
LEMMA TakesGrants ==
  ASSUME SlotTypes, SlotInv, PolicyTypes, UNCHANGED cap, NEW r \in Requests, Takes(r)
  PROVE  Promise!Grant(r)
<1>0. GroupOf[r] \in Groups /\ cap[GroupOf[r]] \in Nat
  BY AdmissionAssumption DEF PolicyTypes
<1>1. RequestShape(r)
  BY DEF RequestShape
<1>2. ~Holds(r) /\ Holds(r)'
  BY DEF Takes, PhaseKept, Holds, SlotInv, GrantOrQueued, Over, Waiting, Parks
<1>3. \A x \in Requests : x # r => (Holds(x)' <=> Holds(x))
  BY <1>1, OthersHold
<1>4. holdersNow' = holdersNow \cup {r} /\ r \notin holdersNow
  BY <1>2, <1>3 DEF holdersNow
<1>5. {x \in holdersNow : GroupOf[x] = GroupOf[r]}
        = {x \in Members(GroupOf[r]) : Holds(x)}
  BY DEF holdersNow, Members
<1>6. \/ cap[GroupOf[r]] = 0
      \/ Cardinality({x \in holdersNow : GroupOf[x] = GroupOf[r]})
           < cap[GroupOf[r]]
  BY <1>0, <1>5 DEF Takes, WindowOpen, SlotInv, SlotsExact
<1>7. limit.concurrency = 0 \/ Cardinality(Leases) < limit.concurrency
  BY DEF Takes, ConcurrencyFull, SlotInv, GateExact, Leases, SlotTypes, Limit
<1>8. Leases' \in {Leases, Leases \cup {r}}
  BY DEF Takes, LeaseTaken, Leases, SlotTypes
<1> QED BY <1>4, <1>6, <1>7, <1>8, SameCardinality DEF Promise!Grant, Promise!RoomInGroup,
          Promise!RoomAtGate, holdersNow, Leases, Takes

\* A step that frees a slot, with its lease when it has one left.
LEMMA FreedFrees ==
  ASSUME SlotTypes, SlotInv, UNCHANGED cap, NEW r \in Requests, Frees(r) \/ GivesBack(r)
  PROVE  Promise!Free(r)
<1>1. RequestShape(r)
  BY DEF RequestShape
<1>2. Holds(r) /\ ~Holds(r)'
  BY DEF Frees, GivesBack, Holds, SlotInv, GrantOrQueued, Over, Waiting, Parks
<1>3. \A x \in Requests : x # r => (Holds(x)' <=> Holds(x))
  BY <1>1, OthersHold
<1>4. holdersNow' = holdersNow \ {r} /\ r \in holdersNow
  BY <1>2, <1>3 DEF holdersNow
<1>5. Leases' = Leases \ {r}
  <2>1. CASE Frees(r)
    <3>1. leaseGen[r] # gateGen
      BY <2>1 DEF Frees, SlotInv, LeasesHeld, GrantOrQueued, SlotTypes, Waiting,
        Parks
    <3> QED BY <2>1, <3>1 DEF Frees, Leases
  <2>2. CASE GivesBack(r)
    BY <2>2 DEF GivesBack, LeaseSettled, Leases, SlotTypes
  <2> QED BY <2>1, <2>2
<1> QED BY <1>4, <1>5 DEF Promise!Free, holdersNow, Leases, Frees, GivesBack

\* A step that settles a lease, or had none of this gate to settle.
LEMMA EndsSettles ==
  ASSUME SlotTypes, SlotInv, UNCHANGED cap, NEW r \in Requests, Ends(r)
  PROVE  Promise!Settle(r) \/ UNCHANGED <<holdersNow, Leases, limit>>
<1>1. RequestShape(r)
  BY DEF RequestShape
<1>2. Holds(r) /\ Holds(r)'
  BY DEF Ends, Holds
<1>3. \A x \in Requests : x # r => (Holds(x)' <=> Holds(x))
  BY <1>1, OthersHold
<1>4. holdersNow' = holdersNow
  BY <1>2, <1>3 DEF holdersNow
<1>5. Leases' = Leases \ {r} /\ limit' = limit
  BY DEF Ends, LeaseSettled, Leases, SlotTypes
<1>6. CASE r \in Leases
  BY <1>4, <1>5, <1>6 DEF Promise!Settle, holdersNow, Leases
<1>7. CASE r \notin Leases
  BY <1>4, <1>5, <1>7
<1> QED BY <1>6, <1>7

\* An edit of the limit keeps the leases or forgets them all.
LEMMA EditsSetCap ==
  ASSUME SlotTypes, SlotTypes', SlotInv, UNCHANGED cap, Edits
  PROVE  Promise!SetCap
<1>1. holdersNow' = holdersNow
  BY DEF Edits, holdersNow, Holds
<1>2. Leases' \in {Leases, {}}
  <2>1. CASE Inactive(limit')
    BY <2>1 DEF Edits, Leases, SlotInv, LeasesHeld, SlotTypes
  <2>2. CASE ~Inactive(limit')
    BY <2>2 DEF Edits, Leases
  <2> QED BY <2>1, <2>2
<1>3. limit'.concurrency \in Nat
  BY DEF SlotTypes, Limit
<1> QED BY <1>1, <1>2, <1>3 DEF Promise!SetCap, holdersNow, Leases

\* The other shapes leave holders and leases alone.
LEMMA OtherShapesStutter ==
  ASSUME SlotTypes, SlotInv,
         \/ Still
         \/ \E r \in Requests : Joins(r) \/ Leaves(r) \/ Reads(r)
  PROVE  UNCHANGED <<holdersNow, Leases, limit>>
<1>1. CASE Still
  BY <1>1 DEF Still, counted, holdersNow, Holds, PhaseKept, Leases
<1>2. ASSUME NEW r \in Requests, Joins(r) \/ Leaves(r) \/ Reads(r)
      PROVE  UNCHANGED <<holdersNow, Leases, limit>>
  <2>1. RequestShape(r)
    BY <1>2 DEF RequestShape
  <2>2. \A x \in Requests : x # r => (Holds(x)' <=> Holds(x))
    BY <2>1, OthersHold
  <2>3. Holds(r)' <=> Holds(r)
    BY <1>2 DEF Joins, Leaves, Reads, Holds, SlotInv, GrantOrQueued, Over,
      Waiting, Parks
  <2>4. UNCHANGED <<Leases, limit>>
    BY <1>2 DEF Joins, Leaves, Reads, Leases
  <2> QED BY <2>2, <2>3, <2>4 DEF holdersNow
<1> QED BY <1>1, <1>2

\* Only a request that brings a cap changes one.
LEMMA CapKept ==
  ASSUME [Next]_vars
  PROVE  \/ UNCHANGED cap
         \/ \E r \in Requests, next \in Caps : groupForLocked(r, next)
<1>1. UNCHANGED windows => UNCHANGED cap
  BY DEF windows, caps
<1>2. UNCHANGED caps => UNCHANGED cap
  BY DEF caps
<1>3. ASSUME NEW r \in Requests, AcquireFast(r) \/ AcquireQueues(r) PROVE UNCHANGED cap
  BY <1>1, <1>3, Zenon DEF AcquireFast, AcquireQueues
<1>4. ASSUME NEW r \in Requests, AcquireRefused(r) PROVE UNCHANGED cap
  BY <1>1, <1>4, Zenon DEF AcquireRefused
<1>5. ASSUME NEW r \in Requests, WaitExpires(r) \/ Abort(r) \/ Pace(r) PROVE UNCHANGED cap
  BY <1>1, <1>2, <1>5, Zenon DEF WaitExpires, removeWaiter, Abort, Pace
<1>6. ASSUME NEW r \in Requests, RequestStep(r) PROVE UNCHANGED cap
  BY <1>1, <1>6, Zenon DEF RequestStep, DrainCheck, SnapshotKicks, HoldRead, removeWaiter,
    ReadGrant, Wake, UntilFires, WaitCancelled, ReleaseSettles, release
<1>7. ASSUME NEW d \in Drainers, DrainStep(d) PROVE UNCHANGED cap
  BY <1>1, <1>7, Zenon DEF DrainStep, MarkGroup, MarkingGroup, CheckProvider, fairSnapshot,
    Peek, drainLimited, ServeNone, ServeRefused, ServeGrants, CheckCapacity, advanceFair,
    KickPolicy
<1>8. ASSUME NEW d \in Drainers, Operate(d) PROVE UNCHANGED cap
  BY <1>1, <1>2, <1>8, Zenon DEF Operate, SetHold, DrainQueue, UpdateThrottle,
    UpdateThrottleClearing
<1>9. CASE TimerStep
  BY <1>2, <1>9, Zenon DEF TimerStep, Tick, GateWakes, PaceEnds, PacerFires
<1>10. CASE HoldExpires \/ UNCHANGED vars
  BY <1>1, <1>10, Zenon DEF HoldExpires, vars
<1> QED BY <1>3, <1>4, <1>5, <1>6, <1>7, <1>8, <1>9, <1>10, NextCases, Zenon DEF Door

\* Such a request moves nothing else that Slots sees.
LEMMA LookupSetsGroupCap ==
  ASSUME SlotTypes, PolicyTypes, PolicyTypes', NEW r \in Requests, NEW next \in Caps,
         groupForLocked(r, next)
  PROVE  Promise!SetGroupCap(GroupOf[r]) /\ GroupOf[r] \in Groups
<1>1. GroupOf[r] \in Groups
  BY AdmissionAssumption
<1>2. UNCHANGED <<granted, gateGen, leaseGen, limit>> /\ pc[r] = "idle"
      /\ Goto(r, "arriving")
  BY DEF groupForLocked, slots, gate, lease
<1>3. \A x \in Requests : Holds(x)' <=> Holds(x)
  BY <1>2 DEF Holds, Goto, SlotTypes
<1>4. holdersNow' = holdersNow /\ Leases' = Leases
  BY <1>2, <1>3 DEF holdersNow, Leases
<1>5. \A h \in Groups \ {GroupOf[r]} : cap'[h] = cap[h]
  BY DEF groupForLocked, PolicyTypes
<1>6. cap' \in [Groups -> Nat]
  BY DEF PolicyTypes
<1> QED BY <1>1, <1>2, <1>4, <1>5, <1>6 DEF Promise!SetGroupCap, holdersNow, Leases

\* The scheduler implements Slots: counted by the requests that really hold a
\* slot, no grant of AcquireWith or of a drain exceeds the group's cap or the
\* provider's concurrency in force then, whatever cap changes, throttle edits, cancellations and drains
\* happen on the way.
THEOREM AdmissionImplementsSlots == Spec => ImplementsSlots
<1>1. Init => Promise!Init
  <2> SUFFICES ASSUME Init PROVE Promise!Init
    OBVIOUS
  <2>1. {r \in Requests : Holds(r)} = {}
    BY DEF Init, Holds
  <2>2. {r \in Requests : leaseGen[r] = gateGen} = {}
    BY DEF Init
  <2>3. limit.concurrency \in Nat /\ cap \in [Groups -> Nat]
    BY AdmissionAssumption DEF Init, Limit
  <2> QED BY <2>1, <2>2, <2>3 DEF Promise!Init
<1>2. SlotsInductive /\ SlotsInductive' /\ [Next]_vars
        => [Promise!Next]_(Promise!svars)
  <2> SUFFICES ASSUME SlotsInductive, SlotsInductive', [Next]_vars
               PROVE  [Promise!Next]_(Promise!svars)
    OBVIOUS
  <2>1. SlotTypes /\ DrainersStand /\ SlotInv /\ PolicyTypes
    BY TypeBlocks DEF SlotsInductive, TypeInv
  <2>2. SlotTypes' /\ PolicyTypes'
    BY DEF SlotsInductive, TypeInv, TypeOK, SlotTypes, PolicyTypes
  <2>3. Shape
    BY <2>1, StepShape
  <2>4. UNCHANGED <<holdersNow, Leases, limit, cap>> => UNCHANGED Promise!svars
    BY DEF holdersNow, Leases, Promise!svars
  <2>5. CASE UNCHANGED cap
    <3>1. \/ UNCHANGED <<holdersNow, Leases, limit>>
          \/ Promise!SetCap
          \/ \E r \in Requests :
               Promise!Grant(r) \/ Promise!Settle(r) \/ Promise!Free(r)
      BY <2>1, <2>2, <2>3, <2>5, TakesGrants, FreedFrees, EndsSettles, EditsSetCap,
        OtherShapesStutter, Zenon DEF Shape, RequestShape
    <3> QED BY <2>4, <2>5, <3>1, Zenon DEF Promise!Next
  <2>6. ASSUME NEW r \in Requests, NEW next \in Caps, groupForLocked(r, next)
        PROVE  Promise!Next
    <3>1. Promise!SetGroupCap(GroupOf[r]) /\ GroupOf[r] \in Groups
      BY <2>1, <2>2, <2>6, LookupSetsGroupCap
    <3> QED BY <3>1, Zenon DEF Promise!Next
  <2> QED BY <2>5, <2>6, CapKept
<1> QED BY <1>1, <1>2, SlotInvariant, PTL DEF Spec, ImplementsSlots, Promise!Spec

-----------------------------------------------------------------------------
(***************************************************************************)
(* Proofs about the waiters of Admission: nobody is left parked in acquire *)
(* whom the scheduler would let in, for any clients, groups and limits and *)
(* any number of drains at once.                                           *)
(*                                                                         *)
(* The argument is about a waiter that is asleep: it is parked, or ends    *)
(* the drain it runs before it parks, and nobody has kicked it.  Its group *)
(* is in the fair list or somebody is bound to put it there (Marked), and  *)
(* a group in the list has a drain that will still reach it or a timer     *)
(* that fires before its head could be let in (Walked).  A cap that was    *)
(* raised without a drain (RaisedUnseen) excuses both until a slot of the  *)
(* group is freed, which drains it.                                        *)
(***************************************************************************)

Asleep(r) ==
  /\ r \in queued /\ r \notin cancelled
  /\ r \in current /\ r \in sendCurrent
  /\ pc[r] = "parked" \/ (pc[r] = "redrain" /\ job[r] # "mark")

\* A queue is a strict total order.
QueueOrder ==
  \A r \in queued :
    /\ r \notin ahead[r] /\ ahead[r] \subseteq Queue(GroupOf[r])
    /\ \A x \in ahead[r] : ahead[x] \subseteq ahead[r]
    /\ \A x \in Queue(GroupOf[r]) : x = r \/ x \in ahead[r] \/ r \in ahead[x]

Walking == {"peek", "serve", "capacity"}
BeforeWalk == {"none", "kick", "mark", "count", "snapshot"}

\* A walk is inside its round, and every walk begins at its start.
WalksInside ==
  \A d \in Drainers :
    /\ job[d] \in Walking => at[d] \in 1 .. Len(round[d])
    /\ job[d] \in BeforeWalk => at[d] = 1

\* A request's drain has only its own group to mark, and then walks.
OwnMark ==
  \A r \in Requests :
    /\ job[r] # "kick"
    /\ job[r] = "mark" => r \in found /\ tomark[r] = {GroupOf[r]}

\* A waiter that has not been kicked since its snapshot still sees the hold
\* it read, unless that has expired.
HoldSeen ==
  \A r \in current :
    /\ pc[r] = "heldPark" => r \in HoldScope /\ (r \in timed \/ hold = "manual")
    /\ pc[r] \in {"redrain", "parked"} => ~Held(r)

\* Only a bucket arms the gate's timer.
TimerHasBucket == wake > 0 => limit.tokens > 0

\* Somebody will publish g in the fair list.
MarkPending(g) ==
  \/ g \in due
  \/ \E d \in Drainers : job[d] = "kick" \/ (job[d] = "mark" /\ g \in tomark[d])

\* A drain is bound to take a new look at the whole fair list.
Stirred ==
  \/ \E r \in Requests : pc[r] = "settled"
  \/ \E d \in Drainers :
       \/ job[d] \in {"kick", "count", "snapshot"}
       \/ job[d] = "mark" /\ (d \in found \/ tomark[d] = Groups)

\* The drain of d will still come to g.
Reaches(d, g) ==
  \/ job[d] = "mark" /\ g \in tomark[d]
  \/ /\ job[d] \in Walking
     /\ \E i \in 1 .. Len(round[d]) :
          /\ round[d][i] = g
          /\ d \in productive \/ i > at[d] \/ (i = at[d] /\ job[d] # "capacity")

WalkPending(g) ==
  Stirred \/ "gate" \in due \/ g \in due \/ \E d \in Drainers : Reaches(d, g)

Marked ==
  \A r \in Requests :
    Asleep(r) /\ WindowOpen(GroupOf[r])
      => InFair(GroupOf[r]) \/ MarkPending(GroupOf[r]) \/ RaisedUnseen(GroupOf[r])

\* The timer comes no later than the tokens that the head waits for.
Timed(r) == wake > 0 /\ (ahead[r] = {} => wake <= TokensNeeded(r) - tokens)

Walked ==
  \A r \in Requests :
    Asleep(r) /\ WindowOpen(GroupOf[r]) /\ InFair(GroupOf[r]) /\ ~ConcurrencyFull
      => WalkPending(GroupOf[r]) \/ Timed(r) \/ RaisedUnseen(GroupOf[r])

Base == TypeInv /\ GrantOrQueued
WakeInv ==
  /\ QueueOrder /\ WalksInside /\ OwnMark /\ HoldSeen /\ TimerHasBucket
  /\ Marked /\ Walked

(***************************************************************************)
(* The order of a queue.                                                   *)
(***************************************************************************)
\* Taking a waiter out keeps the order of the others.
LEMMA UnlinkOrder ==
  ASSUME queued \subseteq Requests, ahead \in [Requests -> SUBSET Requests],
         QueueOrder, NEW r \in Requests, Unlink(r)
  PROVE  QueueOrder'
<1>1. \A x \in queued' : x # r /\ x \in queued /\ ahead'[x] = ahead[x] \ {r}
  BY DEF Unlink
<1>2. \A g : Queue(g)' = Queue(g) \ {r}
  BY DEF Unlink, Queue, Members
<1>3. ASSUME NEW x \in queued'
      PROVE  /\ x \notin ahead'[x] /\ ahead'[x] \subseteq Queue(GroupOf[x])'
             /\ \A y \in ahead'[x] : ahead'[y] \subseteq ahead'[x]
             /\ \A y \in Queue(GroupOf[x])' : y = x \/ y \in ahead'[x] \/ x \in ahead'[y]
  <2>1. /\ x \notin ahead[x] /\ ahead[x] \subseteq Queue(GroupOf[x])
        /\ \A y \in ahead[x] : ahead[y] \subseteq ahead[x]
        /\ \A y \in Queue(GroupOf[x]) : y = x \/ y \in ahead[x] \/ x \in ahead[y]
    BY <1>1, <1>3 DEF QueueOrder
  <2>2. \A y \in Queue(GroupOf[x])' : y \in queued'
    BY DEF Queue
  <2>3. ahead'[x] \subseteq Queue(GroupOf[x])'
    BY <1>1, <1>2, <1>3, <2>1
  <2>4. \A y \in ahead'[x] : ahead'[y] = ahead[y] \ {r} /\ y \in ahead[x]
    BY <1>1, <1>3, <2>2, <2>3
  <2> QED BY <1>1, <1>2, <1>3, <2>1, <2>2, <2>3, <2>4
<1> QED BY <1>3 DEF QueueOrder

\* A waiter that joins at the end keeps the order.
LEMMA JoinOrder ==
  ASSUME queued \subseteq Requests, ahead \in [Requests -> SUBSET Requests],
         QueueOrder, NEW r \in Requests, r \notin queued,
         ahead' = [ahead EXCEPT ![r] = Queue(GroupOf[r])],
         queued' = queued \cup {r}
  PROVE  QueueOrder'
<1>1. /\ ahead'[r] = Queue(GroupOf[r])
      /\ \A x \in queued : ahead'[x] = ahead[x] /\ x # r
  OBVIOUS
<1>2. \A g : Queue(g)' = IF GroupOf[r] = g THEN Queue(g) \cup {r} ELSE Queue(g)
  BY DEF Queue, Members
<1>3. ASSUME NEW x \in queued
      PROVE  /\ x \notin ahead[x] /\ ahead[x] \subseteq Queue(GroupOf[x])
             /\ ahead[x] \subseteq queued
             /\ \A y \in ahead[x] : ahead[y] \subseteq ahead[x]
             /\ \A y \in Queue(GroupOf[x]) : y = x \/ y \in ahead[x] \/ x \in ahead[y]
  BY <1>3 DEF QueueOrder, Queue
<1>4. ASSUME NEW x \in queued
      PROVE  /\ x \notin ahead'[x] /\ ahead'[x] \subseteq Queue(GroupOf[x])'
             /\ \A y \in ahead'[x] : ahead'[y] \subseteq ahead'[x]
             /\ \A y \in Queue(GroupOf[x])' : y = x \/ y \in ahead'[x] \/ x \in ahead'[y]
  <2>1. x \in Queue(GroupOf[x])
    BY <1>4 DEF Queue, Members
  <2>2. GroupOf[r] = GroupOf[x] => x \in ahead'[r]
    BY <1>1, <2>1
  <2>3. \A y \in Queue(GroupOf[x]) : y \in queued
    BY DEF Queue
  <2> QED BY <1>1, <1>2, <1>3, <2>1, <2>2, <2>3
<1>5. /\ r \notin ahead'[r] /\ ahead'[r] \subseteq Queue(GroupOf[r])'
      /\ \A y \in ahead'[r] : ahead'[y] \subseteq ahead'[r]
      /\ \A y \in Queue(GroupOf[r])' : y = r \/ y \in ahead'[r] \/ r \in ahead'[y]
  <2>1. \A y \in Queue(GroupOf[r]) : y \in queued /\ GroupOf[y] = GroupOf[r]
    BY DEF Queue, Members
  <2> QED BY <1>1, <1>2, <1>3, <2>1
<1> QED BY <1>4, <1>5 DEF QueueOrder

\* What a step does to the queues.
Unlinks == \E r \in Requests : Unlink(r)
Joining(r) ==
  /\ r \notin queued
  /\ ahead' = [ahead EXCEPT ![r] = Queue(GroupOf[r])]
  /\ queued' = queued \cup {r}
QueueSteps == UNCHANGED <<queued, ahead>> \/ Unlinks \/ \E r \in Requests : Joining(r)

\* removeWaiter takes its waiter out of the queue, or finds it granted.
LEMMA RemoveQueue ==
  ASSUME NEW r \in Requests, removeWaiter(r)
  PROVE  QueueSteps
BY Zenon DEF removeWaiter, RemoveQueued, RemoveGranted, QueueSteps, Unlinks

\* Every step leaves the queues, takes a waiter out or lets one in.
LEMMA QueueStep ==
  ASSUME Base, [Next]_vars
  PROVE  QueueSteps
<1>0. UNCHANGED slots => QueueSteps
  BY DEF slots, QueueSteps
<1>1. ASSUME NEW r \in Requests, AcquireFast(r) \/ AcquireQueues(r) PROVE QueueSteps
  <2>1. AtDoor(r) => r \notin queued
    BY DEF AtDoor, Base, GrantOrQueued, Waiting, Parks
  <2> QED BY <1>1, <2>1, Zenon DEF AcquireFast, AcquireQueues, QueueSteps, Joining
<1>8. ASSUME NEW r \in Requests, Door(r) PROVE QueueSteps
  BY <1>0, <1>8, DoorStep
<1>2. ASSUME NEW r \in Requests, WaitExpires(r) \/ Abort(r) \/ Pace(r) PROVE QueueSteps
  BY <1>0, <1>2, RemoveQueue, Zenon DEF WaitExpires, Abort, Pace
<1>3. ASSUME NEW r \in Requests, RequestStep(r) PROVE QueueSteps
  <2>1. CASE DrainCheck(r) \/ WaitCancelled(r)
    BY <1>0, <2>1, RemoveQueue, Zenon DEF DrainCheck, WaitCancelled
  <2>2. CASE SnapshotKicks(r) \/ HoldRead(r) \/ Wake(r) \/ UntilFires(r)
             \/ \E actual \in Actual : ReleaseSettles(r, actual)
    BY <1>0, <2>2, Zenon DEF SnapshotKicks, HoldRead, Wake, UntilFires, ReleaseSettles
  <2>3. CASE ReadGrant(r) \/ release(r)
    BY <2>3, Zenon DEF ReadGrant, release, QueueSteps
  <2> QED BY <1>3, <2>1, <2>2, <2>3, Zenon DEF RequestStep
<1>4. ASSUME NEW d \in Drainers, DrainStep(d) PROVE QueueSteps
  <2>1. ASSUME NEW g, ServeGrants(d, g) PROVE QueueSteps
    <3>1. PICK r \in First(g) : Unlink(r)
      BY <2>1 DEF ServeGrants
    <3>2. r \in Requests
      BY DEF First, Queue, Members
    <3> QED BY <3>1, <3>2, Zenon DEF QueueSteps, Unlinks
  <2> QED BY <1>0, <1>4, <2>1, Zenon DEF DrainStep, MarkGroup, MarkingGroup,
            CheckProvider, fairSnapshot, Peek, drainLimited, ServeNone, ServeRefused,
            CheckCapacity, advanceFair, KickPolicy
<1>5. ASSUME NEW d \in Drainers, Operate(d) PROVE QueueSteps
  BY <1>0, <1>5, Zenon DEF Operate, SetHold, DrainQueue, UpdateThrottle,
    UpdateThrottleClearing
<1>6. CASE TimerStep
  BY <1>0, <1>6, Zenon DEF TimerStep, Tick, GateWakes, PaceEnds, PacerFires
<1>7. CASE HoldExpires \/ UNCHANGED vars
  BY <1>0, <1>7, Zenon DEF HoldExpires, vars
<1> QED BY <1>1, <1>2, <1>3, <1>4, <1>5, <1>6, <1>7, <1>8, NextCases, Zenon

\* The order of the queues is kept by every step.
LEMMA QueueOrderStep ==
  ASSUME Base, QueueOrder, [Next]_vars
  PROVE  QueueOrder'
<1>1. queued \subseteq Requests /\ ahead \in [Requests -> SUBSET Requests]
  BY DEF Base, TypeInv, TypeOK
<1>2. CASE UNCHANGED <<queued, ahead>>
  BY <1>2 DEF QueueOrder, Queue, Members
<1>3. CASE Unlinks
  BY <1>1, <1>3, UnlinkOrder DEF Unlinks
<1>4. ASSUME NEW r \in Requests, Joining(r) PROVE QueueOrder'
  BY <1>1, <1>4, JoinOrder DEF Joining
<1> QED BY <1>2, <1>3, <1>4, QueueStep DEF QueueSteps

(***************************************************************************)
(* The fair list.                                                          *)
(***************************************************************************)
\* What a concatenation holds.
LEMMA Joined ==
  \A u, v \in Seq(Groups) :
         /\ Len(u \o v) = Len(u) + Len(v)
         /\ DOMAIN (u \o v) = 1 .. Len(u) + Len(v)
         /\ \A i \in 1 .. Len(u) : (u \o v)[i] = u[i]
         /\ \A i \in 1 .. Len(v) : (u \o v)[Len(u) + i] = v[i]
OBVIOUS

\* What a part of a sequence holds.
LEMMA Cut ==
  ASSUME NEW S, NEW s \in Seq(S), NEW m \in 1 .. Len(s) + 1, NEW n \in 0 .. Len(s),
         m <= n + 1
  PROVE  /\ SubSeq(s, m, n) \in Seq(S) /\ Len(SubSeq(s, m, n)) = n - m + 1
         /\ \A i \in 1 .. n - m + 1 : SubSeq(s, m, n)[i] = s[m + i - 1]
OBVIOUS

\* Membership of the fair list, by position.
LEMMA InFairIndex ==
  ASSUME fair \in Seq(Groups), NEW g
  PROVE  InFair(g) <=> \E i \in 1 .. Len(fair) : fair[i] = g
BY DEF InFair

\* Marking a group takes nobody out and puts it in while its window is open.
LEMMA MarkKeeps ==
  ASSUME fair \in Seq(Groups), NEW g \in Groups, Mark(g)
  PROVE  /\ \A h : InFair(h) => InFair(h)'
         /\ WindowOpen(g) => InFair(g)'
<1>1. CASE InFair(g) \/ ~WindowOpen(g)
  <2>1. fair' = fair
    BY <1>1 DEF Mark
  <2> QED BY <1>1, <2>1 DEF InFair
<1>2. CASE ~(InFair(g) \/ ~WindowOpen(g))
  <2>1. fair' = Append(fair, g)
    BY <1>2 DEF Mark
  <2>2. /\ Len(fair') = Len(fair) + 1 /\ DOMAIN fair' = 1 .. Len(fair')
        /\ fair'[Len(fair) + 1] = g
        /\ \A i \in 1 .. Len(fair) : fair'[i] = fair[i]
    BY <2>1
  <2>3. DOMAIN fair = 1 .. Len(fair) /\ Len(fair) \in Nat
    OBVIOUS
  <2>4. ASSUME NEW h, InFair(h) PROVE InFair(h)'
    <3>1. PICK i \in 1 .. Len(fair) : fair[i] = h
      BY <2>3, <2>4 DEF InFair
    <3>2. i \in DOMAIN fair' /\ fair'[i] = h
      BY <2>2, <2>3, <3>1
    <3> QED BY <3>2 DEF InFair
  <2>5. InFair(g)'
    <3>1. Len(fair) + 1 \in DOMAIN fair'
      BY <2>2, <2>3
    <3> QED BY <2>2, <3>1 DEF InFair
  <2> QED BY <2>4, <2>5
<1> QED BY <1>1, <1>2

\* Withdrawing a group closes the gap it leaves.
LEMMA UnmarkCut ==
  ASSUME OrderTypes, NEW g, Unmark(g), InFair(g)
  PROVE  \E p \in 1 .. Len(fair) :
           /\ fair[p] = g /\ DOMAIN fair' = 1 .. Len(fair) - 1
           /\ \A k \in 1 .. p - 1 : fair'[k] = fair[k]
           /\ \A k \in p .. Len(fair) - 1 : fair'[k] = fair[k + 1]
<1> DEFINE p == Position(g)
<1>1. p \in 1 .. Len(fair) /\ fair[p] = g
  <2>1. \E i \in DOMAIN fair : fair[i] = g
    BY DEF InFair
  <2>2. fair[p] = g
    BY <2>1, Zenon DEF Position
  <2> QED BY <2>2, PositionInList
<1>2. fair' = SubSeq(fair, 1, p - 1) \o SubSeq(fair, p + 1, Len(fair))
  BY DEF Unmark
<1> HIDE DEF p
<1>3. fair \in Seq(Groups) /\ Len(fair) \in Nat
  BY DEF OrderTypes
<1> DEFINE u == SubSeq(fair, 1, p - 1)
           v == SubSeq(fair, p + 1, Len(fair))
<1>4. /\ u \in Seq(Groups) /\ Len(u) = p - 1
      /\ \A k \in 1 .. p - 1 : u[k] = fair[k]
  <2>1. /\ u \in Seq(Groups) /\ Len(u) = (p - 1) - 1 + 1
        /\ \A k \in 1 .. (p - 1) - 1 + 1 : u[k] = fair[1 + k - 1]
    BY <1>1, <1>3, Cut
  <2> HIDE DEF u
  <2> QED BY <1>1, <1>3, <2>1
<1>5. /\ v \in Seq(Groups) /\ Len(v) = Len(fair) - p
      /\ \A k \in 1 .. Len(fair) - p : v[k] = fair[p + k]
  <2>1. /\ v \in Seq(Groups) /\ Len(v) = Len(fair) - (p + 1) + 1
        /\ \A k \in 1 .. Len(fair) - (p + 1) + 1 : v[k] = fair[(p + 1) + k - 1]
    BY <1>1, <1>3, Cut
  <2> HIDE DEF v
  <2> QED BY <1>1, <1>3, <2>1
<1>6. /\ DOMAIN fair' = 1 .. Len(u) + Len(v)
      /\ \A k \in 1 .. Len(u) : fair'[k] = u[k]
      /\ \A k \in 1 .. Len(v) : fair'[Len(u) + k] = v[k]
  <2> HIDE DEF u, v
  <2>1. /\ DOMAIN (u \o v) = 1 .. Len(u) + Len(v)
        /\ \A k \in 1 .. Len(u) : (u \o v)[k] = u[k]
        /\ \A k \in 1 .. Len(v) : (u \o v)[Len(u) + k] = v[k]
    BY <1>4, <1>5, Joined, Zenon
  <2>2. fair' = u \o v
    BY <1>2 DEF u, v
  <2> QED BY <2>1, <2>2
<1> HIDE DEF u, v
<1>7. DOMAIN fair' = 1 .. Len(fair) - 1
  BY <1>1, <1>3, <1>4, <1>5, <1>6
<1>8. \A k \in 1 .. p - 1 : fair'[k] = fair[k]
  BY <1>4, <1>6
<1>9. ASSUME NEW k \in p .. Len(fair) - 1 PROVE fair'[k] = fair[k + 1]
  <2>1. k - (p - 1) \in 1 .. Len(fair) - p /\ (p - 1) + (k - (p - 1)) = k
        /\ p + (k - (p - 1)) = k + 1
    BY <1>1, <1>3, <1>9
  <2>2. fair'[Len(u) + (k - (p - 1))] = v[k - (p - 1)]
    BY <1>5, <1>6, <2>1
  <2> QED BY <1>4, <1>5, <2>1, <2>2
<1> QED BY <1>1, <1>7, <1>8, <1>9

\* Withdrawing a group takes out no other and puts none in.
LEMMA UnmarkKeeps ==
  ASSUME OrderTypes, NEW g, Unmark(g), NEW h, h # g, InFair(h)
  PROVE  InFair(h)'
<1>0. fair \in Seq(Groups) /\ Len(fair) \in Nat
  BY DEF OrderTypes
<1>1. CASE ~InFair(g)
  <2>1. fair' = fair
    BY <1>1 DEF Unmark
  <2> QED BY <2>1 DEF InFair
<1>2. CASE InFair(g)
  <2>1. PICK p \in 1 .. Len(fair) :
          /\ fair[p] = g /\ DOMAIN fair' = 1 .. Len(fair) - 1
          /\ \A k \in 1 .. p - 1 : fair'[k] = fair[k]
          /\ \A k \in p .. Len(fair) - 1 : fair'[k] = fair[k + 1]
    BY <1>2, UnmarkCut
  <2>2. PICK i \in 1 .. Len(fair) : fair[i] = h
    BY <1>0, InFairIndex
  <2>3. CASE i < p
    <3>1. i \in 1 .. p - 1 /\ i \in DOMAIN fair'
      BY <1>0, <2>1, <2>2, <2>3
    <3>2. fair'[i] = h
      BY <2>1, <2>2, <3>1
    <3> QED BY <3>1, <3>2 DEF InFair
  <2>4. CASE i > p
    <3>1. i - 1 \in p .. Len(fair) - 1 /\ i - 1 \in 1 .. Len(fair) - 1 /\ (i - 1) + 1 = i
      BY <1>0, <2>1, <2>2, <2>4
    <3>2. fair'[i - 1] = fair[(i - 1) + 1] /\ i - 1 \in DOMAIN fair'
      BY <2>1, <3>1
    <3>3. fair'[i - 1] = h
      BY <2>2, <3>1, <3>2
    <3> QED BY <3>2, <3>3 DEF InFair
  <2> QED BY <2>1, <2>2, <2>3, <2>4
<1> QED BY <1>1, <1>2

\* Withdrawing a group puts none in.
LEMMA UnmarkShrinks ==
  ASSUME OrderTypes, NEW g, Unmark(g), NEW h, InFair(h)'
  PROVE  InFair(h)
<1>0. fair \in Seq(Groups) /\ Len(fair) \in Nat
  BY DEF OrderTypes
<1>1. CASE ~InFair(g)
  <2>1. fair' = fair
    BY <1>1 DEF Unmark
  <2> QED BY <2>1 DEF InFair
<1>2. CASE InFair(g)
  <2>1. PICK p \in 1 .. Len(fair) :
          /\ fair[p] = g /\ DOMAIN fair' = 1 .. Len(fair) - 1
          /\ \A k \in 1 .. p - 1 : fair'[k] = fair[k]
          /\ \A k \in p .. Len(fair) - 1 : fair'[k] = fair[k + 1]
    BY <1>2, UnmarkCut
  <2>2. PICK i \in 1 .. Len(fair) - 1 : fair'[i] = h
    BY <2>1 DEF InFair
  <2>3. CASE i < p
    <3>1. i \in 1 .. p - 1 /\ i \in 1 .. Len(fair)
      BY <1>0, <2>1, <2>2, <2>3
    <3>2. fair[i] = h
      BY <2>1, <2>2, <3>1
    <3> QED BY <1>0, <3>1, <3>2, InFairIndex
  <2>4. CASE i >= p
    <3>1. i \in p .. Len(fair) - 1 /\ i + 1 \in 1 .. Len(fair)
      BY <1>0, <2>1, <2>2, <2>4
    <3>2. fair[i + 1] = h
      BY <2>1, <2>2, <3>1
    <3> QED BY <1>0, <3>1, <3>2, InFairIndex
  <2> QED BY <1>0, <2>1, <2>2, <2>3, <2>4
<1> QED BY <1>1, <1>2

\* Marking a group puts in no other.
LEMMA MarkOnly ==
  ASSUME fair \in Seq(Groups), NEW g \in Groups, Mark(g), NEW h, InFair(h)', h # g
  PROVE  InFair(h)
<1>1. CASE fair' = fair
  BY <1>1 DEF InFair
<1>2. CASE fair' = Append(fair, g)
  <2>1. /\ Len(fair) \in Nat /\ DOMAIN fair' = 1 .. Len(fair) + 1
        /\ fair'[Len(fair) + 1] = g
        /\ \A i \in 1 .. Len(fair) : fair'[i] = fair[i]
    BY <1>2
  <2>2. PICK i \in 1 .. Len(fair) + 1 : fair'[i] = h
    BY <2>1 DEF InFair
  <2>3. i \in 1 .. Len(fair)
    BY <2>1, <2>2
  <2> QED BY <2>1, <2>2, <2>3, InFairIndex
<1> QED BY <1>1, <1>2 DEF Mark

\* The snapshot a drain walks holds every group of the list.
LEMMA RotationHolds ==
  ASSUME OrderTypes
  PROVE  /\ Len(Rotation) = Len(fair)
         /\ \A g : InFair(g) => \E i \in 1 .. Len(Rotation) : Rotation[i] = g
<1>1. fair \in Seq(Groups) /\ Len(fair) \in Nat
  BY DEF OrderTypes
<1>2. CASE \E g \in cursor : InFair(g)
  <2>1. InFair(CHOOSE g \in cursor : InFair(g))
    BY <1>2, Zenon
  <2> DEFINE p == Position(CHOOSE g \in cursor : InFair(g))
  <2>2. p \in 1 .. Len(fair)
    BY <2>1, PositionInList, Zenon
  <2>3. Rotation = SubSeq(fair, p + 1, Len(fair)) \o SubSeq(fair, 1, p)
    BY <1>2, Zenon DEF Rotation
  <2> HIDE DEF p
  <2> DEFINE u == SubSeq(fair, p + 1, Len(fair))
             v == SubSeq(fair, 1, p)
  <2>4. /\ v \in Seq(Groups) /\ Len(v) = p
        /\ \A k \in 1 .. p : v[k] = fair[k]
    <3>1. /\ v \in Seq(Groups) /\ Len(v) = p - 1 + 1
          /\ \A k \in 1 .. p - 1 + 1 : v[k] = fair[1 + k - 1]
      BY <1>1, <2>2, Cut
    <3> HIDE DEF v
    <3> QED BY <1>1, <2>2, <3>1
  <2>41. /\ u \in Seq(Groups) /\ Len(u) = Len(fair) - p
         /\ \A k \in 1 .. Len(fair) - p : u[k] = fair[p + k]
    <3>1. /\ u \in Seq(Groups) /\ Len(u) = Len(fair) - (p + 1) + 1
          /\ \A k \in 1 .. Len(fair) - (p + 1) + 1 : u[k] = fair[(p + 1) + k - 1]
      BY <1>1, <2>2, Cut
    <3> HIDE DEF u
    <3> QED BY <1>1, <2>2, <3>1
  <2>42. /\ Len(Rotation) = Len(u) + Len(v)
         /\ \A k \in 1 .. Len(u) : Rotation[k] = u[k]
         /\ \A k \in 1 .. Len(v) : Rotation[Len(u) + k] = v[k]
    <3> HIDE DEF u, v
    <3>1. /\ Len(u \o v) = Len(u) + Len(v)
          /\ \A k \in 1 .. Len(u) : (u \o v)[k] = u[k]
          /\ \A k \in 1 .. Len(v) : (u \o v)[Len(u) + k] = v[k]
      BY <2>4, <2>41, Joined, Zenon
    <3>2. Rotation = u \o v
      BY <2>3 DEF u, v
    <3> QED BY <3>1, <3>2
  <2> HIDE DEF u, v
  <2>5. Len(Rotation) = Len(fair)
    BY <1>1, <2>2, <2>4, <2>41, <2>42
  <2>6. ASSUME NEW g, InFair(g) PROVE \E i \in 1 .. Len(Rotation) : Rotation[i] = g
    <3>1. PICK i \in 1 .. Len(fair) : fair[i] = g
      BY <1>1, <2>6, InFairIndex
    <3>2. CASE i > p
      <4>1. i - p \in 1 .. Len(u) /\ i - p \in 1 .. Len(Rotation) /\ p + (i - p) = i
        BY <1>1, <2>2, <2>41, <2>5, <3>1, <3>2
      <4>2. Rotation[i - p] = g
        BY <2>41, <2>42, <3>1, <4>1
      <4> QED BY <4>1, <4>2
    <3>3. CASE i <= p
      <4>1. i \in 1 .. Len(v) /\ Len(u) + i \in 1 .. Len(Rotation)
        BY <1>1, <2>2, <2>4, <2>41, <2>5, <3>1, <3>3
      <4>2. Rotation[Len(u) + i] = g
        BY <2>4, <2>42, <3>1, <4>1
      <4> QED BY <4>1, <4>2
    <3> QED BY <2>2, <3>1, <3>2, <3>3
  <2> QED BY <2>5, <2>6
<1>3. CASE ~\E g \in cursor : InFair(g)
  <2>1. Rotation = fair
    BY <1>3, Zenon DEF Rotation
  <2> QED BY <1>1, <2>1, InFairIndex
<1> QED BY <1>2, <1>3

(***************************************************************************)
(* Where walks are.                                                        *)
(***************************************************************************)
\* d stays inside its round, or has none.
Inside(d) ==
  /\ job[d] \in Walking => at[d] \in 1 .. Len(round[d])
  /\ job[d] \in BeforeWalk => at[d] = 1

OthersWalk(d) ==
  \A e \in Drainers : e # d =>
    /\ job'[e] = job[e] /\ at'[e] = at[e] /\ round'[e] = round[e]
    /\ tomark'[e] = tomark[e]
    /\ e \in productive' <=> e \in productive
    /\ e \in found' <=> e \in found

DrainTypes ==
  /\ job \in [Drainers -> Jobs] /\ at \in [Drainers -> Nat]
  /\ round \in [Drainers -> Seq(Groups)] /\ tomark \in [Drainers -> SUBSET Groups]

\* The end of a drain.
LEMMA FinishWalk ==
  ASSUME DrainTypes, NEW d \in Drainers, FinishDrain(d)
  PROVE  OthersWalk(d) /\ job'[d] = "none" /\ at'[d] = 1
BY DEF FinishDrain, Continue, OthersWalk, DrainTypes

\* A drain that goes on with its walk as it is.
LEMMA ContinueWalk ==
  ASSUME DrainTypes, NEW d \in Drainers, NEW point, Continue(d, point),
         UNCHANGED <<tomark, found, walk>>
  PROVE  OthersWalk(d) /\ job'[d] = point /\ at'[d] = at[d] /\ round'[d] = round[d]
         /\ (d \in productive' <=> d \in productive)
BY DEF Continue, OthersWalk, DrainTypes, walk

\* The three ways on from a group.
Onward(d) ==
  /\ at[d] < Len(round[d]) /\ job'[d] = "peek" /\ at'[d] = at[d] + 1
  /\ round'[d] = round[d] /\ (d \in productive' <=> d \in productive)
Again(d) ==
  /\ at[d] = Len(round[d]) /\ d \in productive
  /\ job'[d] = "peek" /\ at'[d] = 1 /\ round'[d] = round[d]
Closes(d) ==
  /\ at[d] >= Len(round[d]) /\ (at[d] = Len(round[d]) => d \notin productive)
  /\ \/ job'[d] = "none" /\ at'[d] = 1
     \/ job'[d] = "advance"

\* Where a turn leads.
LEMMA TurnWalk ==
  ASSUME DrainTypes, NEW d \in Drainers, NextTurn(d)
  PROVE  OthersWalk(d) /\ (Onward(d) \/ Again(d) \/ Closes(d))
<1>0. at[d] \in Nat /\ Len(round[d]) \in Nat
  BY DEF DrainTypes
<1>1. CASE at[d] < Len(round[d])
  <2>1. /\ Continue(d, "peek") /\ at' = [at EXCEPT ![d] = @ + 1]
        /\ UNCHANGED <<pc, tomark, found, round, productive, served>>
    BY <1>0, <1>1 DEF NextTurn
  <2> QED BY <1>1, <2>1 DEF Onward, OthersWalk, Continue, DrainTypes
<1>2. CASE at[d] = Len(round[d]) /\ d \in productive
  <2>1. /\ Continue(d, "peek") /\ at' = [at EXCEPT ![d] = 1]
        /\ productive' = productive \ {d}
        /\ UNCHANGED <<pc, tomark, found, round, served>>
    BY <1>0, <1>2 DEF NextTurn
  <2> QED BY <1>2, <2>1 DEF Again, OthersWalk, Continue, DrainTypes
<1>3. CASE ~(at[d] < Len(round[d])) /\ ~(at[d] = Len(round[d]) /\ d \in productive)
  <2>1. IF served[d] = {} THEN FinishDrain(d)
        ELSE Continue(d, "advance") /\ UNCHANGED <<pc, tomark, found, walk>>
    BY <1>0, <1>3 DEF NextTurn
  <2>2. OthersWalk(d) /\ ((job'[d] = "none" /\ at'[d] = 1) \/ job'[d] = "advance")
    BY <2>1, FinishWalk, ContinueWalk
  <2> QED BY <1>0, <1>3, <2>2 DEF Closes
<1> QED BY <1>1, <1>2, <1>3

(***************************************************************************)
(* What a step does to the drains.                                         *)
(***************************************************************************)
\* What the base says, block by block.
LEMMA BaseTypes ==
  ASSUME Base
  PROVE  /\ SlotTypes /\ GateTypes /\ OrderTypes /\ WalkTypes /\ PolicyTypes
         /\ DrainersStand /\ DrainTypes /\ GrantOrQueued
BY TypeBlocks DEF Base, TypeInv, DrainTypes, SlotTypes, OrderTypes, WalkTypes

\* d begins a drain that is bound to walk, if anybody waits.
Starts(d) ==
  /\ job[d] = "none" /\ OthersWalk(d)
  /\ at'[d] = at[d] /\ round'[d] = round[d]
  /\ \/ job'[d] \in {"kick", "count"}
     \/ job'[d] = "mark" /\ (d \in found' \/ tomark'[d] = Groups)
  /\ d \in Requests => /\ job'[d] = "mark" /\ d \in found'
                       /\ tomark'[d] = {GroupOf[d]}
  /\ \A x \in Requests : pc'[x] = pc[x] \/ x = d
  /\ d \in Requests => pc'[d] # "parked"

\* No drain moves, and nobody comes to a point where one runs or has run.
Rests ==
  /\ UNCHANGED drains
  /\ \A x \in Requests : pc'[x] = pc[x] \/ pc'[x] \notin {"redrain", "parked"}

\* A request's goroutine begins its drain.
LEMMA StartStep ==
  ASSUME Base, NEW r \in Requests, NEW point, pc[r] \notin Draining, point # "parked",
         Goto(r, point), StartDrain(r, GroupOf[r])
  PROVE  Starts(r)
<1> USE BaseTypes
<1>1. r \in Drainers /\ job[r] = "none"
  BY DEF DrainersStand, Drainers
<1>2. OthersWalk(r) /\ at'[r] = at[r] /\ round'[r] = round[r]
  BY <1>1 DEF StartDrain, walk, OthersWalk, DrainTypes
<1>3. job'[r] = "mark" /\ r \in found' /\ tomark'[r] = {GroupOf[r]}
  BY <1>1 DEF StartDrain, DrainTypes
<1>4. \A x \in Requests : pc'[x] = pc[x] \/ x = r
  BY DEF Goto, SlotTypes
<1>5. pc'[r] = point
  BY DEF Goto, SlotTypes
<1> QED BY <1>1, <1>2, <1>3, <1>4, <1>5 DEF Starts

\* A request moves on without a drain.
LEMMA MoveQuiet ==
  ASSUME Base, NEW r \in Requests, NEW point, point \notin {"redrain", "parked"},
         Goto(r, point), UNCHANGED drains
  PROVE  Rests
<1>1. \A x \in Requests : pc'[x] = pc[x] \/ pc'[x] = point
  BY BaseTypes DEF Goto, SlotTypes
<1> QED BY <1>1 DEF Rests

DriveSteps ==
  \/ Rests
  \/ \E d \in Drainers : Starts(d)
  \/ \E d \in Drainers : DrainStep(d)

\* removeWaiter starts a drain or leaves them alone.
LEMMA RemoveDrives ==
  ASSUME Base, NEW r \in Requests, pc[r] \notin Draining, removeWaiter(r)
  PROVE  Rests \/ Starts(r)
<1>1. Away(r) \notin {"redrain", "parked"}
  BY DEF Away
<1>2. \/ Goto(r, Away(r)) /\ UNCHANGED drains
      \/ StartDrain(r, GroupOf[r]) /\ Goto(r, "leaving")
  BY Zenon DEF removeWaiter, RemoveQueued, RemoveGranted
<1>3. CASE Goto(r, Away(r)) /\ UNCHANGED drains
  BY <1>1, <1>3, MoveQuiet
<1>4. CASE StartDrain(r, GroupOf[r]) /\ Goto(r, "leaving")
  BY <1>4, StartStep
<1> QED BY <1>2, <1>3, <1>4

\* A step that moves nobody.
LEMMA RestsIf ==
  ASSUME UNCHANGED <<pc, drains>>
  PROVE  Rests
BY DEF Rests

\* A background goroutine begins a drain.
LEMMA BackgroundDrives ==
  ASSUME Base, NEW d \in Background, job[d] = "none", UNCHANGED <<pc, walk>>,
         OthersWalk(d),
         \/ job'[d] \in {"kick", "count"}
         \/ job'[d] = "mark" /\ (d \in found' \/ tomark'[d] = Groups)
  PROVE  Starts(d)
BY AdmissionAssumption DEF Starts, walk

\* The steps of a request.
LEMMA RequestDrives ==
  ASSUME Base, NEW r \in Requests, RequestStep(r)
  PROVE  Rests \/ Starts(r)
<1>1. CASE DrainCheck(r)
  <2>1. CASE r \in drained
    BY <1>1, <2>1, RemoveDrives DEF DrainCheck, Draining
  <2>2. CASE r \notin drained
    BY <1>1, <2>2, MoveQuiet DEF DrainCheck
  <2> QED BY <2>1, <2>2
<1>2. CASE SnapshotKicks(r)
  BY <1>2, MoveQuiet DEF SnapshotKicks
<1>3. CASE HoldRead(r)
  <2>1. CASE Held(r)
    BY <1>3, <2>1, MoveQuiet DEF HoldRead
  <2>2. CASE ~Held(r)
    BY <1>3, <2>2, StartStep DEF HoldRead, Draining
  <2> QED BY <2>1, <2>2
<1>4. CASE ReadGrant(r)
  BY <1>4, MoveQuiet DEF ReadGrant
<1>5. CASE Wake(r)
  BY <1>5, MoveQuiet DEF Wake
<1>6. CASE UntilFires(r)
  BY <1>6, StartStep DEF UntilFires, Draining
<1>7. CASE WaitCancelled(r)
  BY <1>7, RemoveDrives DEF WaitCancelled, Draining, Parks
<1>8. ASSUME NEW actual, ReleaseSettles(r, actual) PROVE Rests
  BY <1>8, MoveQuiet DEF ReleaseSettles
<1>9. CASE release(r)
  BY <1>9, StartStep DEF release, Draining
<1> QED BY <1>1, <1>2, <1>3, <1>4, <1>5, <1>6, <1>7, <1>8, <1>9, Zenon DEF RequestStep

\* The calls of the operator.
LEMMA OperateDrives ==
  ASSUME Base, NEW d \in Drainers, Operate(d)
  PROVE  Starts(d)
<1>0. DrainTypes
  BY BaseTypes
<1>1. ASSUME NEW next, SetHold(d, next) PROVE Starts(d)
  <2>1. /\ d \in Background /\ job[d] = "none" /\ UNCHANGED <<pc, walk, found>>
        /\ job' = [job EXCEPT ![d] = "mark"] /\ tomark' = [tomark EXCEPT ![d] = Groups]
    BY <1>1 DEF SetHold, DrainAll, Continue
  <2>2. OthersWalk(d) /\ job'[d] = "mark" /\ tomark'[d] = Groups
    BY <1>0, <2>1 DEF OthersWalk, DrainTypes, walk
  <2> QED BY <2>1, <2>2, BackgroundDrives
<1>2. ASSUME d \in Background, job[d] = "none", Continue(d, "kick"),
             UNCHANGED <<pc, tomark, found, walk>>
      PROVE  Starts(d)
  <2>1. OthersWalk(d) /\ job'[d] = "kick"
    BY <1>0, <1>2 DEF OthersWalk, DrainTypes, walk, Continue
  <2> QED BY <1>2, <2>1, BackgroundDrives
<1>3. CASE DrainQueue(d)
  BY <1>2, <1>3 DEF DrainQueue
<1>4. ASSUME NEW next, UpdateThrottle(d, next) PROVE Starts(d)
  BY <1>2, <1>4 DEF UpdateThrottle, UpdateThrottleClearing
<1> QED BY <1>1, <1>3, <1>4, Zenon DEF Operate

\* The timers.
LEMMA TimerDrives ==
  ASSUME Base, TimerStep
  PROVE  Rests \/ \E d \in Drainers : Starts(d)
<1>0. DrainTypes
  BY BaseTypes
<1>1. CASE Tick
  BY <1>1, RestsIf DEF Tick
<1>2. ASSUME NEW d \in Drainers, GateWakes(d) PROVE Starts(d)
  <2>1. /\ d \in Background /\ job[d] = "none" /\ UNCHANGED <<pc, walk, tomark>>
        /\ job' = [job EXCEPT ![d] = "count"] /\ found' = found \cup {d}
    BY <1>2 DEF GateWakes, Continue
  <2>2. OthersWalk(d) /\ job'[d] = "count"
    BY <1>0, <2>1 DEF OthersWalk, DrainTypes, walk
  <2> QED BY <2>1, <2>2, BackgroundDrives
<1>3. ASSUME NEW g \in Groups, PaceEnds(g) PROVE Rests
  BY <1>3, RestsIf DEF PaceEnds
<1>4. ASSUME NEW d \in Drainers, NEW g \in Groups, PacerFires(d, g) PROVE Starts(d)
  <2>1. /\ d \in Background /\ job[d] = "none" /\ UNCHANGED <<pc, walk>>
        /\ job' = [job EXCEPT ![d] = "mark"] /\ found' = found \cup {d}
        /\ tomark' = [tomark EXCEPT ![d] = {g}]
    BY <1>4 DEF PacerFires, StartDrain
  <2>2. OthersWalk(d) /\ job'[d] = "mark" /\ d \in found'
    BY <1>0, <2>1 DEF OthersWalk, DrainTypes, walk
  <2> QED BY <2>1, <2>2, BackgroundDrives
<1> QED BY <1>1, <1>2, <1>3, <1>4, Zenon DEF TimerStep

\* Every step rests the drains, starts one or takes one further.
LEMMA DriveStep ==
  ASSUME Base, [Next]_vars
  PROVE  DriveSteps
<1>1. ASSUME NEW r \in Requests, AcquireFast(r) PROVE Rests
  BY <1>1, MoveQuiet DEF AcquireFast
<1>8. ASSUME NEW r \in Requests, Door(r) PROVE Rests
  <2>1. UNCHANGED drains /\ \E p \in {"idle", "arriving", "gone"} : Goto(r, p)
    BY <1>8, DoorStep
  <2> QED BY <2>1, MoveQuiet
<1>2. ASSUME NEW r \in Requests, AcquireQueues(r) PROVE Starts(r)
  BY <1>2, StartStep DEF AcquireQueues, AtDoor, Draining
<1>3. ASSUME NEW r \in Requests, WaitExpires(r) PROVE Rests \/ Starts(r)
  BY <1>3, RemoveDrives DEF WaitExpires, Draining
<1>4. ASSUME NEW r \in Requests, Abort(r) \/ Pace(r) PROVE Rests
  BY <1>4, RestsIf DEF Abort, Pace
<1>5. HoldExpires => Rests
  BY RestsIf, Zenon DEF HoldExpires
<1>7. UNCHANGED vars => Rests
  BY RestsIf, Zenon DEF vars
<1>6. Requests \subseteq Drainers
  BY DEF Drainers
<1> QED BY <1>1, <1>2, <1>3, <1>4, <1>5, <1>6, <1>7, <1>8, RequestDrives, OperateDrives,
          TimerDrives, NextCases, Zenon DEF DriveSteps

\* A drain's step moves no other drain and keeps its own walk inside.
DrainsOn(d) ==
  /\ job[d] # "none" /\ OthersWalk(d) /\ PcAfter(d) /\ MovesOnly(d)
  /\ Inside(d)'
  /\ d \in Requests => job'[d] \notin {"kick", "mark"}

\* A turn.
LEMMA TurnOn ==
  ASSUME Base, WalksInside, NEW d \in Drainers, job[d] \in Walking, NextTurn(d)
  PROVE  DrainsOn(d)
<1>0. DrainTypes /\ SlotTypes /\ DrainersStand /\ job[d] # "none"
  BY BaseTypes DEF Walking
<1>1. PcAfter(d) /\ MovesOnly(d)
  BY <1>0, TurnMoves
<1>2. OthersWalk(d) /\ (Onward(d) \/ Again(d) \/ Closes(d))
  BY <1>0, TurnWalk
<1>3. at[d] \in 1 .. Len(round[d]) /\ Len(round[d]) \in Nat
  BY <1>0 DEF WalksInside, DrainTypes
<1>4. Inside(d)'
  BY <1>2, <1>3 DEF Onward, Again, Closes, Inside, Walking, BeforeWalk
<1>5. job'[d] \notin {"kick", "mark"}
  BY <1>2 DEF Onward, Again, Closes
<1> QED BY <1>0, <1>1, <1>2, <1>4, <1>5 DEF DrainsOn

\* The end of a drain.
LEMMA FinishOn ==
  ASSUME Base, NEW d \in Drainers, job[d] # "none", FinishDrain(d)
  PROVE  DrainsOn(d)
<1>0. DrainTypes /\ SlotTypes /\ DrainersStand
  BY BaseTypes
<1>1. PcAfter(d) /\ MovesOnly(d)
  BY <1>0, TurnMoves
<1>2. OthersWalk(d) /\ job'[d] = "none" /\ at'[d] = 1
  BY <1>0, FinishWalk
<1> QED BY <1>1, <1>2 DEF DrainsOn, Inside, Walking

\* A drain goes on with its walk as it is.
LEMMA ContinueOn ==
  ASSUME Base, WalksInside, NEW d \in Drainers, job[d] # "none", NEW point,
         Continue(d, point), UNCHANGED <<pc, tomark, found, walk>>,
         point \in Walking => job[d] \in Walking,
         point \in BeforeWalk => job[d] \in BeforeWalk,
         point \notin {"kick", "mark"}
  PROVE  DrainsOn(d)
<1>0. DrainTypes /\ SlotTypes /\ DrainersStand
  BY BaseTypes
<1>1. PcAfter(d) /\ MovesOnly(d)
  BY <1>0, DrainMoves
<1>2. OthersWalk(d) /\ job'[d] = point /\ at'[d] = at[d] /\ round'[d] = round[d]
  BY <1>0, ContinueWalk
<1>3. Inside(d)'
  BY <1>2 DEF WalksInside, Inside
<1> QED BY <1>1, <1>2, <1>3 DEF DrainsOn

\* Every step of a drain.
LEMMA DrainOn ==
  ASSUME Base, WalksInside, OwnMark, NEW d \in Drainers, DrainStep(d)
  PROVE  DrainsOn(d)
<1>0. DrainTypes /\ SlotTypes /\ DrainersStand /\ OrderTypes
  BY BaseTypes
<1>1. ASSUME NEW g \in Groups, MarkGroup(d, g) PROVE DrainsOn(d)
  <2>1. job[d] = "mark" /\ g \in tomark[d]
    BY <1>1 DEF MarkGroup, MarkingGroup
  <2> DEFINE left == tomark[d] \ {g}
             walks == d \in found \/ Queue(g) # {}
  <2>2. CASE left = {} /\ ~walks
    <3>1. FinishDrain(d)
      BY <1>1, <2>2 DEF MarkGroup, MarkingGroup
    <3> QED BY <2>1, <3>1, FinishOn
  <2>3. CASE ~(left = {} /\ ~walks)
    <3>1. /\ tomark' = [tomark EXCEPT ![d] = left]
          /\ found' = IF walks THEN found \cup {d} ELSE found
          /\ Continue(d, IF left = {} THEN "count" ELSE "mark")
          /\ UNCHANGED <<pc, walk>>
      BY <1>1, <2>3, Zenon DEF MarkGroup, MarkingGroup
    <3>2. PcAfter(d) /\ MovesOnly(d)
      BY <1>0, <2>1, <3>1, DrainMoves
    <3>3. /\ OthersWalk(d) /\ at'[d] = at[d]
          /\ job'[d] = IF left = {} THEN "count" ELSE "mark"
      BY <1>0, <3>1 DEF OthersWalk, DrainTypes, walk, Continue
    <3>4. Inside(d)'
      BY <2>1, <3>3 DEF WalksInside, Inside, BeforeWalk, Walking
    <3>5. d \in Requests => left = {}
      BY <2>1 DEF OwnMark
    <3> QED BY <2>1, <3>2, <3>3, <3>4, <3>5 DEF DrainsOn
  <2> QED BY <2>2, <2>3
<1>2. CASE CheckProvider(d)
  <2>1. job[d] = "count" /\ (\/ FinishDrain(d)
                             \/ /\ Continue(d, "snapshot")
                                /\ UNCHANGED <<pc, tomark, found, walk>>)
    BY <1>2, Zenon DEF CheckProvider
  <2> QED BY <2>1, FinishOn, ContinueOn DEF Walking, BeforeWalk
<1>3. CASE fairSnapshot(d)
  <2>1. job[d] = "snapshot"
    BY <1>3 DEF fairSnapshot
  <2>2. CASE fair = <<>>
    BY <1>3, <2>1, <2>2, FinishOn DEF fairSnapshot
  <2>3. CASE fair # <<>>
    <3>1. /\ Continue(d, "peek")
          /\ round' = [round EXCEPT ![d] = Rotation]
          /\ UNCHANGED <<pc, tomark, found, at, productive, served>>
      BY <1>3, <2>3 DEF fairSnapshot
    <3>2. PcAfter(d) /\ MovesOnly(d)
      BY <1>0, <2>1, <3>1, DrainMoves
    <3>3. OthersWalk(d) /\ at'[d] = at[d] /\ job'[d] = "peek" /\ round'[d] = Rotation
      BY <1>0, <3>1 DEF OthersWalk, DrainTypes, Continue
    <3>4. at[d] = 1 /\ Len(Rotation) = Len(fair)
      BY <1>0, <2>1, RotationHolds DEF WalksInside, BeforeWalk
    <3>5. Len(fair) \in Nat /\ Len(fair) # 0
      BY <1>0, <2>3 DEF OrderTypes
    <3>6. Inside(d)'
      BY <3>3, <3>4, <3>5 DEF Inside, BeforeWalk
    <3> QED BY <2>1, <3>2, <3>3, <3>6 DEF DrainsOn
  <2> QED BY <2>2, <2>3
<1>4. CASE Peek(d)
  <2>1. job[d] = "peek" /\ (\/ NextTurn(d)
                            \/ /\ Continue(d, "serve")
                               /\ UNCHANGED <<pc, tomark, found, walk>>)
    BY <1>4, Zenon DEF Peek
  <2> QED BY <2>1, TurnOn, ContinueOn DEF Walking, BeforeWalk
<1>5. CASE drainLimited(d)
  <2>1. job[d] = "serve"
    BY <1>5 DEF drainLimited
  <2>2. CASE NextTurn(d)
    BY <2>1, <2>2, TurnOn DEF Walking
  <2>3. CASE ServeGrants(d, Turn(d))
    <3>1. /\ productive' = productive \cup {d} /\ Continue(d, "capacity")
          /\ UNCHANGED <<pc, tomark, found, round, at>>
      BY <2>3 DEF ServeGrants
    <3>2. PcAfter(d) /\ MovesOnly(d)
      BY <1>0, <2>1, <3>1, DrainMoves
    <3>3. OthersWalk(d) /\ at'[d] = at[d] /\ job'[d] = "capacity" /\ round'[d] = round[d]
      BY <1>0, <3>1 DEF OthersWalk, DrainTypes, Continue
    <3>4. Inside(d)'
      BY <2>1, <3>3 DEF WalksInside, Inside, Walking, BeforeWalk
    <3> QED BY <2>1, <3>2, <3>3, <3>4 DEF DrainsOn
  <2> QED BY <1>5, <2>2, <2>3, Zenon DEF drainLimited, ServeNone, ServeRefused
<1>6. CASE CheckCapacity(d)
  <2>1. job[d] = "capacity" /\ (\/ NextTurn(d)
                                \/ /\ Continue(d, "advance")
                                   /\ UNCHANGED <<pc, tomark, found, walk>>)
    BY <1>6, Zenon DEF CheckCapacity
  <2> QED BY <2>1, TurnOn, ContinueOn DEF Walking, BeforeWalk
<1>7. CASE advanceFair(d)
  BY <1>7, FinishOn DEF advanceFair
<1>8. CASE KickPolicy(d)
  <2>1. /\ job[d] = "kick" /\ Continue(d, "mark") /\ UNCHANGED <<pc, found, walk>>
        /\ tomark' = [tomark EXCEPT ![d] = Groups]
    BY <1>8 DEF KickPolicy, DrainAll
  <2>2. PcAfter(d) /\ MovesOnly(d)
    BY <1>0, <2>1, DrainMoves
  <2>3. OthersWalk(d) /\ at'[d] = at[d] /\ job'[d] = "mark"
    BY <1>0, <2>1 DEF OthersWalk, DrainTypes, walk, Continue
  <2>4. Inside(d)'
    BY <2>1, <2>3 DEF WalksInside, Inside, BeforeWalk, Walking
  <2>5. d \notin Requests
    BY <2>1 DEF OwnMark
  <2> QED BY <2>1, <2>2, <2>3, <2>4, <2>5 DEF DrainsOn
<1> QED BY <1>1, <1>2, <1>3, <1>4, <1>5, <1>6, <1>7, <1>8, Zenon DEF DrainStep

\* Walks stay inside, and requests mark their own group.
LEMMA WalksInsideStep ==
  ASSUME Base, WalksInside, OwnMark, [Next]_vars
  PROVE  WalksInside' /\ OwnMark'
<1>0. Requests \subseteq Drainers
  BY DEF Drainers
<1>1. CASE Rests
  BY <1>1 DEF Rests, WalksInside, OwnMark, drains, walk
<1>2. ASSUME NEW d \in Drainers, Starts(d) PROVE WalksInside' /\ OwnMark'
  <2>1. WalksInside'
    BY <1>2 DEF Starts, OthersWalk, WalksInside, Walking, BeforeWalk
  <2>2. OwnMark'
    BY <1>0, <1>2 DEF Starts, OthersWalk, OwnMark
  <2> QED BY <2>1, <2>2
<1>3. ASSUME NEW d \in Drainers, DrainStep(d) PROVE WalksInside' /\ OwnMark'
  <2>1. DrainsOn(d)
    BY <1>3, DrainOn
  <2>2. WalksInside'
    BY <2>1 DEF DrainsOn, OthersWalk, WalksInside, Inside
  <2>3. OwnMark'
    BY <1>0, <2>1 DEF DrainsOn, OthersWalk, OwnMark
  <2> QED BY <2>2, <2>3
<1> QED BY <1>1, <1>2, <1>3, DriveStep DEF DriveSteps

(***************************************************************************)
(* What the waiters saw, and the gate's timer.                             *)
(***************************************************************************)
\* A step that changes no hold: whoever still has its snapshot stays where it
\* was, goes on from its drain to park, or is nowhere near a park.
SeesOn(r) ==
  \/ pc'[r] = pc[r] /\ (r \in timed => r \in timed')
  \/ pc'[r] \notin {"heldPark", "redrain", "parked"}
  \/ pc[r] = "redrain" /\ pc'[r] = "parked"
HoldStill ==
  hold' = hold /\ current' \subseteq current /\ \A r \in current' : SeesOn(r)

\* Such a step keeps what the waiters saw.
LEMMA HoldStillKeeps ==
  ASSUME HoldSeen, HoldStill
  PROVE  HoldSeen'
BY DEF HoldStill, SeesOn, HoldSeen, Held

\* A request moves away from its park.
LEMMA MoveSees ==
  ASSUME Base, NEW r \in Requests, NEW point, Goto(r, point), UNCHANGED hold,
         current' \subseteq current, timed \ {r} \subseteq timed',
         point \notin {"heldPark", "redrain", "parked"} \/ r \notin current'
  PROVE  HoldStill
<1>1. current' \subseteq Requests /\ pc \in [Requests -> Points]
  BY BaseTypes DEF PolicyTypes, SlotTypes
<1> QED BY <1>1 DEF HoldStill, SeesOn, Goto

\* removeWaiter.
LEMMA RemoveSees ==
  ASSUME Base, NEW r \in Requests, removeWaiter(r)
  PROVE  HoldStill
<1>1. PICK point : Goto(r, point)
  BY Zenon DEF removeWaiter, RemoveQueued, RemoveGranted
<1>2. /\ UNCHANGED hold /\ current' \subseteq current /\ timed \ {r} \subseteq timed'
      /\ r \notin current'
  BY DEF removeWaiter, Forget
<1> QED BY <1>1, <1>2, MoveSees

\* A step that moves nobody and changes no hold.
LEMMA StandSees ==
  ASSUME UNCHANGED <<hold, current, timed, pc>>
  PROVE  HoldStill
BY DEF HoldStill, SeesOn

\* The steps of a request.
LEMMA RequestSees ==
  ASSUME Base, HoldSeen, NEW r \in Requests, RequestStep(r)
  PROVE  HoldSeen'
<1>0. pc \in [Requests -> Points] /\ current \subseteq Requests
      /\ hold \in {"none", "manual", "timed"}
  BY BaseTypes DEF PolicyTypes, SlotTypes
<1>1. CASE DrainCheck(r)
  <2>1. CASE removeWaiter(r)
    BY <2>1, RemoveSees, HoldStillKeeps
  <2>2. CASE Goto(r, "snapshot") /\ UNCHANGED <<policy, channels>>
    <3>1. HoldStill
      BY <2>2, MoveSees DEF policy, channels
    <3> QED BY <3>1, HoldStillKeeps
  <2> QED BY <1>1, <2>1, <2>2, Zenon DEF DrainCheck
<1>2. CASE SnapshotKicks(r)
  <2>1. pc' = [pc EXCEPT ![r] = "holdRead"] /\ current' = current \cup {r}
        /\ UNCHANGED <<hold, timed>>
    BY <1>2 DEF SnapshotKicks, Goto, policy
  <2> QED BY <1>0, <2>1 DEF HoldSeen, Held
<1>3. CASE HoldRead(r)
  <2>1. UNCHANGED <<hold, current>>
    BY <1>3 DEF HoldRead, policy
  <2>2. CASE Held(r)
    <3>1. pc' = [pc EXCEPT ![r] = "heldPark"]
          /\ timed' = IF hold = "timed" THEN timed \cup {r} ELSE timed
      BY <1>3, <2>2 DEF HoldRead, Goto
    <3> QED BY <1>0, <2>1, <2>2, <3>1 DEF HoldSeen, Held
  <2>3. CASE ~Held(r)
    <3>1. pc' = [pc EXCEPT ![r] = "redrain"] /\ UNCHANGED timed
      BY <1>3, <2>3 DEF HoldRead, Goto
    <3> QED BY <1>0, <2>1, <2>3, <3>1 DEF HoldSeen, Held
  <2> QED BY <2>2, <2>3
<1>4. CASE ReadGrant(r)
  <2>1. HoldStill
    BY <1>4, MoveSees DEF ReadGrant, Forget
  <2> QED BY <2>1, HoldStillKeeps
<1>5. CASE Wake(r) \/ UntilFires(r)
  <2>1. HoldStill
    BY <1>5, MoveSees DEF Wake, UntilFires, policy
  <2> QED BY <2>1, HoldStillKeeps
<1>6. CASE WaitCancelled(r)
  BY <1>6, RemoveSees, HoldStillKeeps DEF WaitCancelled
<1>7. ASSUME NEW actual, ReleaseSettles(r, actual) PROVE HoldSeen'
  <2>1. HoldStill
    BY <1>7, MoveSees DEF ReleaseSettles, policy, channels
  <2> QED BY <2>1, HoldStillKeeps
<1>8. CASE release(r)
  <2>1. HoldStill
    BY <1>8, MoveSees DEF release, policy, channels
  <2> QED BY <2>1, HoldStillKeeps
<1> QED BY <1>1, <1>2, <1>3, <1>4, <1>5, <1>6, <1>7, <1>8, Zenon DEF RequestStep

\* A drain's step leaves the waiters' snapshots alone, unless it kicks them.
LEMMA DrainSees ==
  ASSUME Base, HoldSeen, WalksInside, OwnMark, NEW d \in Drainers, DrainStep(d)
  PROVE  HoldSeen'
<1>0. pc \in [Requests -> Points] /\ current \subseteq Requests /\ DrainersStand
  BY BaseTypes DEF PolicyTypes, SlotTypes
<1>1. PcAfter(d) /\ job[d] # "none"
  BY DrainOn DEF DrainsOn
<1>2. CASE UNCHANGED <<policy, channels>>
  <2>1. hold' = hold /\ current' = current /\ timed' = timed
    BY <1>2 DEF policy, channels
  <2>2. ASSUME NEW r \in current PROVE SeesOn(r)
    <3>1. CASE pc'[r] = pc[r]
      BY <2>1, <3>1 DEF SeesOn
    <3>2. CASE pc'[r] # pc[r]
      <4>1. r = d /\ pc'[r] = AfterDrain(r) /\ pc[r] \in Draining
        BY <1>0, <1>1, <3>2 DEF PcAfter, DrainersStand
      <4> QED BY <4>1 DEF SeesOn, AfterDrain, Away, Draining
    <3> QED BY <3>1, <3>2
  <2> QED BY <2>1, <2>2, HoldStillKeeps DEF HoldStill
<1>3. CASE KickPolicy(d)
  BY <1>3 DEF KickPolicy, HoldSeen
<1> QED BY <1>2, <1>3, Zenon DEF DrainStep, MarkGroup, MarkingGroup, CheckProvider,
          fairSnapshot, Peek, drainLimited, ServeNone, ServeRefused, ServeGrants,
          CheckCapacity, advanceFair

\* What the waiters saw is kept by every step.
LEMMA HoldSeenStep ==
  ASSUME Base, HoldSeen, WalksInside, OwnMark, [Next]_vars
  PROVE  HoldSeen'
<1>0. pc \in [Requests -> Points] /\ current \subseteq Requests
  BY BaseTypes DEF PolicyTypes, SlotTypes
<1>1. ASSUME NEW r \in Requests, AcquireFast(r) \/ AcquireQueues(r) PROVE HoldSeen'
  <2>1. HoldStill
    BY <1>1, MoveSees DEF AcquireFast, AcquireQueues, policy, channels
  <2> QED BY <2>1, HoldStillKeeps
<1>8. ASSUME NEW r \in Requests, Door(r) PROVE HoldSeen'
  <2>1. UNCHANGED <<hold, current, timed>>
        /\ \E p \in {"idle", "arriving", "gone"} : Goto(r, p)
    BY <1>8, DoorStep DEF channels
  <2>2. HoldStill
    BY <2>1, MoveSees
  <2> QED BY <2>2, HoldStillKeeps
<1>2. ASSUME NEW r \in Requests, WaitExpires(r) PROVE HoldSeen'
  BY <1>2, RemoveSees, HoldStillKeeps DEF WaitExpires
<1>3. ASSUME NEW r \in Requests, Abort(r) \/ Pace(r) PROVE HoldSeen'
  <2>1. HoldStill
    BY <1>3, StandSees DEF Abort, Pace, channels
  <2> QED BY <2>1, HoldStillKeeps
<1>4. ASSUME NEW d \in Drainers, Operate(d) PROVE HoldSeen'
  <2>1. ASSUME NEW next, SetHold(d, next) PROVE HoldSeen'
    BY <2>1 DEF SetHold, HoldSeen
  <2>2. ASSUME UNCHANGED <<hold, channels, pc>> PROVE HoldSeen'
    <3>1. HoldStill
      BY <2>2, StandSees DEF channels
    <3> QED BY <3>1, HoldStillKeeps
  <2> QED BY <1>4, <2>1, <2>2, Zenon DEF Operate, DrainQueue, UpdateThrottle,
            UpdateThrottleClearing
<1>5. CASE TimerStep
  <2>1. UNCHANGED <<policy, current, timed, pc>>
    BY <1>5, Zenon DEF TimerStep, Tick, GateWakes, PaceEnds, PacerFires, channels
  <2>2. HoldStill
    BY <2>1, StandSees DEF policy
  <2> QED BY <2>2, HoldStillKeeps
<1>6. CASE HoldExpires
  <2>1. hold = "timed" /\ hold' = "none" /\ UNCHANGED <<current, timed, pc>>
    BY <1>6 DEF HoldExpires, channels
  <2> QED BY <2>1 DEF HoldSeen, Held
<1>7. CASE UNCHANGED vars
  <2>1. HoldStill
    BY <1>7, StandSees DEF vars, policy, channels
  <2> QED BY <2>1, HoldStillKeeps
<1> QED BY <1>1, <1>2, <1>3, <1>4, <1>5, <1>6, <1>7, <1>8, NextCases, RequestSees, DrainSees,
          Zenon

\* Only the token bucket's refusal arms the timer.
LEMMA ArmHasBucket ==
  ASSUME Base, TimerHasBucket, NEW r, Blocked(r), ArmFor(r), UNCHANGED limit
  PROVE  TimerHasBucket'
BY DEF Blocked, TokensShort, ArmFor, TimerHasBucket

\* Every step leaves the timer to the bucket.
LEMMA TimerHasBucketStep ==
  ASSUME Base, TimerHasBucket, [Next]_vars
  PROVE  TimerHasBucket'
<1>0. GateTypes
  BY BaseTypes
<1>1. ASSUME UNCHANGED <<limit, wake>> PROVE TimerHasBucket'
  BY <1>1 DEF TimerHasBucket
<1>2. ASSUME NEW r \in Requests, AcquireQueues(r) PROVE TimerHasBucket'
  <2>1. CASE FastPath(r)
    BY <1>2, <2>1, ArmHasBucket DEF AcquireQueues, ArmIfRefused
  <2>2. CASE ~FastPath(r)
    BY <1>1, <1>2, <2>2 DEF AcquireQueues, ArmIfRefused
  <2> QED BY <2>1, <2>2
<1>3. ASSUME NEW d, NEW g, ServeRefused(d, g) PROVE TimerHasBucket'
  BY <1>3, ArmHasBucket DEF ServeRefused
<1>4. CASE Tick
  BY <1>0, <1>4 DEF Tick, TimerHasBucket, GateTypes
<1>5. ASSUME NEW d, NEW next, UpdateThrottle(d, next) PROVE TimerHasBucket'
  BY <1>5 DEF UpdateThrottle, UpdateThrottleClearing, TimerHasBucket
<1>6. ASSUME NEW r, removeWaiter(r) PROVE TimerHasBucket'
  BY <1>1, <1>6, Zenon DEF removeWaiter, RemoveQueued, RemoveGranted, gate
<1>7. ASSUME NEW r \in Requests, RequestStep(r) PROVE TimerHasBucket'
  BY <1>1, <1>6, <1>7, Zenon DEF RequestStep, DrainCheck, SnapshotKicks, HoldRead,
    ReadGrant, Wake, UntilFires, WaitCancelled, ReleaseSettles, release, gate
<1>8. ASSUME NEW d \in Drainers, DrainStep(d) PROVE TimerHasBucket'
  BY <1>1, <1>3, <1>8, Zenon DEF DrainStep, MarkGroup, MarkingGroup, CheckProvider,
    fairSnapshot, Peek, drainLimited, ServeNone, ServeGrants, CheckCapacity,
    advanceFair, KickPolicy, gate
<1>9. ASSUME NEW d \in Drainers, Operate(d) PROVE TimerHasBucket'
  BY <1>1, <1>5, <1>9, Zenon DEF Operate, SetHold, DrainQueue, gate
<1>10. CASE TimerStep
  BY <1>1, <1>4, <1>10, Zenon DEF TimerStep, GateWakes, PaceEnds, PacerFires, gate
<1>11. ASSUME NEW r \in Requests, AcquireFast(r) PROVE TimerHasBucket'
  BY <1>1, <1>11, Zenon DEF AcquireFast
<1>14. ASSUME NEW r \in Requests, Door(r) PROVE TimerHasBucket'
  BY <1>1, <1>14, DoorStep DEF gate
<1>12. ASSUME NEW r \in Requests, WaitExpires(r) \/ Abort(r) \/ Pace(r)
       PROVE  TimerHasBucket'
  BY <1>1, <1>6, <1>12, Zenon DEF WaitExpires, Abort, Pace, gate
<1>13. CASE HoldExpires \/ UNCHANGED vars
  BY <1>1, <1>13, Zenon DEF HoldExpires, vars, gate
<1> QED BY <1>2, <1>7, <1>8, <1>9, <1>10, <1>11, <1>12, <1>13, <1>14,
          NextCases, Zenon

(***************************************************************************)
(* The waiters that are asleep.                                            *)
(***************************************************************************)
\* The least-number principle, from the well-foundedness of < on Nat.
LEMMA LeastNumber ==
  ASSUME NEW T \in SUBSET Nat, T # {}
  PROVE  \E m \in T : \A n \in T : m <= n
<1>1. PICK m \in T : \A n \in T : ~(<<n, m>> \in OpToRel(<, Nat))
  BY NatLessThanWellFounded, WFMin
<1>2. ASSUME NEW n \in T PROVE m <= n
  <2>1. ~(n < m)
    BY <1>1, <1>2 DEF OpToRel
  <2> QED BY <2>1
<1> QED BY <1>2

\* A queue with somebody whom a drain may reach has a first one.
LEMMA SomeFirst ==
  ASSUME Base, QueueOrder, NEW g, NEW r \in Queue(g), Reachable(r)
  PROVE  First(g) # {}
<1> DEFINE S == {x \in Queue(g) : Reachable(x)}
           T == {Cardinality(ahead[x]) : x \in S}
<1>1. queued \subseteq Requests /\ ahead \in [Requests -> SUBSET Requests]
  BY BaseTypes DEF SlotTypes, OrderTypes
<1>2. \A x \in S : /\ x \in Requests /\ x \in queued /\ GroupOf[x] = g
                   /\ ahead[x] \subseteq Requests
  BY <1>1 DEF Queue, Members
<1>3. \A x \in S : IsFiniteSet(ahead[x]) /\ Cardinality(ahead[x]) \in Nat
  BY <1>2, FS_Subset, FS_CardinalityType, AdmissionAssumption
<1>4. T \in SUBSET Nat /\ T # {}
  BY <1>3
<1>5. PICK m \in T : \A n \in T : m <= n
  BY <1>4, LeastNumber
<1>6. PICK x \in S : Cardinality(ahead[x]) = m
  BY <1>5
<1>7. ASSUME NEW y \in ahead[x], Reachable(y) PROVE FALSE
  <2>1. ahead[y] \subseteq ahead[x] /\ y \in Queue(g)
    BY <1>2, <1>6, <1>7 DEF QueueOrder
  <2>2. y \in S /\ y \notin ahead[y]
    BY <1>7, <2>1 DEF QueueOrder, Queue
  <2>3. Cardinality(ahead[y]) <= Cardinality(ahead[x]) /\ ahead[y] # ahead[x]
    BY <1>3, <1>7, <2>1, <2>2, FS_Subset
  <2>4. Cardinality(ahead[y]) # Cardinality(ahead[x])
    BY <1>3, <2>1, <2>3, FS_Subset
  <2>5. m <= Cardinality(ahead[y])
    BY <1>5, <2>2
  <2> HIDE DEF S, T
  <2>6. Cardinality(ahead[y]) \in Nat /\ m \in Nat
    BY <1>3, <1>4, <1>5, <2>2
  <2> QED BY <1>6, <2>3, <2>4, <2>5, <2>6
<1>8. x \in First(g)
  BY <1>6, <1>7 DEF First
<1> QED BY <1>8

\* A drain may reach whoever is asleep.
LEMMA AsleepReachable ==
  ASSUME Base, HoldSeen, NEW r \in Requests, Asleep(r)
  PROVE  Reachable(r) /\ r \in Queue(GroupOf[r]) /\ GroupOf[r] \in Groups
BY AdmissionAssumption DEF Asleep, HoldSeen, Reachable, Queue, Members

Parking == {"redrain", "parked"}
Calms == /\ queued' \subseteq queued /\ cancelled \subseteq cancelled'
         /\ current' \subseteq current /\ sendCurrent' \subseteq sendCurrent
CalmsBut(x) ==
  /\ pc'[x] \notin Parking
  /\ queued' \subseteq queued \cup {x} /\ cancelled \ {x} \subseteq cancelled'
  /\ current' \subseteq current \cup {x} /\ sendCurrent' \subseteq sendCurrent \cup {x}
CalmSteps == Calms \/ \E x \in Requests : CalmsBut(x)

\* A request moves away from its park.
LEMMA MoveCalms ==
  ASSUME Base, NEW x \in Requests, NEW point, Goto(x, point), point \notin Parking,
         queued' \subseteq queued \cup {x}, cancelled \ {x} \subseteq cancelled',
         current' \subseteq current \cup {x}, sendCurrent' \subseteq sendCurrent \cup {x}
  PROVE  CalmSteps
<1>1. pc'[x] = point
  BY BaseTypes DEF Goto, SlotTypes
<1> QED BY <1>1 DEF CalmSteps, CalmsBut

\* removeWaiter.
LEMMA RemoveCalms ==
  ASSUME Base, NEW x \in Requests, removeWaiter(x)
  PROVE  CalmSteps
<1>1. Away(x) \notin Parking /\ "leaving" \notin Parking
  BY DEF Away, Parking
<1>2. queued' \subseteq queued
  BY DEF removeWaiter, RemoveQueued, RemoveGranted, Unlink
<1>3. Goto(x, Away(x)) \/ Goto(x, "leaving")
  BY Zenon DEF removeWaiter, RemoveQueued, RemoveGranted
<1>4. /\ cancelled \ {x} \subseteq cancelled'
      /\ current' \subseteq current \cup {x} /\ sendCurrent' \subseteq sendCurrent \cup {x}
  BY DEF removeWaiter, Forget
<1> QED BY <1>1, <1>2, <1>3, <1>4, MoveCalms

\* A step that changes none of it.
LEMMA StillCalms ==
  ASSUME UNCHANGED <<queued, cancelled, current, sendCurrent>>
  PROVE  CalmSteps
BY DEF CalmSteps, Calms

\* No step makes a waiter that parks forget a kick.
LEMMA CalmStep ==
  ASSUME Base, [Next]_vars
  PROVE  CalmSteps
<1>1. ASSUME NEW r \in Requests, AcquireFast(r) PROVE CalmSteps
  BY <1>1, StillCalms DEF AcquireFast, channels
<1>11. ASSUME NEW r \in Requests, Door(r) PROVE CalmSteps
  BY <1>11, DoorStep, StillCalms DEF slots, channels
<1>2. ASSUME NEW r \in Requests, AcquireQueues(r) PROVE CalmSteps
  BY <1>2, MoveCalms DEF AcquireQueues, channels, Parking
<1>3. ASSUME NEW r \in Requests, WaitExpires(r) PROVE CalmSteps
  BY <1>3, RemoveCalms DEF WaitExpires
<1>4. ASSUME NEW r \in Requests, Abort(r) \/ Pace(r) PROVE CalmSteps
  BY <1>4 DEF Abort, Pace, slots, channels, CalmSteps, Calms
<1>5. ASSUME NEW r \in Requests, RequestStep(r) PROVE CalmSteps
  <2>1. CASE DrainCheck(r) \/ WaitCancelled(r)
    <3>1. removeWaiter(r) \/ UNCHANGED <<slots, channels, cancelled>>
      BY <2>1, Zenon DEF DrainCheck, WaitCancelled
    <3>2. UNCHANGED <<slots, channels, cancelled>> => CalmSteps
      BY StillCalms DEF slots, channels
    <3> QED BY <3>1, <3>2, RemoveCalms
  <2>2. CASE SnapshotKicks(r)
    BY <2>2, MoveCalms DEF SnapshotKicks, slots, Parking
  <2>3. CASE HoldRead(r) \/ Wake(r) \/ UntilFires(r)
    <3>1. UNCHANGED <<slots, current, sendCurrent, cancelled>>
      BY <2>3, Zenon DEF HoldRead, Wake, UntilFires
    <3> QED BY <3>1, StillCalms DEF slots
  <2>4. CASE ReadGrant(r)
    BY <2>4, MoveCalms DEF ReadGrant, Forget, Parking
  <2>5. ASSUME NEW actual, ReleaseSettles(r, actual) PROVE CalmSteps
    BY <2>5, StillCalms DEF ReleaseSettles, slots, channels
  <2>6. CASE release(r)
    BY <2>6, StillCalms DEF release, channels
  <2> QED BY <1>5, <2>1, <2>2, <2>3, <2>4, <2>5, <2>6, Zenon DEF RequestStep
<1>6. ASSUME NEW d \in Drainers, DrainStep(d) PROVE CalmSteps
  <2>1. ASSUME UNCHANGED <<slots, channels, cancelled>> PROVE CalmSteps
    BY <2>1, StillCalms DEF slots, channels
  <2>2. ASSUME NEW g, ServeGrants(d, g) PROVE CalmSteps
    BY <2>2 DEF ServeGrants, Unlink, channels, CalmSteps, Calms
  <2>3. CASE KickPolicy(d)
    BY <2>3 DEF KickPolicy, slots, CalmSteps, Calms
  <2> QED BY <1>6, <2>1, <2>2, <2>3, Zenon DEF DrainStep, MarkGroup, MarkingGroup,
            CheckProvider, fairSnapshot, Peek, drainLimited, ServeNone, ServeRefused,
            CheckCapacity, advanceFair
<1>7. ASSUME NEW d \in Drainers, Operate(d) PROVE CalmSteps
  <2>1. ASSUME NEW next, SetHold(d, next) PROVE CalmSteps
    BY <2>1 DEF SetHold, slots, CalmSteps, Calms
  <2>2. CASE DrainQueue(d)
    BY <2>2, StillCalms DEF DrainQueue, slots, channels
  <2>3. ASSUME NEW next, UpdateThrottle(d, next) PROVE CalmSteps
    BY <2>3, StillCalms DEF UpdateThrottle, UpdateThrottleClearing, slots, channels
  <2> QED BY <1>7, <2>1, <2>2, <2>3, Zenon DEF Operate
<1>8. CASE TimerStep
  <2>1. /\ UNCHANGED <<slots, cancelled, current>>
        /\ \/ UNCHANGED sendCurrent
           \/ \E g \in Groups : sendCurrent' = sendCurrent \ Members(g)
    BY <1>8, Zenon DEF TimerStep, Tick, GateWakes, PaceEnds, PacerFires, channels
  <2> QED BY <2>1 DEF slots, CalmSteps, Calms
<1>9. CASE HoldExpires
  BY <1>9, StillCalms DEF HoldExpires, slots, channels
<1>10. CASE UNCHANGED vars
  BY <1>10, StillCalms DEF vars, slots, channels
<1> QED BY <1>1, <1>2, <1>3, <1>4, <1>5, <1>6, <1>7, <1>8, <1>9, <1>10, <1>11,
          NextCases, Zenon

\* Only its own drain, once it has marked its group, sends a waiter to sleep.
Settles(r) == \E g \in Groups : MarkGroup(r, g)

\* Whoever is asleep was asleep, or has just marked its group.
LEMMA AsleepStep ==
  ASSUME Base, WalksInside, OwnMark, [Next]_vars, NEW r \in Requests, Asleep(r)'
  PROVE  Asleep(r) \/ Settles(r)
<1>0. r \in Drainers
  BY DEF Drainers
<1>1. pc'[r] \in Parking /\ (pc'[r] = "redrain" => job'[r] # "mark")
  BY DEF Asleep, Parking
<1>2. r \in queued /\ r \notin cancelled /\ r \in current /\ r \in sendCurrent
  <2>1. CASE Calms
    BY <2>1 DEF Calms, Asleep
  <2>2. ASSUME NEW x \in Requests, CalmsBut(x)
        PROVE  r \in queued /\ r \notin cancelled /\ r \in current /\ r \in sendCurrent
    BY <1>1, <2>2 DEF CalmsBut, Asleep
  <2> QED BY <2>1, <2>2, CalmStep DEF CalmSteps
<1>3. CASE Rests
  BY <1>1, <1>2, <1>3 DEF Rests, Asleep, drains, Parking
<1>4. ASSUME NEW d \in Drainers, Starts(d) PROVE Asleep(r)
  BY <1>0, <1>1, <1>2, <1>4 DEF Starts, OthersWalk, Asleep, Parking
<1>5. ASSUME NEW d \in Drainers, DrainStep(d) PROVE Asleep(r) \/ Settles(r)
  <2>1. /\ job[d] # "none" /\ PcAfter(d) /\ MovesOnly(d)
    BY <1>5, DrainOn DEF DrainsOn
  <2>2. CASE r # d
    BY <1>1, <1>2, <2>1, <2>2 DEF MovesOnly, Asleep, Parking
  <2>3. CASE r = d
    <3>1. pc[r] \in Draining /\ pc \in [Requests -> Points]
      BY <2>1, <2>3, BaseTypes DEF DrainersStand, SlotTypes
    <3>2. pc[r] = "redrain"
      <4>1. CASE UNCHANGED pc
        BY <1>1, <3>1, <4>1 DEF Draining, Parking
      <4>2. CASE pc' = [pc EXCEPT ![r] = AfterDrain(r)]
        <5>1. pc'[r] = AfterDrain(r)
          BY <3>1, <4>2
        <5> QED BY <1>1, <3>1, <5>1 DEF AfterDrain, Away, Draining, Parking
      <4> QED BY <2>1, <2>3, <4>1, <4>2 DEF PcAfter
    <3>3. CASE job[r] # "mark"
      BY <1>2, <3>2, <3>3 DEF Asleep
    <3>4. CASE job[r] = "mark"
      <4>1. ~(CheckProvider(r) \/ fairSnapshot(r) \/ Peek(r) \/ drainLimited(r)
              \/ CheckCapacity(r) \/ advanceFair(r) \/ KickPolicy(r))
        BY <3>4 DEF CheckProvider, fairSnapshot, Peek, drainLimited, CheckCapacity,
          advanceFair, KickPolicy
      <4> QED BY <1>5, <2>3, <4>1 DEF DrainStep, Settles
    <3> QED BY <3>3, <3>4
  <2> QED BY <2>2, <2>3
<1> QED BY <1>3, <1>4, <1>5, DriveStep DEF DriveSteps

(***************************************************************************)
(* Whose window opens is marked.                                           *)
(***************************************************************************)
\* No window opens.
Narrows ==
  /\ \A g \in Groups : inFlight'[g] \in Nat /\ inFlight'[g] >= inFlight[g]
  /\ paced \subseteq paced' /\ UNCHANGED cap

\* A drain that starts has its group to mark.
LEMMA StartMarks ==
  ASSUME Base, NEW r \in Requests, StartDrain(r, GroupOf[r])
  PROVE  MarkPending(GroupOf[r])'
<1>1. r \in Drainers /\ DrainTypes
  BY BaseTypes DEF Drainers
<1>2. job'[r] = "mark" /\ GroupOf[r] \in tomark'[r]
  BY <1>1 DEF StartDrain, DrainTypes
<1> QED BY <1>1, <1>2 DEF MarkPending

\* A slot that is given back starts the drain of its group.
LEMMA FreedMarks ==
  ASSUME Base, NEW x \in Requests, StartDrain(x, GroupOf[x]), UNCHANGED <<paced, cap>>,
         inFlight' = [inFlight EXCEPT ![GroupOf[x]] = IF @ > 0 THEN @ - 1 ELSE 0],
         NEW g \in Groups, WindowOpen(g)'
  PROVE  WindowOpen(g) \/ MarkPending(g)'
<1>1. CASE g = GroupOf[x]
  BY <1>1, StartMarks
<1>2. CASE g # GroupOf[x]
  <2>1. inFlight'[g] = inFlight[g]
    BY <1>2, BaseTypes DEF SlotTypes
  <2> QED BY <2>1 DEF WindowOpen
<1> QED BY <1>1, <1>2

\* Such a step opens no window.
LEMMA NarrowsKeeps ==
  ASSUME Base, Narrows, NEW g \in Groups, WindowOpen(g)'
  PROVE  WindowOpen(g)
<1>1. /\ inFlight'[g] >= inFlight[g] /\ inFlight'[g] \in Nat
      /\ (g \in paced => g \in paced') /\ cap' = cap
  BY DEF Narrows
<1>2. cap[g] \in Nat /\ inFlight[g] \in Nat
  BY BaseTypes DEF SlotTypes, PolicyTypes
<1>3. cap[g] = 0 \/ inFlight'[g] < cap[g]
  BY <1>1 DEF WindowOpen
<1>4. g \notin paced
  BY <1>1 DEF WindowOpen
<1>5. CASE cap[g] = 0
  BY <1>4, <1>5 DEF WindowOpen
<1>6. CASE inFlight'[g] < cap[g]
  <2>1. inFlight[g] < cap[g]
    BY <1>1, <1>2, <1>6
  <2> QED BY <1>4, <2>1 DEF WindowOpen
<1> QED BY <1>3, <1>5, <1>6

\* Nor does one that changes neither cap nor pacing.
LEMMA UnchangedNarrows ==
  ASSUME Base, UNCHANGED <<inFlight, paced, cap>>
  PROVE  Narrows
BY BaseTypes DEF SlotTypes, Narrows

\* removeWaiter.
LEMMA RemoveOpens ==
  ASSUME Base, NEW x \in Requests, removeWaiter(x), NEW g \in Groups, WindowOpen(g)'
  PROVE  WindowOpen(g) \/ MarkPending(g)'
<1>1. UNCHANGED <<paced, cap>>
  BY DEF removeWaiter, windows, caps
<1>2. CASE RemoveQueued(x)
  BY <1>1, <1>2, UnchangedNarrows, NarrowsKeeps DEF RemoveQueued
<1>3. CASE RemoveGranted(x)
  BY <1>1, <1>3, FreedMarks DEF RemoveGranted
<1> QED BY <1>2, <1>3 DEF removeWaiter

\* Whoever opens a window marks its group, or has raised the cap.
LEMMA OpensMarked ==
  ASSUME Base, [Next]_vars, NEW g \in Groups, WindowOpen(g)'
  PROVE  WindowOpen(g) \/ MarkPending(g)' \/ RaisedUnseen(g)'
<1> DEFINE Goal == WindowOpen(g) \/ MarkPending(g)' \/ RaisedUnseen(g)'
<1>0. ASSUME UNCHANGED <<inFlight, paced, cap>> PROVE Goal
  BY <1>0, UnchangedNarrows, NarrowsKeeps
<1>1. ASSUME NEW r \in Requests, AcquireFast(r) PROVE Goal
  <2>1. Narrows
    BY <1>1, BaseTypes DEF AcquireFast, windows, caps, Narrows, SlotTypes
  <2> QED BY <2>1, NarrowsKeeps
<1>2. ASSUME NEW r \in Requests, AcquireQueues(r) PROVE Goal
  BY <1>0, <1>2 DEF AcquireQueues, windows, caps
<1>13. ASSUME NEW r \in Requests, AcquireRefused(r) PROVE Goal
  BY <1>0, <1>13 DEF AcquireRefused, slots, windows, caps
<1>14. ASSUME NEW r \in Requests, NEW next \in Caps, groupForLocked(r, next) PROVE Goal
  <2>1. SUFFICES ASSUME ~WindowOpen(g) PROVE RaisedUnseen(g)'
    OBVIOUS
  <2>2. UNCHANGED <<inFlight, paced>> /\ cap' = [cap EXCEPT ![GroupOf[r]] = next]
        /\ raised' = IF Looser(next, cap[GroupOf[r]]) THEN raised \cup {GroupOf[r]} ELSE raised
    BY <1>14 DEF groupForLocked, slots
  <2>3. cap \in [Groups -> Nat] /\ inFlight[g] \in Nat /\ next \in Nat
    BY BaseTypes, AdmissionAssumption DEF SlotTypes, PolicyTypes
  <2>4. g = GroupOf[r]
    <3>1. SUFFICES ASSUME g # GroupOf[r] PROVE WindowOpen(g)
      BY <2>1
    <3>2. cap'[g] = cap[g]
      BY <2>2, <2>3, <3>1
    <3> QED BY <2>2, <3>2 DEF WindowOpen
  <2>5. cap'[g] = next
    BY <2>2, <2>3, <2>4
  <2>6. /\ cap[g] # 0 /\ ~(inFlight[g] < cap[g])
        /\ next = 0 \/ inFlight[g] < next
    BY <2>1, <2>2, <2>5 DEF WindowOpen
  <2>7. Looser(next, cap[g]) /\ inFlight[g] > 0
    BY <2>3, <2>6 DEF Looser
  <2> QED BY <2>2, <2>4, <2>7 DEF RaisedUnseen
<1>15. ASSUME NEW r \in Requests, Door(r) PROVE Goal
  BY <1>13, <1>14, <1>15, Zenon DEF Door
<1>3. ASSUME NEW r \in Requests, WaitExpires(r) PROVE Goal
  BY <1>3, RemoveOpens DEF WaitExpires
<1>4. ASSUME NEW r \in Requests, Abort(r) PROVE Goal
  BY <1>0, <1>4 DEF Abort, slots, windows, caps
<1>5. ASSUME NEW r \in Requests, Pace(r) PROVE Goal
  <2>1. Narrows
    BY <1>5, BaseTypes DEF Pace, slots, caps, Narrows, SlotTypes
  <2> QED BY <2>1, NarrowsKeeps
<1>6. ASSUME NEW r \in Requests, RequestStep(r) PROVE Goal
  <2>1. CASE removeWaiter(r)
    BY <2>1, RemoveOpens
  <2>2. CASE release(r)
    BY <2>2, FreedMarks DEF release, windows, caps
  <2>3. CASE UNCHANGED <<slots, windows>>
    BY <1>0, <2>3 DEF slots, windows, caps
  <2>4. CASE ReadGrant(r)
    BY <1>0, <2>4 DEF ReadGrant, windows, caps
  <2> QED BY <1>6, <2>1, <2>2, <2>3, <2>4, Zenon DEF RequestStep, DrainCheck,
            SnapshotKicks, HoldRead, Wake, UntilFires, WaitCancelled, ReleaseSettles
<1>7. ASSUME NEW d \in Drainers, DrainStep(d) PROVE Goal
  <2>1. CASE UNCHANGED <<slots, windows>>
    BY <1>0, <2>1 DEF slots, windows, caps
  <2>3. ASSUME NEW h \in Groups, MarkGroup(d, h) PROVE Goal
    BY <1>0, <2>3 DEF MarkGroup, MarkingGroup, slots
  <2>2. ASSUME NEW h, ServeGrants(d, h) PROVE Goal
    <3>1. inFlight' = [inFlight EXCEPT ![h] = @ + 1] /\ UNCHANGED <<paced, cap>>
      BY <2>2 DEF ServeGrants, windows, caps
    <3>2. Narrows
      BY <3>1, BaseTypes DEF Narrows, SlotTypes
    <3> QED BY <3>2, NarrowsKeeps
  <2> QED BY <1>7, <2>1, <2>2, <2>3, Zenon DEF DrainStep, CheckProvider, fairSnapshot, Peek, drainLimited, ServeNone, ServeRefused,
            CheckCapacity, advanceFair, KickPolicy
<1>8. ASSUME NEW d \in Drainers, Operate(d) PROVE Goal
  <2>1. UNCHANGED <<slots, paced, caps>>
    BY <1>8, Zenon DEF Operate, SetHold, DrainQueue, UpdateThrottle,
      UpdateThrottleClearing, windows
  <2> QED BY <1>0, <2>1 DEF slots, caps
<1>9. ASSUME NEW h \in Groups, PaceEnds(h) PROVE Goal
  <2>1. CASE h = g
    BY <1>9, <2>1 DEF PaceEnds, MarkPending
  <2>2. CASE h # g
    BY <1>9, <2>2 DEF PaceEnds, slots, caps, WindowOpen
  <2> QED BY <2>1, <2>2
<1>10. CASE TimerStep
  <2>1. \/ UNCHANGED <<slots, paced, caps>>
        \/ \E h \in Groups : PaceEnds(h)
    BY <1>10, Zenon DEF TimerStep, Tick, GateWakes, PacerFires
  <2>2. UNCHANGED <<slots, paced, caps>> => Goal
    BY <1>0 DEF slots, caps
  <2> QED BY <1>9, <2>1, <2>2
<1>11. CASE HoldExpires
  BY <1>0, <1>11 DEF HoldExpires, slots, windows, caps
<1>12. CASE UNCHANGED vars
  BY <1>0, <1>12 DEF vars, slots, windows, caps
<1> QED BY <1>1, <1>2, <1>3, <1>4, <1>5, <1>6, <1>7, <1>8, <1>10, <1>11, <1>12, <1>15, NextCases,
          Zenon

\* A raised cap that no drain has seen is so until one is on its way.
LEMMA RaisedKept ==
  ASSUME Base, [Next]_vars, NEW g \in Groups, RaisedUnseen(g)
  PROVE  \/ RaisedUnseen(g)' \/ MarkPending(g)'
         \/ \E d \in Drainers : MarkGroup(d, g)
<1> DEFINE Goal == \/ RaisedUnseen(g)' \/ MarkPending(g)'
                   \/ \E d \in Drainers : MarkGroup(d, g)
<1>0. inFlight \in [Groups -> Nat] /\ inFlight[g] \in Nat /\ inFlight[g] > 0 /\ g \in raised
  BY BaseTypes DEF SlotTypes, RaisedUnseen
<1>1. ASSUME raised \subseteq raised',
             \/ UNCHANGED inFlight \/ UNCHANGED slots
             \/ \E h : inFlight' = [inFlight EXCEPT ![h] = @ + 1]
      PROVE  Goal
  <2>1. inFlight'[g] > 0
    BY <1>0, <1>1 DEF slots
  <2> QED BY <1>0, <1>1, <2>1 DEF RaisedUnseen
<1>2. UNCHANGED windows \/ UNCHANGED caps => raised \subseteq raised'
  BY DEF windows, caps
<1>3. ASSUME NEW x \in Requests, StartDrain(x, GroupOf[x]), raised \subseteq raised',
             inFlight' = [inFlight EXCEPT ![GroupOf[x]] = IF @ > 0 THEN @ - 1 ELSE 0]
      PROVE  Goal
  <2>1. CASE g = GroupOf[x]
    BY <1>3, <2>1, StartMarks
  <2>2. CASE g # GroupOf[x]
    BY <1>0, <1>3, <2>2 DEF RaisedUnseen
  <2> QED BY <2>1, <2>2
<1>4. ASSUME NEW x \in Requests, removeWaiter(x) PROVE Goal
  <2>1. CASE RemoveQueued(x)
    BY <1>1, <1>2, <1>4, <2>1, Zenon DEF removeWaiter, RemoveQueued
  <2>2. CASE RemoveGranted(x)
    BY <1>2, <1>3, <1>4, <2>2, Zenon DEF removeWaiter, RemoveGranted
  <2> QED BY <1>4, <2>1, <2>2, Zenon DEF removeWaiter
<1>5. ASSUME NEW x \in Requests, AcquireFast(x) \/ AcquireQueues(x) PROVE Goal
  BY <1>1, <1>2, <1>5, Zenon DEF AcquireFast, AcquireQueues
<1>6. ASSUME NEW x \in Requests, Door(x) PROVE Goal
  <2>1. raised \subseteq raised'
    BY <1>2, <1>6 DEF Door, groupForLocked, AcquireRefused
  <2>2. UNCHANGED slots
    BY <1>6, DoorStep
  <2> QED BY <1>1, <2>1, <2>2
<1>7. ASSUME NEW x \in Requests, WaitExpires(x) \/ Abort(x) \/ Pace(x) PROVE Goal
  BY <1>1, <1>2, <1>4, <1>7, Zenon DEF WaitExpires, Abort, Pace
<1>8. ASSUME NEW x \in Requests, RequestStep(x) PROVE Goal
  <2>1. CASE release(x)
    BY <1>2, <1>3, <2>1, Zenon DEF release
  <2> QED BY <1>1, <1>2, <1>4, <1>8, <2>1, Zenon DEF RequestStep, DrainCheck,
            SnapshotKicks, HoldRead, ReadGrant, Wake, UntilFires, WaitCancelled,
            ReleaseSettles
<1>9. ASSUME NEW d \in Drainers, DrainStep(d) PROVE Goal
  <2>1. ASSUME NEW h \in Groups, MarkGroup(d, h) PROVE Goal
    <3>1. CASE h = g
      BY <2>1, <3>1
    <3>2. CASE h # g
      <4>1. raised' = raised \ {h} /\ UNCHANGED slots
        BY <2>1, Zenon DEF MarkGroup, MarkingGroup
      <4> QED BY <1>0, <3>2, <4>1 DEF RaisedUnseen, slots
    <3> QED BY <3>1, <3>2
  <2> QED BY <1>1, <1>2, <1>9, <2>1, Zenon DEF DrainStep, CheckProvider, fairSnapshot,
            Peek, drainLimited, ServeNone, ServeRefused, ServeGrants, CheckCapacity,
            advanceFair, KickPolicy
<1>10. ASSUME NEW d \in Drainers, Operate(d) PROVE Goal
  BY <1>1, <1>2, <1>10, Zenon DEF Operate, SetHold, DrainQueue, UpdateThrottle,
    UpdateThrottleClearing
<1>11. CASE TimerStep
  BY <1>1, <1>2, <1>11, Zenon DEF TimerStep, Tick, GateWakes, PaceEnds, PacerFires
<1>12. CASE HoldExpires \/ UNCHANGED vars
  BY <1>1, <1>2, <1>12, Zenon DEF HoldExpires, vars
<1> QED BY <1>5, <1>6, <1>7, <1>8, <1>9, <1>10, <1>11, <1>12, NextCases, Zenon

(***************************************************************************)
(* Nobody asleep loses its group's place in the fair list.                 *)
(***************************************************************************)
\* The first of a queue is in front of everybody else that is asleep in it.
LEMMA FirstAhead ==
  ASSUME Base, QueueOrder, HoldSeen, NEW r \in Requests, Asleep(r),
         NEW x \in First(GroupOf[r]), x # r
  PROVE  x \in ahead[r]
<1>1. Reachable(r) /\ r \in Queue(GroupOf[r])
  BY AsleepReachable
<1>2. /\ x \in Queue(GroupOf[r]) /\ x \in queued /\ GroupOf[x] = GroupOf[r]
      /\ \A y \in ahead[x] : ~Reachable(y)
  BY DEF First, Queue, Members
<1>3. r \notin ahead[x]
  BY <1>1, <1>2
<1>4. r \in queued
  BY <1>1 DEF Queue
<1> QED BY <1>1, <1>2, <1>3, <1>4 DEF QueueOrder

\* A list that stays.
LEMMA SameFair ==
  ASSUME UNCHANGED fair, NEW g
  PROVE  InFair(g)' <=> InFair(g)
BY DEF InFair

\* removeWaiter withdraws an empty group only.
LEMMA RemoveKeepsFair ==
  ASSUME Base, NEW x \in Requests, removeWaiter(x), NEW r \in Requests, r \in queued,
         r \in queued', InFair(GroupOf[r])
  PROVE  InFair(GroupOf[r])'
<1>1. CASE RemoveGranted(x)
  BY <1>1, SameFair DEF RemoveGranted
<1>2. CASE RemoveQueued(x)
  <2>1. CASE Queue(GroupOf[x]) # {x}
    BY <1>2, <2>1, SameFair DEF RemoveQueued
  <2>2. CASE Queue(GroupOf[x]) = {x}
    <3>1. r # x
      BY <1>2 DEF RemoveQueued, Unlink
    <3>2. GroupOf[r] # GroupOf[x]
      BY <2>2, <3>1 DEF Queue, Members
    <3>3. Unmark(GroupOf[x])
      BY <1>2, <2>2 DEF RemoveQueued
    <3> QED BY <3>2, <3>3, UnmarkKeeps, BaseTypes
  <2> QED BY <2>1, <2>2
<1> QED BY <1>1, <1>2 DEF removeWaiter

\* A drain withdraws the group of nobody whom it could still let in.
LEMMA ServeKeepsFair ==
  ASSUME Base, QueueOrder, HoldSeen, NEW d \in Drainers, drainLimited(d),
         NEW r \in Requests, Asleep(r), r \in queued', WindowOpen(GroupOf[r])',
         InFair(GroupOf[r])
  PROVE  InFair(GroupOf[r])'
<1> DEFINE g == Turn(d)
<1>0. OrderTypes /\ SlotTypes
  BY BaseTypes
<1>01. Reachable(r) /\ r \in Queue(GroupOf[r]) /\ GroupOf[r] \in Groups
  BY AsleepReachable
<1>1. CASE ServeNone(d, g)
  <2>1. Unmark(g) /\ UNCHANGED <<slots, windows>>
    BY <1>1 DEF ServeNone
  <2>2. GroupOf[r] # g
    <3>1. SUFFICES ASSUME GroupOf[r] = g PROVE FALSE
      OBVIOUS
    <3>2. WindowOpen(g)
      BY <2>1, <3>1 DEF WindowOpen, slots, windows, caps
    <3>3. First(g) # {}
      BY <1>01, <3>1, SomeFirst
    <3> QED BY <1>1, <3>2, <3>3 DEF ServeNone
  <2> HIDE DEF g
  <2> QED BY <1>0, <2>1, <2>2, UnmarkKeeps
<1>2. CASE ServeRefused(d, g)
  <2>1. Mark(g)
    BY <1>2 DEF ServeRefused
  <2>2. CASE fair' = fair
    BY <2>2, SameFair
  <2>3. CASE g \in Groups
    BY <1>0, <2>1, <2>3, MarkKeeps DEF OrderTypes
  <2>4. PICK x \in First(g) : TRUE
    BY <1>2 DEF ServeRefused
  <2>5. g \in Groups
    BY <2>4, AdmissionAssumption DEF First, Queue, Members
  <2> QED BY <2>3, <2>5
<1>3. CASE ServeGrants(d, g)
  <2>1. PICK x \in First(g) : /\ Unlink(x)
                              /\ IF \E y \in queued : x \in ahead[y]
                                   THEN UNCHANGED fair ELSE Unmark(g)
    BY <1>3 DEF ServeGrants
  <2>2. CASE UNCHANGED fair
    BY <2>2, SameFair
  <2>3. CASE Unmark(g) /\ ~\E y \in queued : x \in ahead[y]
    <3>1. GroupOf[r] # g
      <4>1. SUFFICES ASSUME GroupOf[r] = g PROVE FALSE
        OBVIOUS
      <4>2. x # r
        BY <2>1 DEF Unlink
      <4>3. x \in ahead[r]
        BY <2>1, <4>1, <4>2, FirstAhead
      <4> QED BY <1>01, <2>3, <4>3 DEF Queue
    <3> HIDE DEF g
    <3> QED BY <1>0, <2>3, <3>1, UnmarkKeeps
  <2> QED BY <2>1, <2>2, <2>3
<1> QED BY <1>1, <1>2, <1>3 DEF drainLimited

\* A group with a sleeper keeps its place.
LEMMA FairKept ==
  ASSUME Base, QueueOrder, HoldSeen, [Next]_vars, NEW r \in Requests, Asleep(r),
         r \in queued', WindowOpen(GroupOf[r])', InFair(GroupOf[r])
  PROVE  InFair(GroupOf[r])'
<1> DEFINE Goal == InFair(GroupOf[r])'
<1>0. ASSUME UNCHANGED fair PROVE Goal
  BY <1>0, SameFair
<1>01. r \in queued
  BY DEF Asleep
<1>1. ASSUME NEW x \in Requests, AcquireFast(x) \/ AcquireQueues(x) PROVE Goal
  BY <1>0, <1>1, Zenon DEF AcquireFast, AcquireQueues, index
<1>10. ASSUME NEW x \in Requests, Door(x) PROVE Goal
  BY <1>0, <1>10, DoorStep DEF index
<1>2. ASSUME NEW x \in Requests, removeWaiter(x) PROVE Goal
  BY <1>01, <1>2, RemoveKeepsFair
<1>3. ASSUME NEW x \in Requests, WaitExpires(x) \/ Abort(x) \/ Pace(x) PROVE Goal
  BY <1>0, <1>2, <1>3, Zenon DEF WaitExpires, Abort, Pace, index
<1>4. ASSUME NEW x \in Requests, RequestStep(x) PROVE Goal
  BY <1>0, <1>2, <1>4, Zenon DEF RequestStep, DrainCheck, SnapshotKicks, HoldRead,
    ReadGrant, Wake, UntilFires, WaitCancelled, ReleaseSettles, release, index
<1>5. ASSUME NEW d \in Drainers, NEW g \in Groups, MarkGroup(d, g) PROVE Goal
  <2>1. UNCHANGED fair \/ Mark(g)
    BY <1>5, Zenon DEF MarkGroup, MarkingGroup
  <2>2. Mark(g) => Goal
    BY MarkKeeps, BaseTypes DEF OrderTypes
  <2> QED BY <1>0, <2>1, <2>2
<1>6. ASSUME NEW d \in Drainers, DrainStep(d) PROVE Goal
  BY <1>0, <1>5, <1>6, ServeKeepsFair, Zenon DEF DrainStep, CheckProvider, fairSnapshot,
    Peek, CheckCapacity, advanceFair, KickPolicy, index
<1>7. ASSUME NEW d \in Drainers, Operate(d) PROVE Goal
  BY <1>0, <1>7, Zenon DEF Operate, SetHold, DrainQueue, UpdateThrottle,
    UpdateThrottleClearing, index
<1>8. CASE TimerStep
  BY <1>0, <1>8, Zenon DEF TimerStep, Tick, GateWakes, PaceEnds, PacerFires, index
<1>9. CASE HoldExpires \/ UNCHANGED vars
  BY <1>0, <1>9, Zenon DEF HoldExpires, vars, index
<1> QED BY <1>1, <1>3, <1>4, <1>6, <1>7, <1>8, <1>9, <1>10, NextCases, Zenon

\* Marking a group somebody waits in publishes it.
LEMMA MarkPublishes ==
  ASSUME Base, NEW d \in Drainers, NEW g \in Groups, MarkGroup(d, g), Queue(g) # {},
         WindowOpen(g)'
  PROVE  InFair(g)'
<1>1. Mark(g) /\ UNCHANGED <<slots, paced, cap>>
  BY DEF MarkGroup, MarkingGroup
<1>2. WindowOpen(g)
  BY <1>1 DEF WindowOpen, slots
<1> QED BY <1>1, <1>2, MarkKeeps, BaseTypes DEF OrderTypes

\* A pacer that is due stays due until its drain starts.
LEMMA DueKept ==
  ASSUME Base, [Next]_vars, NEW g \in Groups, g \in due
  PROVE  g \in due' \/ MarkPending(g)'
<1>0. DrainTypes /\ g # "gate"
  BY BaseTypes, AdmissionAssumption
<1>1. ASSUME NEW d \in Drainers, NEW h \in Groups, PacerFires(d, h)
      PROVE  g \in due' \/ MarkPending(g)'
  <2>1. CASE h = g
    <3>1. job'[d] = "mark" /\ g \in tomark'[d]
      BY <1>0, <1>1, <2>1 DEF PacerFires, StartDrain, DrainTypes
    <3> QED BY <3>1 DEF MarkPending
  <2>2. CASE h # g
    BY <1>1, <2>2 DEF PacerFires
  <2> QED BY <2>1, <2>2
<1>2. CASE TimerStep
  <2>1. \/ due' = due \/ due' = due \cup {"gate"} \/ due' = due \ {"gate"}
        \/ \E h \in Groups : due' = due \cup {h}
        \/ \E d \in Drainers, h \in Groups : PacerFires(d, h)
    BY <1>2, Zenon DEF TimerStep, Tick, GateWakes, PaceEnds
  <2> QED BY <1>0, <1>1, <2>1
<1>3. ASSUME NEW d \in Drainers, Operate(d) PROVE g \in due'
  <2>1. due' = due \/ due' = due \ {"gate"}
    BY <1>3, Zenon DEF Operate, SetHold, DrainQueue, UpdateThrottle,
      UpdateThrottleClearing, windows
  <2> QED BY <1>0, <2>1
<1>4. ASSUME NEW x \in Requests, AcquireFast(x) \/ AcquireQueues(x) PROVE due' = due
  BY <1>4, Zenon DEF AcquireFast, AcquireQueues, windows
<1>9. ASSUME NEW x \in Requests, Door(x) PROVE due' = due
  BY <1>9, DoorStep
<1>5. ASSUME NEW x \in Requests, WaitExpires(x) \/ Abort(x) \/ Pace(x) PROVE due' = due
  BY <1>5, Zenon DEF WaitExpires, Abort, Pace, removeWaiter, windows
<1>6. ASSUME NEW x \in Requests, RequestStep(x) PROVE due' = due
  BY <1>6, Zenon DEF RequestStep, DrainCheck, SnapshotKicks, HoldRead, removeWaiter,
    ReadGrant, Wake, UntilFires, WaitCancelled, ReleaseSettles, release, windows
<1>7. ASSUME NEW d \in Drainers, DrainStep(d) PROVE due' = due
  BY <1>7, Zenon DEF DrainStep, MarkGroup, MarkingGroup, CheckProvider, fairSnapshot,
    Peek, drainLimited, ServeNone, ServeRefused, ServeGrants, CheckCapacity,
    advanceFair, KickPolicy, windows
<1>8. CASE HoldExpires \/ UNCHANGED vars
  BY <1>8, Zenon DEF HoldExpires, vars, windows
<1> QED BY <1>2, <1>3, <1>4, <1>5, <1>6, <1>7, <1>8, <1>9, NextCases, Zenon

\* Whoever is bound to mark a group is still, or has.
LEMMA PendingKept ==
  ASSUME Base, WalksInside, OwnMark, [Next]_vars, NEW g \in Groups, Queue(g) # {},
         WindowOpen(g)', MarkPending(g)
  PROVE  MarkPending(g)' \/ InFair(g)'
<1>0. DrainTypes
  BY BaseTypes
<1>1. CASE g \in due
  BY <1>1, DueKept DEF MarkPending
<1>2. ASSUME NEW d \in Drainers, job[d] = "kick" \/ (job[d] = "mark" /\ g \in tomark[d])
      PROVE  MarkPending(g)' \/ InFair(g)'
  <2>1. ASSUME job'[d] = job[d], tomark'[d] = tomark[d] PROVE MarkPending(g)'
    BY <1>2, <2>1 DEF MarkPending
  <2>2. CASE Rests
    BY <2>1, <2>2 DEF Rests, drains
  <2>3. ASSUME NEW e \in Drainers, Starts(e) PROVE MarkPending(g)'
    <3>1. e # d
      BY <1>2, <2>3 DEF Starts
    <3> QED BY <2>1, <2>3, <3>1 DEF Starts, OthersWalk
  <2>4. ASSUME NEW e \in Drainers, DrainStep(e), e # d PROVE MarkPending(g)'
    BY <2>1, <2>4, DrainOn DEF DrainsOn, OthersWalk
  <2>5. CASE DrainStep(d)
    <3>1. KickPolicy(d) \/ \E h \in Groups : MarkGroup(d, h)
      <4>1. ~(CheckProvider(d) \/ fairSnapshot(d) \/ Peek(d) \/ drainLimited(d)
              \/ CheckCapacity(d) \/ advanceFair(d))
        BY <1>2 DEF CheckProvider, fairSnapshot, Peek, drainLimited, CheckCapacity,
          advanceFair
      <4> QED BY <2>5, <4>1 DEF DrainStep
    <3>2. CASE KickPolicy(d)
      <4>1. job'[d] = "mark" /\ tomark'[d] = Groups
        BY <1>0, <3>2 DEF KickPolicy, DrainAll, Continue, DrainTypes
      <4> QED BY <4>1 DEF MarkPending
    <3>3. ASSUME NEW h \in Groups, MarkGroup(d, h) PROVE MarkPending(g)' \/ InFair(g)'
      <4>1. CASE h = g
        BY <3>3, <4>1, MarkPublishes
      <4>2. CASE h # g
        <5>1. g \in tomark[d] \ {h}
          BY <1>2, <3>3, <4>2 DEF MarkGroup, MarkingGroup
        <5>2. /\ tomark' = [tomark EXCEPT ![d] = tomark[d] \ {h}]
              /\ job' = [job EXCEPT ![d] = "mark"]
          BY <3>3, <5>1 DEF MarkGroup, MarkingGroup, Continue
        <5>3. job'[d] = "mark" /\ g \in tomark'[d]
          BY <1>0, <5>1, <5>2 DEF DrainTypes
        <5> QED BY <5>3 DEF MarkPending
      <4> QED BY <4>1, <4>2
    <3> QED BY <3>1, <3>2, <3>3
  <2> QED BY <2>2, <2>3, <2>4, <2>5, DriveStep DEF DriveSteps
<1> QED BY <1>1, <1>2 DEF MarkPending

\* Marked is kept by every step.
LEMMA MarkedStep ==
  ASSUME Base, QueueOrder, WalksInside, OwnMark, HoldSeen, Marked, [Next]_vars
  PROVE  Marked'
<1> SUFFICES ASSUME NEW r \in Requests, Asleep(r)', WindowOpen(GroupOf[r])'
             PROVE  \/ InFair(GroupOf[r])' \/ MarkPending(GroupOf[r])'
                    \/ RaisedUnseen(GroupOf[r])'
  BY DEF Marked
<1>0. GroupOf[r] \in Groups /\ r \in Drainers
  BY AdmissionAssumption DEF Drainers
<1>1. CASE Asleep(r)
  <2>1. r \in queued' /\ Queue(GroupOf[r]) # {}
    BY <1>1, AsleepReachable DEF Asleep
  <2>2. \/ WindowOpen(GroupOf[r]) \/ MarkPending(GroupOf[r])'
        \/ RaisedUnseen(GroupOf[r])'
    BY <1>0, OpensMarked
  <2>3. WindowOpen(GroupOf[r]) => \/ InFair(GroupOf[r]) \/ MarkPending(GroupOf[r])
                                  \/ RaisedUnseen(GroupOf[r])
    BY <1>1 DEF Marked
  <2>4. InFair(GroupOf[r]) => InFair(GroupOf[r])'
    BY <1>1, <2>1, FairKept
  <2>5. MarkPending(GroupOf[r]) => InFair(GroupOf[r])' \/ MarkPending(GroupOf[r])'
    BY <1>0, <2>1, PendingKept
  <2>6. RaisedUnseen(GroupOf[r]) => \/ InFair(GroupOf[r])' \/ MarkPending(GroupOf[r])'
                                    \/ RaisedUnseen(GroupOf[r])'
    BY <1>0, <2>1, RaisedKept, MarkPublishes
  <2> QED BY <2>2, <2>3, <2>4, <2>5, <2>6
<1>2. ASSUME NEW g \in Groups, MarkGroup(r, g) PROVE InFair(GroupOf[r])'
  <2>1. g = GroupOf[r]
    BY <1>2 DEF MarkGroup, MarkingGroup, OwnMark
  <2>2. r \in Queue(GroupOf[r])
    BY <1>2 DEF Asleep, MarkGroup, MarkingGroup, slots, Queue, Members
  <2> QED BY <1>0, <1>2, <2>1, <2>2, MarkPublishes
<1> QED BY <1>1, <1>2, AsleepStep DEF Settles

(***************************************************************************)
(* A marked group is walked.                                               *)
(***************************************************************************)
\* The drain of d will still look at g.
Own(d, g) ==
  \/ job[d] \in {"kick", "count", "snapshot"}
  \/ job[d] = "mark" /\ (d \in found \/ tomark[d] = Groups)
  \/ Reaches(d, g)

\* The looks that are due, by who takes them.
LEMMA PendingOwn ==
  ASSUME NEW g
  PROVE  WalkPending(g) <=> \/ \E r \in Requests : pc[r] = "settled"
                            \/ "gate" \in due \/ g \in due
                            \/ \E d \in Drainers : Own(d, g)
BY DEF WalkPending, Stirred, Own

\* The same after a step.
LEMMA PendingOwnNext ==
  ASSUME NEW g, \/ \E r \in Requests : pc'[r] = "settled"
                \/ "gate" \in due' \/ g \in due'
                \/ \E d \in Drainers : Own(d, g)'
  PROVE  WalkPending(g)'
BY DEF WalkPending, Stirred, Own

\* A drain that has yet to take its snapshot comes to every group.
LEMMA StirredPending ==
  ASSUME NEW d \in Drainers, NEW g,
         \/ job'[d] \in {"kick", "count", "snapshot"}
         \/ job'[d] = "mark" /\ (d \in found' \/ tomark'[d] = Groups)
  PROVE  WalkPending(g)'
BY DEF WalkPending, Stirred

\* A step that leaves d's share of the work done by somebody.
LEMMA PendingKeeps ==
  ASSUME NEW g, WalkPending(g), NEW d, OthersWalk(d), due \subseteq due',
         \A x \in Requests : pc[x] = "settled" => pc'[x] = "settled",
         Own(d, g) => WalkPending(g)'
  PROVE  WalkPending(g)'
<1>1. ASSUME NEW e \in Drainers, Own(e, g), e # d PROVE Own(e, g)'
  <2>1. /\ job'[e] = job[e] /\ at'[e] = at[e] /\ round'[e] = round[e]
        /\ tomark'[e] = tomark[e]
        /\ e \in productive' <=> e \in productive
        /\ e \in found' <=> e \in found
    BY <1>1 DEF OthersWalk
  <2> QED BY <1>1, <2>1 DEF Own, Reaches
<1>2. CASE \E x \in Requests : pc[x] = "settled"
  BY <1>2, PendingOwnNext
<1>3. CASE "gate" \in due \/ g \in due
  BY <1>3, PendingOwnNext
<1>4. ASSUME NEW e \in Drainers, Own(e, g) PROVE WalkPending(g)'
  BY <1>1, <1>4, PendingOwnNext
<1> QED BY <1>2, <1>3, <1>4, PendingOwn

\* On from a group that is not g, or has been served: g is still to come.
LEMMA TurnReaches ==
  ASSUME Base, WalksInside, NEW d \in Drainers, job[d] \in Walking, NextTurn(d),
         NEW g, Own(d, g), g # Turn(d) \/ job[d] = "capacity"
  PROVE  Own(d, g)'
<1>0. DrainTypes /\ at[d] \in 1 .. Len(round[d]) /\ Len(round[d]) \in Nat
  BY BaseTypes DEF WalksInside, DrainTypes
<1>1. Onward(d) \/ Again(d) \/ Closes(d)
  BY <1>0, TurnWalk
<1>2. PICK i \in 1 .. Len(round[d]) :
        round[d][i] = g /\ (d \in productive \/ i > at[d])
  <2>1. Reaches(d, g)
    BY DEF Own, Walking
  <2>2. PICK i \in 1 .. Len(round[d]) :
          /\ round[d][i] = g
          /\ d \in productive \/ i > at[d] \/ (i = at[d] /\ job[d] # "capacity")
    BY <2>1 DEF Reaches, Walking
  <2> QED BY <2>2 DEF Turn
<1>3. CASE Onward(d)
  <2>1. /\ job'[d] = "peek" /\ at'[d] = at[d] + 1 /\ round'[d] = round[d]
        /\ (d \in productive' <=> d \in productive)
    BY <1>3 DEF Onward
  <2>2. d \in productive' \/ i > at'[d] \/ (i = at'[d] /\ job'[d] # "capacity")
    BY <1>0, <1>2, <2>1
  <2>3. Reaches(d, g)'
    BY <1>2, <2>1, <2>2 DEF Reaches, Walking
  <2> QED BY <2>3 DEF Own
<1>4. CASE Again(d)
  <2>1. job'[d] = "peek" /\ at'[d] = 1 /\ round'[d] = round[d]
    BY <1>4 DEF Again
  <2>2. i > at'[d] \/ (i = at'[d] /\ job'[d] # "capacity")
    BY <1>0, <1>2, <2>1
  <2>3. Reaches(d, g)'
    BY <1>2, <2>1, <2>2 DEF Reaches, Walking
  <2> QED BY <2>3 DEF Own
<1>5. CASE Closes(d)
  BY <1>0, <1>2, <1>5 DEF Closes
<1> QED BY <1>1, <1>3, <1>4, <1>5

\* A waiter that settles down has just sent its drain to look.
LEMMA SettlesStirs ==
  ASSUME Base, OwnMark, NEW r \in Requests, Settles(r), NEW g
  PROVE  WalkPending(g)'
<1>1. PICK h \in Groups : MarkGroup(r, h)
  BY DEF Settles
<1>2. job[r] = "mark" /\ h \in tomark[r] /\ r \in Drainers
  BY <1>1 DEF MarkGroup, MarkingGroup, Drainers
<1>3. r \in found /\ tomark[r] \ {h} = {}
  BY <1>2 DEF OwnMark
<1>4. Continue(r, "count")
  BY <1>1, <1>3 DEF MarkGroup, MarkingGroup
<1>5. job'[r] = "count"
  BY <1>2, <1>4, BaseTypes DEF Continue, DrainTypes
<1> QED BY <1>2, <1>5, StirredPending

\* Everything about a waiter that is asleep, with its group published and the
\* gate below its cap, before and after a step of a drain.
WaitsFor(r) ==
  /\ Asleep(r) /\ r \in queued'
  /\ WindowOpen(GroupOf[r]) /\ WindowOpen(GroupOf[r])'
  /\ InFair(GroupOf[r])' /\ ~ConcurrencyFull' /\ ~RaisedUnseen(GroupOf[r])
Looked(r) == WalkPending(GroupOf[r])' \/ Timed(r)' \/ RaisedUnseen(GroupOf[r])'
WakeBase == Base /\ QueueOrder /\ WalksInside /\ OwnMark /\ HoldSeen /\ Walked

\* A timer that stays.
LEMMA SameTimed ==
  ASSUME UNCHANGED <<wake, tokens, limit, ahead>>, NEW r, Timed(r)
  PROVE  Timed(r)'
BY DEF Timed, TokensNeeded

\* The drain of d keeps the work of the others, and does or keeps its own.
LEMMA DrainKeeps ==
  ASSUME WakeBase, NEW d \in Drainers, DrainStep(d), UNCHANGED due, NEW g,
         WalkPending(g), Own(d, g) => WalkPending(g)'
  PROVE  WalkPending(g)'
<1>1. DrainsOn(d)
  BY DrainOn DEF WakeBase
<1>2. \A x \in Requests : pc[x] = "settled" => pc'[x] = "settled"
  <2>1. pc \in [Requests -> Points] /\ DrainersStand
    BY BaseTypes DEF SlotTypes, WakeBase
  <2> QED BY <1>1, <2>1 DEF DrainsOn, PcAfter, DrainersStand, Draining
<1> QED BY <1>1, <1>2, PendingKeeps DEF DrainsOn

\* A drain that will look at g.
LEMMA OwnPending ==
  ASSUME NEW d \in Drainers, NEW g, Own(d, g)'
  PROVE  WalkPending(g)'
BY PendingOwnNext

\* Where gate and queues stand still, the look that was due is still due.
LEMMA StandLooked ==
  ASSUME WakeBase, NEW d \in Drainers, DrainStep(d), UNCHANGED <<due, gate, slots>>,
         NEW r \in Requests, WaitsFor(r), InFair(GroupOf[r]),
         Own(d, GroupOf[r]) => WalkPending(GroupOf[r])'
  PROVE  Looked(r)
<1>1. ~ConcurrencyFull
  BY DEF WaitsFor, ConcurrencyFull, gate
<1>2. WalkPending(GroupOf[r]) \/ Timed(r)
  BY <1>1 DEF WakeBase, Walked, WaitsFor
<1>3. Timed(r) => Timed(r)'
  BY SameTimed DEF gate, slots
<1> QED BY <1>2, <1>3, DrainKeeps DEF Looked

\* A drain that marks a group somebody waits in walks.
LEMMA MarkStirs ==
  ASSUME Base, NEW d \in Drainers, NEW h \in Groups, MarkGroup(d, h),
         Queue(h) # {}, NEW r \in Requests
  PROVE  Looked(r)
<1> DEFINE left == tomark[d] \ {h}
<1>1. /\ found' = found \cup {d}
      /\ Continue(d, IF left = {} THEN "count" ELSE "mark")
  BY Zenon DEF MarkGroup, MarkingGroup
<1>2. job'[d] = "count" \/ (job'[d] = "mark" /\ d \in found')
  BY <1>1, BaseTypes DEF Continue, DrainTypes
<1>3. WalkPending(GroupOf[r])'
  BY <1>2, StirredPending
<1> QED BY <1>3 DEF Looked

\* A drain marks a group.
LEMMA MarkLooked ==
  ASSUME WakeBase, NEW d \in Drainers, NEW h \in Groups, MarkGroup(d, h),
         NEW r \in Requests, WaitsFor(r)
  PROVE  Looked(r)
<1>0. DrainTypes /\ Base
  BY BaseTypes DEF WakeBase
<1>1. DrainStep(d) /\ job[d] = "mark" /\ h \in tomark[d]
      /\ UNCHANGED <<due, gate, slots>>
  BY DEF MarkGroup, MarkingGroup, DrainStep
<1> DEFINE left == tomark[d] \ {h}
           walks == d \in found \/ Queue(h) # {}
<1>2. CASE walks
  <2>1. /\ tomark' = [tomark EXCEPT ![d] = left] /\ found' = found \cup {d}
        /\ Continue(d, IF left = {} THEN "count" ELSE "mark")
    BY <1>2, Zenon DEF MarkGroup, MarkingGroup
  <2>2. job'[d] = "count" \/ (job'[d] = "mark" /\ d \in found')
    BY <1>0, <2>1 DEF Continue, DrainTypes
  <2>3. WalkPending(GroupOf[r])'
    BY <2>2, StirredPending
  <2> QED BY <2>3 DEF Looked
<1>3. CASE ~walks
  <2>1. UNCHANGED fair /\ d \notin found /\ Queue(h) = {}
    BY <1>3 DEF MarkGroup, MarkingGroup
  <2>2. GroupOf[r] # h /\ GroupOf[r] \in Groups
    BY <1>0, <2>1, AsleepReachable DEF WaitsFor, WakeBase
  <2>3. InFair(GroupOf[r])
    BY <2>1, SameFair DEF WaitsFor
  <2>4. Own(d, GroupOf[r]) => GroupOf[r] \in left
    BY <1>1, <2>1, <2>2 DEF Own, Reaches, Walking
  <2>5. ASSUME GroupOf[r] \in left PROVE WalkPending(GroupOf[r])'
    <3>1. /\ tomark' = [tomark EXCEPT ![d] = left]
          /\ job' = [job EXCEPT ![d] = "mark"]
      BY <2>5 DEF MarkGroup, MarkingGroup, Continue
    <3>2. job'[d] = "mark" /\ GroupOf[r] \in tomark'[d]
      BY <1>0, <2>5, <3>1 DEF DrainTypes
    <3> QED BY <3>2, OwnPending DEF Own, Reaches
  <2> QED BY <1>1, <2>3, <2>4, <2>5, StandLooked
<1> QED BY <1>2, <1>3

\* A drain looks at fairCount and at the cap.
LEMMA CheckLooked ==
  ASSUME WakeBase, NEW d \in Drainers, CheckProvider(d), NEW r \in Requests, WaitsFor(r)
  PROVE  Looked(r)
<1>1. fair # <<>> /\ ~ConcurrencyFull
  BY DEF CheckProvider, WaitsFor, InFair, ConcurrencyFull, index, gate
<1>2. job' = [job EXCEPT ![d] = "snapshot"]
  BY <1>1 DEF CheckProvider, Continue
<1>3. job'[d] = "snapshot"
  BY <1>2, BaseTypes DEF WakeBase, DrainTypes
<1>4. WalkPending(GroupOf[r])'
  BY <1>3, StirredPending
<1> QED BY <1>4 DEF Looked

\* A drain takes its snapshot of the list.
LEMMA SnapshotLooked ==
  ASSUME WakeBase, NEW d \in Drainers, fairSnapshot(d), NEW r \in Requests, WaitsFor(r)
  PROVE  Looked(r)
<1>0. DrainTypes /\ OrderTypes /\ Base
  BY BaseTypes DEF WakeBase
<1>1. fair # <<>> /\ InFair(GroupOf[r]) /\ job[d] = "snapshot"
  BY DEF fairSnapshot, WaitsFor, InFair
<1>2. /\ job' = [job EXCEPT ![d] = "peek"]
      /\ round' = [round EXCEPT ![d] = Rotation] /\ UNCHANGED at
  BY <1>1 DEF fairSnapshot, Continue
<1>3. job'[d] = "peek" /\ round'[d] = Rotation /\ at'[d] = at[d]
  BY <1>0, <1>2 DEF DrainTypes
<1>4. at[d] = 1
  BY <1>1 DEF WakeBase, WalksInside, BeforeWalk
<1>5. PICK i \in 1 .. Len(Rotation) : Rotation[i] = GroupOf[r]
  BY <1>0, <1>1, RotationHolds
<1>6. i > at'[d] \/ i = at'[d]
  BY <1>3, <1>4, <1>5
<1>7. Reaches(d, GroupOf[r])'
  BY <1>3, <1>5, <1>6 DEF Reaches, Walking
<1> QED BY <1>7, OwnPending DEF Own, Looked

\* On to the next group from one that r does not wait in, or that was served.
LEMMA TurnLooked ==
  ASSUME WakeBase, NEW d \in Drainers, DrainStep(d), job[d] \in Walking, NextTurn(d),
         UNCHANGED <<due, gate, slots>>, NEW r \in Requests, WaitsFor(r),
         InFair(GroupOf[r]), GroupOf[r] # Turn(d) \/ job[d] = "capacity"
  PROVE  Looked(r)
<1>1. Own(d, GroupOf[r]) => WalkPending(GroupOf[r])'
  BY TurnReaches, OwnPending DEF WakeBase
<1> QED BY <1>1, StandLooked

\* A drain peeks at a group.
LEMMA PeekLooked ==
  ASSUME WakeBase, NEW d \in Drainers, Peek(d), NEW r \in Requests, WaitsFor(r)
  PROVE  Looked(r)
<1>0. DrainTypes /\ Base /\ HoldSeen
  BY BaseTypes DEF WakeBase
<1>1. DrainStep(d) /\ job[d] = "peek" /\ UNCHANGED <<due, gate, slots, fair>>
  BY DEF Peek, DrainStep, windows, index
<1>2. InFair(GroupOf[r]) /\ r \in Queue(GroupOf[r])
  BY <1>0, <1>1, SameFair, AsleepReachable DEF WaitsFor
<1>3. CASE Continue(d, "serve") /\ UNCHANGED walk
  <2>1. /\ job'[d] = "serve" /\ at' = at /\ round' = round /\ productive' = productive
    BY <1>0, <1>3 DEF Continue, DrainTypes, walk
  <2>2. Own(d, GroupOf[r]) => Own(d, GroupOf[r])'
    BY <1>1, <2>1 DEF Own, Reaches, Walking
  <2> QED BY <1>1, <1>2, <2>2, OwnPending, StandLooked
<1>4. CASE NextTurn(d) /\ ~(InFair(Turn(d)) /\ Queue(Turn(d)) # {})
  <2>1. GroupOf[r] # Turn(d)
    BY <1>2, <1>4
  <2> QED BY <1>1, <1>2, <1>4, <2>1, TurnLooked DEF Walking
<1> QED BY <1>3, <1>4 DEF Peek

\* A drain finds nobody to let in.
LEMMA ServeNoneLooked ==
  ASSUME WakeBase, NEW d \in Drainers, DrainStep(d), job[d] = "serve",
         ServeNone(d, Turn(d)), NEW r \in Requests, WaitsFor(r)
  PROVE  Looked(r)
<1>0. OrderTypes /\ Base /\ HoldSeen /\ QueueOrder
  BY BaseTypes DEF WakeBase
<1>1. NextTurn(d) /\ UNCHANGED <<due, gate, slots>> /\ Unmark(Turn(d))
  BY DEF ServeNone, windows
<1>2. InFair(GroupOf[r])
  BY <1>0, <1>1, UnmarkShrinks DEF WaitsFor
<1>3. Reachable(r) /\ r \in Queue(GroupOf[r])
  BY <1>0, AsleepReachable DEF WaitsFor
<1>4. GroupOf[r] # Turn(d)
  <2>1. First(GroupOf[r]) # {}
    BY <1>0, <1>3, SomeFirst
  <2> QED BY <2>1 DEF ServeNone, WaitsFor
<1> QED BY <1>1, <1>2, <1>4, TurnLooked DEF Walking

\* A drain looks at the cap after a grant.
LEMMA CapacityLooked ==
  ASSUME WakeBase, NEW d \in Drainers, CheckCapacity(d), NEW r \in Requests, WaitsFor(r)
  PROVE  Looked(r)
<1>1. DrainStep(d) /\ job[d] = "capacity" /\ UNCHANGED <<due, gate, slots, fair>>
  BY DEF CheckCapacity, DrainStep, windows, index
<1>2. ~ConcurrencyFull
  BY <1>1 DEF WaitsFor, ConcurrencyFull, gate
<1>3. NextTurn(d)
  BY <1>2 DEF CheckCapacity
<1>4. InFair(GroupOf[r])
  BY <1>1, SameFair DEF WaitsFor
<1> QED BY <1>1, <1>3, <1>4, TurnLooked DEF Walking

\* A drain that granted ends.
LEMMA AdvanceLooked ==
  ASSUME WakeBase, NEW d \in Drainers, advanceFair(d), NEW r \in Requests, WaitsFor(r)
  PROVE  Looked(r)
<1>1. DrainStep(d) /\ job[d] = "advance" /\ UNCHANGED <<due, gate, slots, fair>>
  BY DEF advanceFair, DrainStep, windows
<1>2. InFair(GroupOf[r])
  BY <1>1, SameFair DEF WaitsFor
<1>3. ~Own(d, GroupOf[r])
  BY <1>1 DEF Own, Reaches, Walking
<1> QED BY <1>1, <1>2, <1>3, StandLooked

\* The policy kick.
LEMMA KickLooked ==
  ASSUME WakeBase, NEW d \in Drainers, KickPolicy(d), NEW r \in Requests
  PROVE  Looked(r)
<1>1. job'[d] = "mark" /\ tomark'[d] = Groups
  BY BaseTypes DEF WakeBase, KickPolicy, DrainAll, Continue, DrainTypes
<1>2. WalkPending(GroupOf[r])'
  BY <1>1, StirredPending
<1> QED BY <1>2 DEF Looked

\* The timer armed for x comes no later than its tokens, and no later than it
\* would have come.
LEMMA ArmedFor ==
  ASSUME Base, NEW x \in Requests, Blocked(x), ~ConcurrencyFull, ArmFor(x)
  PROVE  /\ wake' > 0 /\ wake' <= TokensNeeded(x) - tokens
         /\ wake > 0 => wake' <= wake
<1>1. /\ limit \in Limit /\ tokens \in Int /\ wake \in Nat
      /\ Est[x] \in Nat
  BY BaseTypes, AdmissionAssumption DEF GateTypes
<1>2. TokensNeeded(x) \in Nat /\ tokens < TokensNeeded(x)
  BY <1>1 DEF TokensNeeded, Blocked, TokensShort
<1> QED BY <1>1, <1>2 DEF ArmFor

\* The gate refuses: its timer is armed.
LEMMA ServeRefusedLooked ==
  ASSUME WakeBase, NEW d \in Drainers, DrainStep(d), job[d] = "serve",
         ServeRefused(d, Turn(d)), NEW r \in Requests, WaitsFor(r)
  PROVE  Looked(r)
<1> DEFINE h == Turn(d)
<1>0. OrderTypes /\ Base /\ HoldSeen /\ QueueOrder /\ WalksInside /\ GateTypes
  BY BaseTypes DEF WakeBase
<1>1. PICK x \in First(h) : Blocked(x) /\ ArmFor(x)
  BY DEF ServeRefused
<1>2. x \in Requests /\ h \in Groups /\ GroupOf[x] = h
  BY <1>1, AdmissionAssumption DEF First, Queue, Members
<1>3. Mark(h) /\ NextTurn(d) /\ UNCHANGED <<slots, limit, gateInFlight, tokens, due>>
  BY DEF ServeRefused, windows
<1>4. ~ConcurrencyFull
  BY <1>3 DEF WaitsFor, ConcurrencyFull
<1>5. /\ wake' > 0 /\ wake' <= TokensNeeded(x) - tokens
      /\ wake > 0 => wake' <= wake
  BY <1>0, <1>1, <1>2, <1>4, ArmedFor
<1>6. ahead'[r] = ahead[r] /\ \A y : TokensNeeded(y)' = TokensNeeded(y)
  BY <1>3 DEF slots, TokensNeeded
<1>7. CASE GroupOf[r] = h
  <2>1. ahead[r] = {} => x = r
    BY <1>0, <1>1, <1>7, FirstAhead DEF WaitsFor
  <2>2. Timed(r)'
    BY <1>3, <1>5, <1>6, <2>1 DEF Timed
  <2> QED BY <2>2 DEF Looked
<1>8. CASE GroupOf[r] # h
  <2>1. InFair(GroupOf[r])
    BY <1>0, <1>2, <1>3, <1>8, MarkOnly DEF WaitsFor, OrderTypes
  <2>2. WalkPending(GroupOf[r]) \/ Timed(r)
    BY <1>4, <2>1 DEF WakeBase, Walked, WaitsFor
  <2>3. ASSUME WalkPending(GroupOf[r]) PROVE Looked(r)
    <3>1. Own(d, GroupOf[r]) => WalkPending(GroupOf[r])'
      BY <1>0, <1>3, <1>8, TurnReaches, OwnPending DEF Walking
    <3> QED BY <1>3, <2>3, <3>1, DrainKeeps DEF Looked
  <2>4. ASSUME Timed(r) PROVE Looked(r)
    <3>1. wake > 0 /\ (ahead[r] = {} => wake <= TokensNeeded(r) - tokens)
      BY <2>4 DEF Timed
    <3>2. wake \in Nat /\ tokens \in Int /\ TokensNeeded(r) \in Nat /\ wake' \in Int
      <4>1. TokensNeeded(r) \in Nat /\ TokensNeeded(x) \in Nat
        BY <1>0, <1>2, AdmissionAssumption DEF TokensNeeded, GateTypes
      <4> QED BY <1>0, <1>1, <4>1 DEF GateTypes, ArmFor
    <3>3. ahead[r] = {} => wake' <= TokensNeeded(r) - tokens
      BY <1>5, <3>1, <3>2
    <3>4. Timed(r)'
      BY <1>3, <1>5, <1>6, <3>3 DEF Timed
    <3> QED BY <3>4 DEF Looked
  <2> QED BY <2>2, <2>3, <2>4
<1> QED BY <1>7, <1>8

\* A drain grants: it will come round again.
LEMMA ServeGrantsLooked ==
  ASSUME WakeBase, NEW d \in Drainers, DrainStep(d), job[d] = "serve",
         ServeGrants(d, Turn(d)), NEW r \in Requests, WaitsFor(r)
  PROVE  Looked(r)
<1> DEFINE h == Turn(d)
<1>0. /\ OrderTypes /\ Base /\ HoldSeen /\ QueueOrder /\ GateTypes /\ DrainTypes
      /\ SlotTypes /\ at[d] \in 1 .. Len(round[d])
  BY BaseTypes DEF WakeBase, WalksInside, Walking
<1>1. PICK x \in First(h) :
        /\ ~Blocked(x) /\ Charge(x) /\ Unlink(x)
        /\ IF \E y \in queued : x \in ahead[y] THEN UNCHANGED fair ELSE Unmark(h)
  BY DEF ServeGrants
<1>2. x \in Requests /\ x \in queued /\ GroupOf[x] = h
  BY <1>1 DEF First, Queue, Members
<1>3. /\ productive' = productive \cup {d} /\ Continue(d, "capacity")
      /\ UNCHANGED <<round, at, limit, wake, due>>
  BY DEF ServeGrants, windows
<1>4. /\ job'[d] = "capacity" /\ at'[d] = at[d] /\ round'[d] = round[d]
      /\ d \in productive'
  BY <1>0, <1>3 DEF Continue, DrainTypes
<1>5. CASE GroupOf[r] = h
  <2>1. Reaches(d, GroupOf[r])'
    BY <1>0, <1>4, <1>5 DEF Reaches, Walking, Turn
  <2> QED BY <2>1, OwnPending DEF Own, Looked
<1>6. CASE GroupOf[r] # h
  <2>1. InFair(GroupOf[r])
    <3>1. CASE UNCHANGED fair
      BY <3>1, SameFair DEF WaitsFor
    <3>2. CASE Unmark(h)
      BY <1>0, <3>2, UnmarkShrinks DEF WaitsFor
    <3> QED BY <1>1, <3>1, <3>2
  <2>2. ~ConcurrencyFull
    BY <1>1 DEF Blocked
  <2>3. WalkPending(GroupOf[r]) \/ Timed(r)
    BY <2>1, <2>2 DEF WakeBase, Walked, WaitsFor
  <2>4. ASSUME WalkPending(GroupOf[r]) PROVE Looked(r)
    <3>1. Own(d, GroupOf[r]) => Own(d, GroupOf[r])'
      BY <1>4 DEF Own, Reaches, Walking
    <3> QED BY <1>3, <2>4, <3>1, OwnPending, DrainKeeps DEF Looked
  <2>5. ASSUME Timed(r) PROVE Looked(r)
    <3>1. wake > 0 /\ (ahead[r] = {} => wake <= TokensNeeded(r) - tokens)
      BY <2>5 DEF Timed
    <3>2. x \notin ahead[r] /\ x # r
      BY <1>2, <1>6 DEF WaitsFor, Asleep, WakeBase, QueueOrder, Queue, Members
    <3>3. ahead'[r] = ahead[r]
      BY <1>0, <1>1, <3>2 DEF Unlink
    <3>4. TokensNeeded(r)' = TokensNeeded(r) /\ TokensNeeded(r) \in Nat
      BY <1>0, <1>3, AdmissionAssumption DEF TokensNeeded, GateTypes
    <3>5. tokens' \in Int /\ tokens' <= tokens
      BY <1>0, <1>1, <1>2, AdmissionAssumption DEF Charge, GateTypes
    <3>6. wake' = wake /\ wake \in Nat /\ tokens \in Int
      BY <1>0, <1>3 DEF GateTypes
    <3>7. ahead[r] = {} => wake <= TokensNeeded(r) - tokens'
      BY <3>1, <3>4, <3>5, <3>6
    <3>8. Timed(r)'
      BY <3>1, <3>3, <3>4, <3>6, <3>7 DEF Timed
    <3> QED BY <3>8 DEF Looked
  <2> QED BY <2>3, <2>4, <2>5
<1> QED BY <1>5, <1>6

\* Every step of a drain.
LEMMA DrainLooked ==
  ASSUME WakeBase, NEW d \in Drainers, DrainStep(d), NEW r \in Requests, WaitsFor(r)
  PROVE  Looked(r)
<1>1. CASE drainLimited(d)
  BY <1>1, ServeNoneLooked, ServeRefusedLooked, ServeGrantsLooked DEF drainLimited
<1> QED BY <1>1, MarkLooked, CheckLooked, SnapshotLooked, PeekLooked, CapacityLooked,
          AdvanceLooked, KickLooked, Zenon DEF DrainStep

\* Steps that leave the drains, the list and the gate alone.
Restful(r) ==
  /\ UNCHANGED <<drains, fair, limit, gateInFlight, tokens, wake>> /\ due \subseteq due'
  /\ \A x \in Requests : pc[x] = "settled" => pc'[x] = "settled"
  /\ ahead'[r] = {} => ahead[r] = {}

\* Such a step leaves the look due.
LEMMA RestfulLooked ==
  ASSUME WakeBase, NEW r \in Requests, Restful(r), WaitsFor(r)
  PROVE  Looked(r)
<1>1. ~ConcurrencyFull /\ InFair(GroupOf[r])
  BY SameFair DEF Restful, WaitsFor, ConcurrencyFull
<1>2. WalkPending(GroupOf[r]) \/ Timed(r)
  BY <1>1 DEF WakeBase, Walked, WaitsFor
<1>3. ASSUME WalkPending(GroupOf[r]) PROVE WalkPending(GroupOf[r])'
  <2>1. \A e : Own(e, GroupOf[r]) => Own(e, GroupOf[r])'
    BY DEF Restful, drains, walk, Own, Reaches
  <2>2. OthersWalk(r)
    BY DEF Restful, drains, walk, OthersWalk
  <2>3. r \in Drainers
    BY DEF Drainers
  <2> QED BY <1>3, <2>1, <2>2, <2>3, PendingKeeps, OwnPending DEF Restful
<1>4. Timed(r) => Timed(r)'
  BY DEF Restful, Timed, TokensNeeded
<1> QED BY <1>2, <1>3, <1>4 DEF Looked

\* A request moves on by itself.
LEMMA MoveLooked ==
  ASSUME WakeBase, NEW x \in Requests, NEW point, pc[x] # "settled",
         Goto(x, point) \/ UNCHANGED pc,
         UNCHANGED <<drains, fair, limit, gateInFlight, tokens, wake, due, ahead>>,
         NEW r \in Requests, WaitsFor(r)
  PROVE  Looked(r)
<1>1. \A y \in Requests : pc[y] = "settled" => pc'[y] = "settled"
  BY BaseTypes DEF Goto, SlotTypes, WakeBase
<1>2. Restful(r)
  BY <1>1 DEF Restful
<1> QED BY <1>2, RestfulLooked

\* A drain that starts will look.
LEMMA StartsLooked ==
  ASSUME NEW d \in Drainers, Starts(d), NEW r \in Requests
  PROVE  Looked(r)
BY StirredPending DEF Starts, Looked

\* A request's drain that starts will look.
LEMMA StartLooked ==
  ASSUME WakeBase, NEW x \in Requests, NEW g, StartDrain(x, g), NEW r \in Requests
  PROVE  Looked(r)
<1>1. x \in Drainers /\ job'[x] = "mark" /\ x \in found'
  BY BaseTypes DEF StartDrain, DrainTypes, Drainers, WakeBase
<1> QED BY <1>1, StirredPending DEF Looked

\* removeWaiter drains for a new head; another removal leaves the head.
LEMMA RemoveLooked ==
  ASSUME WakeBase, NEW x \in Requests, removeWaiter(x), NEW r \in Requests, WaitsFor(r)
  PROVE  Looked(r)
<1>1. CASE StartDrain(x, GroupOf[x])
  BY <1>1, StartLooked
<1>2. CASE RemoveQueued(x) /\ ahead[x] # {}
  <2>1. /\ x \notin ahead[x] /\ ahead[x] \subseteq Queue(GroupOf[x]) /\ x \in queued
    BY <1>2 DEF RemoveQueued, WakeBase, QueueOrder
  <2>2. Queue(GroupOf[x]) # {x}
    BY <1>2, <2>1
  <2>3. /\ UNCHANGED <<drains, fair, gate, due>> /\ Goto(x, Away(x)) /\ Unlink(x)
    BY <1>2, <2>2 DEF RemoveQueued, removeWaiter, windows
  <2>4. pc[x] # "settled" /\ pc \in [Requests -> Points]
    BY <2>1, BaseTypes DEF GrantOrQueued, Waiting, Parks, SlotTypes, WakeBase
  <2>5. \A y \in Requests : pc[y] = "settled" => pc'[y] = "settled"
    BY <2>3, <2>4 DEF Goto
  <2>6. r # x /\ r \in queued /\ ahead'[r] = ahead[r] \ {x}
    BY <2>3 DEF Unlink, WaitsFor, Asleep
  <2>7. x \in ahead[r] => ahead[x] \subseteq ahead[r]
    BY <2>6 DEF WakeBase, QueueOrder
  <2>8. ahead'[r] = {} => ahead[r] = {}
    BY <1>2, <2>1, <2>6, <2>7
  <2>9. Restful(r)
    BY <2>3, <2>5, <2>8 DEF Restful, gate
  <2> QED BY <2>9, RestfulLooked
<1>3. CASE RemoveQueued(x) /\ ahead[x] = {}
  BY <1>1, <1>3 DEF RemoveQueued
<1>4. CASE RemoveGranted(x)
  BY <1>1, <1>4 DEF RemoveGranted
<1> QED BY <1>2, <1>3, <1>4 DEF removeWaiter

\* The steps of a request.
LEMMA RequestLooked ==
  ASSUME WakeBase, NEW x \in Requests, RequestStep(x), NEW r \in Requests, WaitsFor(r)
  PROVE  Looked(r)
<1>1. CASE DrainCheck(x)
  <2>1. CASE removeWaiter(x)
    BY <2>1, RemoveLooked
  <2>2. CASE Goto(x, "snapshot") /\ UNCHANGED <<slots, gate, index, windows, drains>>
    BY <1>1, <2>2, MoveLooked DEF DrainCheck, slots, gate, index, windows
  <2> QED BY <1>1, <2>1, <2>2, Zenon DEF DrainCheck
<1>2. CASE SnapshotKicks(x)
  BY <1>2, MoveLooked DEF SnapshotKicks, slots, gate, index, windows
<1>3. CASE HoldRead(x)
  <2>1. CASE Held(x)
    BY <1>3, <2>1, MoveLooked DEF HoldRead, slots, gate, index, windows
  <2>2. CASE ~Held(x)
    BY <1>3, <2>2, StartLooked DEF HoldRead
  <2> QED BY <2>1, <2>2
<1>4. CASE ReadGrant(x)
  BY <1>4, MoveLooked DEF ReadGrant, Parks, gate, index, windows
<1>5. CASE Wake(x)
  BY <1>5, MoveLooked DEF Wake, Parks, slots, gate, index, windows
<1>6. CASE UntilFires(x)
  BY <1>6, StartLooked DEF UntilFires
<1>7. CASE WaitCancelled(x)
  BY <1>7, RemoveLooked DEF WaitCancelled
<1>8. ASSUME NEW actual, ReleaseSettles(x, actual) PROVE Looked(r)
  <2>1. pc'[x] = "settled"
    BY <1>8, BaseTypes DEF ReleaseSettles, Goto, SlotTypes, WakeBase
  <2> QED BY <2>1, PendingOwnNext DEF Looked
<1>9. CASE release(x)
  BY <1>9, StartLooked DEF release
<1> QED BY <1>1, <1>2, <1>3, <1>4, <1>5, <1>6, <1>7, <1>8, <1>9, Zenon DEF RequestStep

\* The clock brings the tokens and the timer nearer together.
LEMMA TickLooked ==
  ASSUME WakeBase, Tick, NEW r \in Requests, WaitsFor(r)
  PROVE  Looked(r)
<1>0. GateTypes /\ limit.tokens \in Nat /\ Est[r] \in Nat
  BY BaseTypes, AdmissionAssumption DEF GateTypes, WakeBase, Limit
<1>1. /\ limit.tokens > 0 /\ UNCHANGED <<slots, limit, gateInFlight, index, pc, drains>>
      /\ tokens' = IF tokens < limit.tokens THEN tokens + 1 ELSE tokens
      /\ wake' = IF wake > 0 THEN wake - 1 ELSE 0
      /\ due' = IF wake = 1 THEN due \cup {"gate"} ELSE due
  BY DEF Tick
<1>2. ~ConcurrencyFull /\ InFair(GroupOf[r])
  BY <1>1, SameFair DEF WaitsFor, ConcurrencyFull, index
<1>3. WalkPending(GroupOf[r]) \/ Timed(r)
  BY <1>2 DEF WakeBase, Walked, WaitsFor
<1>4. ASSUME WalkPending(GroupOf[r]) PROVE WalkPending(GroupOf[r])'
  <2>1. \A e : Own(e, GroupOf[r]) => Own(e, GroupOf[r])'
    BY <1>1 DEF drains, walk, Own, Reaches
  <2>2. OthersWalk(r)
    BY <1>1 DEF drains, walk, OthersWalk
  <2>3. r \in Drainers /\ due \subseteq due'
    BY <1>1 DEF Drainers
  <2> QED BY <1>1, <1>4, <2>1, <2>2, <2>3, PendingKeeps, OwnPending
<1>5. ASSUME Timed(r) PROVE Looked(r)
  <2>1. wake > 0 /\ (ahead[r] = {} => wake <= TokensNeeded(r) - tokens)
    BY <1>5 DEF Timed
  <2>2. /\ TokensNeeded(r) \in Nat /\ TokensNeeded(r) <= limit.tokens
        /\ TokensNeeded(r)' = TokensNeeded(r)
    BY <1>0, <1>1 DEF TokensNeeded
  <2>3. CASE wake = 1
    BY <1>1, <2>3, PendingOwnNext DEF Looked
  <2>4. CASE wake # 1
    <3>1. wake' > 0 /\ (ahead[r] = {} => wake' <= TokensNeeded(r) - tokens')
      BY <1>0, <1>1, <2>1, <2>2, <2>4 DEF GateTypes
    <3>2. ahead'[r] = ahead[r]
      BY <1>1 DEF slots
    <3>3. Timed(r)'
      BY <2>2, <3>1, <3>2 DEF Timed
    <3> QED BY <3>3 DEF Looked
  <2> QED BY <2>3, <2>4
<1> QED BY <1>3, <1>4, <1>5 DEF Looked

\* The timers.
LEMMA TimerLooked ==
  ASSUME WakeBase, TimerStep, NEW r \in Requests, WaitsFor(r)
  PROVE  Looked(r)
<1>0. DrainTypes
  BY BaseTypes DEF WakeBase
<1>1. ASSUME NEW d \in Drainers, GateWakes(d) PROVE Looked(r)
  <2>1. job'[d] = "count"
    BY <1>0, <1>1 DEF GateWakes, Continue, DrainTypes
  <2> QED BY <2>1, StirredPending DEF Looked
<1>2. ASSUME NEW g \in Groups, PaceEnds(g) PROVE Looked(r)
  <2>1. Restful(r)
    BY <1>2 DEF PaceEnds, Restful, slots, gate, index
  <2> QED BY <2>1, RestfulLooked
<1>3. ASSUME NEW d \in Drainers, NEW g \in Groups, PacerFires(d, g) PROVE Looked(r)
  <2>1. job'[d] = "mark" /\ d \in found'
    BY <1>0, <1>3 DEF PacerFires, StartDrain, DrainTypes
  <2> QED BY <2>1, StirredPending DEF Looked
<1> QED BY <1>1, <1>2, <1>3, TickLooked, Zenon DEF TimerStep

\* Every step.
LEMMA WaiterLooked ==
  ASSUME WakeBase, [Next]_vars, NEW r \in Requests, WaitsFor(r)
  PROVE  Looked(r)
<1>0. Base
  BY DEF WakeBase
<1>1. ASSUME NEW x \in Requests, AcquireFast(x) PROVE Looked(r)
  BY <1>1 DEF AcquireFast, FastPath, index, WaitsFor, InFair
<1>2. ASSUME NEW x \in Requests, AcquireQueues(x) PROVE Looked(r)
  BY <1>2, StartLooked DEF AcquireQueues
<1>8. ASSUME NEW x \in Requests, Door(x) PROVE Looked(r)
  <2>1. PICK p \in {"idle", "arriving", "gone"} : Goto(x, p)
    BY <1>8, DoorStep
  <2>2. pc[x] # "settled"
    BY <1>8, DoorStep DEF AtDoor
  <2>3. UNCHANGED <<drains, fair, limit, gateInFlight, tokens, wake, due, ahead>>
    BY <1>8, DoorStep DEF index, gate, slots
  <2> QED BY <2>1, <2>2, <2>3, MoveLooked
<1>3. ASSUME NEW x \in Requests, WaitExpires(x) PROVE Looked(r)
  BY <1>3, RemoveLooked DEF WaitExpires
<1>4. ASSUME NEW x \in Requests, Abort(x) \/ Pace(x) PROVE Looked(r)
  <2>1. Restful(r)
    BY <1>4 DEF Abort, Pace, Restful, slots, gate, index, windows
  <2> QED BY <2>1, RestfulLooked
<1>5. ASSUME NEW d \in Drainers, Operate(d) PROVE Looked(r)
  BY <1>0, <1>5, OperateDrives, StartsLooked
<1>6. CASE HoldExpires
  <2>1. Restful(r)
    BY <1>6 DEF HoldExpires, Restful, slots, gate, index, windows
  <2> QED BY <2>1, RestfulLooked
<1>7. CASE UNCHANGED vars
  <2>1. UNCHANGED <<slots, gate, index, windows, pc, drains>>
    BY <1>7 DEF vars
  <2>2. Restful(r)
    BY <2>1 DEF Restful, slots, gate, index, windows
  <2> QED BY <2>2, RestfulLooked
<1> QED BY <1>1, <1>2, <1>3, <1>4, <1>5, <1>6, <1>7, <1>8, NextCases, RequestLooked,
          DrainLooked, TimerLooked, Zenon

\* Walked is kept by every step.
LEMMA WalkedStep ==
  ASSUME WakeBase, [Next]_vars
  PROVE  Walked'
<1> SUFFICES ASSUME NEW r \in Requests, Asleep(r)', WindowOpen(GroupOf[r])',
                    InFair(GroupOf[r])', ~ConcurrencyFull'
             PROVE  Looked(r)
  BY DEF Walked, Looked
<1>0. Base /\ WalksInside /\ OwnMark /\ GroupOf[r] \in Groups /\ r \in queued'
  BY AdmissionAssumption DEF WakeBase, Asleep
<1>1. CASE Settles(r)
  BY <1>0, <1>1, SettlesStirs DEF Looked
<1>2. CASE Asleep(r)
  <2>1. MarkPending(GroupOf[r])' => WalkPending(GroupOf[r])'
    BY DEF MarkPending, WalkPending, Stirred, Reaches
  <2>2. \/ WindowOpen(GroupOf[r]) \/ MarkPending(GroupOf[r])'
        \/ RaisedUnseen(GroupOf[r])'
    BY <1>0, OpensMarked
  <2>3. WindowOpen(GroupOf[r]) /\ ~RaisedUnseen(GroupOf[r]) => WaitsFor(r)
    BY <1>0, <1>2 DEF WaitsFor
  <2>4. ASSUME RaisedUnseen(GroupOf[r]) PROVE Looked(r)
    <3>1. ASSUME NEW d \in Drainers, MarkGroup(d, GroupOf[r]) PROVE Looked(r)
      <4>1. Queue(GroupOf[r]) # {}
        BY <1>0, <1>2, AsleepReachable DEF WakeBase
      <4> QED BY <1>0, <3>1, <4>1, MarkStirs
    <3> QED BY <1>0, <2>1, <2>4, <3>1, RaisedKept DEF Looked
  <2> QED BY <2>1, <2>2, <2>3, <2>4, WaiterLooked DEF Looked
<1> QED BY <1>0, <1>1, <1>2, AsleepStep

(***************************************************************************)
(* The theorem.                                                            *)
(***************************************************************************)
\* Whoever is first in line and not about to look by itself is asleep.
LEMMA FirstAsleep ==
  ASSUME Base, HoldSeen, ~DrainPending, NEW g, NEW r \in First(g)
  PROVE  r \in Requests /\ GroupOf[r] = g /\ Asleep(r)
<1>1. r \in Requests /\ GroupOf[r] = g /\ Reachable(r) /\ r \in queued
  BY DEF First, Queue, Members
<1>2. pc[r] \in Waiting /\ hold \in {"none", "manual", "timed"}
  BY <1>1, BaseTypes DEF GrantOrQueued, PolicyTypes
<1>3. ~Awake(r)
  BY <1>1 DEF DrainPending
<1>4. pc[r] \in Parks /\ r \in current /\ r \notin cancelled
  BY <1>2, <1>3 DEF Awake
<1>5. pc[r] = "parked"
  <2>1. SUFFICES ASSUME pc[r] = "heldPark" PROVE FALSE
    BY <1>4 DEF Parks
  <2>2. r \in HoldScope /\ (r \in timed \/ hold = "manual")
    BY <1>4, <2>1 DEF HoldSeen
  <2> QED BY <1>1, <1>3, <2>1, <2>2 DEF Reachable, Held, Awake
<1>6. r \in sendCurrent
  BY <1>3, <1>5 DEF Awake
<1> QED BY <1>1, <1>4, <1>5, <1>6 DEF Asleep

\* What is asleep with nothing left to run has a timer that comes in time.
LEMMA WokenFromInv ==
  ASSUME Base, WakeInv
  PROVE  WaitersWoken
<1>0. HoldSeen /\ TimerHasBucket /\ Marked /\ Walked /\ GateTypes
  BY BaseTypes DEF WakeInv
<1>1. ASSUME ~DrainPending, NEW g \in Groups, WindowOpen(g), NEW r \in First(g),
             ~ConcurrencyFull, ~RaisedUnseen(g)
      PROVE  r \in Requests /\ Timed(r)
  <2>1. r \in Requests /\ GroupOf[r] = g /\ Asleep(r)
    BY <1>0, <1>1, FirstAsleep
  <2>2. due = {} /\ (\A d \in Drainers : job[d] = "none")
        /\ \A x \in Requests : pc[x] # "settled"
    BY <1>1 DEF DrainPending
  <2>3. ~MarkPending(g)
    BY <2>2 DEF MarkPending
  <2>4. InFair(g)
    BY <1>0, <1>1, <2>1, <2>3 DEF Marked
  <2>5. ~WalkPending(g)
    BY <2>2 DEF WalkPending, Stirred, Reaches, Walking
  <2> QED BY <1>0, <1>1, <2>1, <2>4, <2>5 DEF Walked
<1>2. ASSUME ~DrainPending, NEW g \in Groups, WindowOpen(g), NEW r \in First(g),
             ~RaisedUnseen(g)
      PROVE  Blocked(r) \/ (wake > 0 /\ ahead[r] # {})
  <2>1. SUFFICES ASSUME ~Blocked(r) PROVE wake > 0 /\ ahead[r] # {}
    OBVIOUS
  <2>2. ~ConcurrencyFull /\ ~TokensShort(r)
    BY <2>1 DEF Blocked
  <2>3. r \in Requests /\ Timed(r)
    BY <1>1, <1>2, <2>2
  <2>4. limit.tokens > 0 /\ tokens >= TokensNeeded(r)
    <3>1. TokensNeeded(r) \in Nat /\ tokens \in Int
      BY <1>0, <2>3, AdmissionAssumption DEF TokensNeeded, GateTypes
    <3>2. limit.tokens > 0
      BY <1>0, <2>3 DEF Timed, TimerHasBucket
    <3> QED BY <2>2, <3>1, <3>2 DEF TokensShort
  <2>5. TokensNeeded(r) \in Nat /\ tokens \in Int /\ wake \in Nat
    BY <1>0, <2>3, AdmissionAssumption DEF TokensNeeded, GateTypes
  <2> QED BY <2>3, <2>4, <2>5 DEF Timed
<1>3. NoLostWakeup
  BY <1>2 DEF NoLostWakeup
<1>4. BucketWaitHasTimer
  BY <1>1 DEF BucketWaitHasTimer, Timed
<1> QED BY <1>3, <1>4 DEF WaitersWoken

\* The invariant of the sleepers holds of every behaviour.
LEMMA WakeInvariant == Spec => []WakeInv
<1>1. Init => WakeInv
  <2> SUFFICES ASSUME Init PROVE WakeInv
    OBVIOUS
  <2>1. QueueOrder
    BY DEF Init, QueueOrder
  <2>2. WalksInside /\ OwnMark
    BY DEF Init, WalksInside, OwnMark, Walking, Drainers
  <2>3. HoldSeen /\ TimerHasBucket
    BY DEF Init, HoldSeen, TimerHasBucket
  <2>4. Marked /\ Walked
    BY DEF Init, Marked, Walked, Asleep
  <2> QED BY <2>1, <2>2, <2>3, <2>4 DEF WakeInv
<1>2. Base /\ WakeInv /\ [Next]_vars => WakeInv'
  <2> SUFFICES ASSUME Base, WakeInv, [Next]_vars PROVE WakeInv'
    OBVIOUS
  <2>1. /\ QueueOrder /\ WalksInside /\ OwnMark /\ HoldSeen /\ TimerHasBucket
        /\ Marked /\ Walked
    BY DEF WakeInv
  <2>2. QueueOrder'
    BY <2>1, QueueOrderStep
  <2>3. WalksInside' /\ OwnMark'
    BY <2>1, WalksInsideStep
  <2>4. HoldSeen' /\ TimerHasBucket'
    BY <2>1, HoldSeenStep, TimerHasBucketStep
  <2>5. Marked'
    BY <2>1, MarkedStep
  <2>6. Walked'
    BY <2>1, WalkedStep DEF WakeBase
  <2> QED BY <2>2, <2>3, <2>4, <2>5, <2>6 DEF WakeInv
<1>3. SlotsInductive => Base
  BY DEF SlotsInductive, SlotInv, Base
<1> QED BY <1>1, <1>2, <1>3, SlotInvariant, PTL DEF Spec

\* Nobody is left parked in acquire whom its group's window, the hold policy
\* and the gate would let in, unless a drain runs or is due, or it stands
\* behind a held waiter and the gate's timer is armed, or the group's cap was
\* raised without a drain and a slot of it is out, whose release drains; and
\* whoever only the bucket keeps out has that timer (groupForLocked,
\* drainAdmission, drainProvider, drainLimited, removeWaiter, wake.arm).
THEOREM WaitersAreWoken == Spec => []WaitersWoken
<1>1. SlotsInductive /\ WakeInv => WaitersWoken
  BY WokenFromInv DEF SlotsInductive, SlotInv, Base
<1> QED BY <1>1, SlotInvariant, WakeInvariant, PTL

=============================================================================
