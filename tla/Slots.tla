------------------------------- MODULE Slots -------------------------------
(***************************************************************************)
(* What admission promises, with no queue, channel, counter or drain: a    *)
(* request holds a slot of its group or not; a group never grants beyond   *)
(* the cap it has at the time, nor the provider beyond the concurrency of  *)
(* the policy in force, counting the requests that policy's gate admitted. *)
(***************************************************************************)
EXTENDS Naturals, FiniteSets

CONSTANTS Requests, Groups, GroupOf

VARIABLES
  holders,  \* the requests that hold a slot
  leased,   \* the requests the installed gate counts
  groupCap, \* each group's cap, 0 = unlimited
  gateCap   \* the installed gate's concurrency, 0 = unlimited

svars == <<holders, leased, groupCap, gateCap>>

Init == holders = {} /\ leased = {} /\ groupCap \in [Groups -> Nat] /\ gateCap \in Nat

RoomInGroup(r) ==
  LET g == GroupOf[r]
  IN  \/ groupCap[g] = 0
      \/ Cardinality({x \in holders : GroupOf[x] = g}) < groupCap[g]

RoomAtGate == gateCap = 0 \/ Cardinality(leased) < gateCap

\* A slot is granted; a provider without a gate leases nothing.
Grant(r) ==
  /\ r \notin holders
  /\ RoomInGroup(r) /\ RoomAtGate
  /\ holders' = holders \cup {r}
  /\ leased' \in {leased, leased \cup {r}}
  /\ UNCHANGED <<groupCap, gateCap>>

\* The lease ends before the slot does.
Settle(r) ==
  /\ r \in leased
  /\ leased' = leased \ {r}
  /\ UNCHANGED <<holders, groupCap, gateCap>>

Free(r) ==
  /\ r \in holders
  /\ holders' = holders \ {r}
  /\ leased' = leased \ {r}
  /\ UNCHANGED <<groupCap, gateCap>>

\* A policy edit keeps the leases; clearing the policy forgets them.
SetCap ==
  /\ gateCap' \in Nat
  /\ leased' \in {leased, {}}
  /\ UNCHANGED <<holders, groupCap>>

\* A request brings another cap for its group.
SetGroupCap(g) ==
  /\ groupCap' \in [Groups -> Nat]
  /\ \A h \in Groups \ {g} : groupCap'[h] = groupCap[h]
  /\ UNCHANGED <<holders, leased, gateCap>>

Next ==
  \/ \E r \in Requests : Grant(r) \/ Settle(r) \/ Free(r)
  \/ SetCap
  \/ \E g \in Groups : SetGroupCap(g)

Spec == Init /\ [][Next]_svars
=============================================================================
