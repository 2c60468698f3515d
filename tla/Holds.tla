------------------------------- MODULE Holds -------------------------------
(***************************************************************************)
(* Which operator hold a queued request is attributed to, and what its     *)
(* dashboard row is told (internal/scheduler/hold.go, and the wait loop of *)
(* scheduler_admission.go).  Policy edits come one at a time, under the    *)
(* proxy's pause lock; the seed pass of an edit, the wait loops, grants    *)
(* and cancellations interleave.                                           *)
(*                                                                         *)
(* A hold is abstracted to the waiters it matches.  Each waiter queues in  *)
(* a group of its own, so a scan visits them one at a time.                *)
(***************************************************************************)
EXTENDS Naturals, Sequences, FiniteSets

CONSTANTS Waiters, HoldIDs, Cap, MaxEdits

None == "none"
Holds == [id : HoldIDs, covers : (SUBSET Waiters) \ {{}}]

VARIABLES
    policy,             \* policySnap.holds, in order
    expired,            \* ids whose Until has passed
    used,               \* ids that were ever drawn; newPauseID draws a fresh one
    holdCount,          \* per id; pruned ids are 0
    op,                 \* the policy edit under way
    wpc, seen,          \* per waiter: where it is, the hold it matched last
    queued,             \* waiters in a queue
    granted,            \* waiters that were sent a slot
    holdID, holding,    \* waiter fields
    shown,              \* the last of OnHold and OnUnhold that was invoked
    edits

accounts == <<holdCount, holdID, holding, shown>>
vars == <<policy, expired, used, op, wpc, seen, queued, granted, accounts, edits>>

Idle == [at |-> "idle", scan |-> {}, fire |-> {}]

Init ==
    /\ policy = <<>> /\ expired = {} /\ used = {} /\ op = Idle /\ edits = 0
    /\ holdCount = [i \in HoldIDs |-> 0]
    /\ wpc = [w \in Waiters |-> "new"] /\ seen = [w \in Waiters |-> None]
    /\ queued = {} /\ granted = {}
    /\ holdID = [w \in Waiters |-> None]
    /\ holding = [w \in Waiters |-> FALSE] /\ shown = [w \in Waiters |-> FALSE]

---------------------------------------------------------------------------
(* Matching and attribution.                                               *)

active(h) == h.id \notin expired
matches(h, w) == active(h) /\ w \in h.covers

First(places) == CHOOSE i \in places : \A j \in places : i <= j

\* The first hold that matches.
matchingHold(w) ==
    LET found == {i \in DOMAIN policy : matches(policy[i], w)}
    IN  IF found = {} THEN None ELSE policy[First(found)].id

Dec(count, id) == IF id # None /\ count[id] > 0 THEN [count EXCEPT ![id] = @ - 1] ELSE count
Inc(count, id) == [count EXCEPT ![id] = @ + 1]

moveHoldCountLocked(w, id) ==
    IF holdID[w] = id THEN UNCHANGED <<holdCount, holdID>>
    ELSE /\ holdCount' = Inc(Dec(holdCount, holdID[w]), id)
         /\ holdID' = [holdID EXCEPT ![w] = id]

clearHoldCountLocked(w) ==
    /\ holdCount' = Dec(holdCount, holdID[w])
    /\ holdID' = [holdID EXCEPT ![w] = None]

fireHoldLocked(w) ==
    /\ holding' = [holding EXCEPT ![w] = TRUE]
    /\ shown' = IF holding[w] THEN shown ELSE [shown EXCEPT ![w] = TRUE]

fireUnholdLocked(w) ==
    /\ holding' = [holding EXCEPT ![w] = FALSE]
    /\ shown' = IF holding[w] THEN [shown EXCEPT ![w] = FALSE] ELSE shown

dropHold(w) == clearHoldCountLocked(w) /\ fireUnholdLocked(w)

\* The count, the id, the flag and the hook are one section.
adoptHold(w, id) == moveHoldCountLocked(w, id) /\ fireHoldLocked(w)

---------------------------------------------------------------------------
(* Policy edits.                                                           *)

Overlaps(h, holds) == \E i \in DOMAIN holds : active(holds[i]) /\ holds[i].covers \cap h.covers # {}

\* The holds at these places of the policy, in its order.
KeptUpTo(places) ==
    LET kept[n \in 0 .. Len(policy)] ==
          IF n = 0 THEN <<>>
          ELSE IF n \in places THEN Append(kept[n - 1], policy[n]) ELSE kept[n - 1]
    IN  kept
Kept(places) == KeptUpTo(places)[Len(policy)]

list == Kept({i \in DOMAIN policy : active(policy[i])})
holdsWithoutID(id) == Kept({i \in DOMAIN policy : policy[i].id # id /\ active(policy[i])})

\* commitPolicyLocked publishes and kicks; the epilogue follows.
commitHolds(next, seeds) ==
    /\ edits < MaxEdits /\ edits' = edits + 1
    /\ policy' = next
    /\ op' = [at |-> IF seeds THEN "prune_seed" ELSE "prune", scan |-> {}, fire |-> {}]
    /\ UNCHANGED <<expired, wpc, seen, queued, granted, accounts>>

AddHold(h) ==
    /\ op = Idle /\ h.id \notin used
    /\ ~Overlaps(h, policy)
    /\ used' = used \union {h.id}
    /\ commitHolds(Append(list, h), TRUE)

ReplaceHold(h) ==
    /\ op = Idle /\ h.id \notin expired
    /\ \E i \in DOMAIN policy : policy[i].id = h.id /\ policy[i] # h
    /\ ~Overlaps(h, holdsWithoutID(h.id))
    /\ commitHolds(Append(holdsWithoutID(h.id), h), TRUE) /\ UNCHANGED used

RemoveHold(id) ==
    /\ op = Idle
    /\ \E i \in DOMAIN policy : policy[i].id = id
    /\ commitHolds(holdsWithoutID(id), FALSE) /\ UNCHANGED used

Expire(id) ==
    /\ \E i \in DOMAIN policy : policy[i].id = id
    /\ id \notin expired
    /\ expired' = expired \union {id}
    /\ UNCHANGED <<policy, used, op, wpc, seen, queued, granted, accounts, edits>>

pruneHoldCounts ==
    /\ op.at \in {"prune", "prune_seed"}
    /\ holdCount' = [i \in HoldIDs |->
                       IF \E k \in DOMAIN policy : policy[k].id = i THEN holdCount[i] ELSE 0]
    /\ op' = IF op.at = "prune" THEN Idle ELSE [at |-> "seed", scan |-> Waiters, fire |-> {}]
    /\ UNCHANGED <<policy, expired, used, wpc, seen, queued, granted, holdID, holding, shown, edits>>

\* Under the group's lock: a waiter in the queue has not departed.  The flag is set
\* here, the hook comes later.
seedQueuedHolds(w) ==
    /\ op.at = "seed" /\ w \in op.scan
    /\ CASE w \notin queued ->
              op' = [op EXCEPT !.scan = @ \ {w}] /\ UNCHANGED <<holdCount, holdID, holding>>
         [] w \in queued /\ matchingHold(w) = None ->
              /\ clearHoldCountLocked(w)
              /\ op' = [op EXCEPT !.scan = @ \ {w}]
              /\ UNCHANGED holding
         [] OTHER ->
              /\ moveHoldCountLocked(w, matchingHold(w))
              /\ holding' = [holding EXCEPT ![w] = TRUE]
              /\ op' = [op EXCEPT !.scan = @ \ {w},
                                  !.fire = IF holding[w] THEN @ ELSE @ \union {<<w, matchingHold(w)>>}]
    /\ UNCHANGED <<policy, expired, used, wpc, seen, queued, granted, shown, edits>>

\* MutantFiresBlind: the hook is invoked whatever became of the waiter.
MutantFiresBlind(f) ==
    /\ op.at = "seed" /\ op.scan = {} /\ f \in op.fire
    /\ shown' = [shown EXCEPT ![f[1]] = TRUE]
    /\ op' = [op EXCEPT !.fire = @ \ {f}]
    /\ UNCHANGED <<policy, expired, used, wpc, seen, queued, granted, holdCount, holdID, holding, edits>>

\* The waiter may have departed since the scan.
fireSeededHold(f) ==
    /\ op.at = "seed" /\ op.scan = {} /\ f \in op.fire
    /\ shown' = IF holding[f[1]] /\ holdID[f[1]] = f[2] THEN [shown EXCEPT ![f[1]] = TRUE] ELSE shown
    /\ op' = [op EXCEPT !.fire = @ \ {f}]
    /\ UNCHANGED <<policy, expired, used, wpc, seen, queued, granted, holdCount, holdID, holding, edits>>

SeedDone ==
    /\ op.at = "seed" /\ op.scan = {} /\ op.fire = {}
    /\ op' = Idle
    /\ UNCHANGED <<policy, expired, used, wpc, seen, queued, granted, accounts, edits>>

---------------------------------------------------------------------------
(* A waiter.                                                               *)

Goes(w, pc) == wpc' = [wpc EXCEPT ![w] = pc]

\* reserveHold counts it, or the hold's queue is full.
Enqueue(w) ==
    LET h == matchingHold(w) IN
    /\ wpc[w] = "new"
    /\ \/ h # None /\ holdCount[h] >= Cap /\ Goes(w, "refused")
          /\ UNCHANGED <<queued, holdCount, holdID>>
       \/ h # None /\ holdCount[h] < Cap /\ Goes(w, "waiting")
          /\ moveHoldCountLocked(w, h) /\ queued' = queued \union {w}
       \/ h = None /\ Goes(w, "waiting") /\ queued' = queued \union {w}
          /\ UNCHANGED <<holdCount, holdID>>
    /\ UNCHANGED <<policy, expired, used, op, seen, granted, holding, shown, edits>>

\* The predicate is read without a lock; what it found is adopted later.
Match(w) ==
    /\ wpc[w] = "waiting"
    /\ seen' = [seen EXCEPT ![w] = matchingHold(w)]
    /\ Goes(w, IF matchingHold(w) = None THEN "sync" ELSE "adopt")
    /\ UNCHANGED <<policy, expired, used, op, queued, granted, accounts, edits>>

Adopt(w) ==
    /\ wpc[w] = "adopt"
    /\ adoptHold(w, seen[w])
    /\ Goes(w, "parked")
    /\ UNCHANGED <<policy, expired, used, op, seen, queued, granted, edits>>

\* Read again under the accounting lock.
syncUnhold(w) ==
    /\ wpc[w] = "sync"
    /\ IF matchingHold(w) # None
         THEN adoptHold(w, matchingHold(w)) /\ Goes(w, "waiting")
         ELSE dropHold(w) /\ Goes(w, "parked")
    /\ UNCHANGED <<policy, expired, used, op, seen, queued, granted, edits>>

\* A kick or the hold's own timer.
Wake(w) ==
    /\ wpc[w] = "parked"
    /\ seen[w] # matchingHold(w)
    /\ Goes(w, "waiting")
    /\ UNCHANGED <<policy, expired, used, op, seen, queued, granted, accounts, edits>>

\* A drain passes over the held.
Grant(w) ==
    /\ w \in queued /\ matchingHold(w) = None
    /\ queued' = queued \ {w} /\ granted' = granted \union {w}
    /\ UNCHANGED <<policy, expired, used, op, wpc, seen, accounts, edits>>

TakeGrant(w) ==
    /\ wpc[w] = "parked" /\ w \in granted
    /\ Goes(w, "done") /\ dropHold(w)
    /\ UNCHANGED <<policy, expired, used, op, seen, queued, granted, edits>>

\* removeWaiter: out of the queue first, its accounts after the lock is released.
Cancel(w) ==
    /\ wpc[w] = "parked"
    /\ queued' = queued \ {w} /\ Goes(w, "leaving")
    /\ UNCHANGED <<policy, expired, used, op, seen, granted, accounts, edits>>

removeWaiter(w) ==
    /\ wpc[w] = "leaving"
    /\ dropHold(w) /\ Goes(w, "done")
    /\ UNCHANGED <<policy, expired, used, op, seen, queued, granted, edits>>

Next ==
    \/ \E h \in Holds : AddHold(h) \/ ReplaceHold(h)
    \/ \E id \in HoldIDs : RemoveHold(id) \/ Expire(id)
    \/ pruneHoldCounts \/ SeedDone
    \/ \E f \in op.fire : fireSeededHold(f)
    \/ \E w \in Waiters :
          \/ seedQueuedHolds(w) \/ Enqueue(w) \/ Match(w) \/ Adopt(w) \/ syncUnhold(w)
          \/ Wake(w) \/ Grant(w) \/ TakeGrant(w) \/ Cancel(w) \/ removeWaiter(w)

Spec == Init /\ [][Next]_vars

---------------------------------------------------------------------------
(* Properties.                                                             *)

\* The queue count of a hold, which its cap is compared with, is the number of
\* requests attributed to it (hold.go: seedQueuedHolds).
CountsExact ==
    op.at \notin {"prune", "prune_seed"} =>
        \A i \in DOMAIN policy :
            holdCount[policy[i].id] = Cardinality({w \in Waiters : holdID[w] = policy[i].id})

\* No row is left paused: a request that departed is neither counted nor shown as
\* paused, and only a held waiter is shown (hold.go: fireSeededHold, dropHold).  The
\* converse does not hold: a wait loop that adopts a hold it matched before an edit
\* spends the false->true edge, and the seeded callback is then suppressed, so a
\* parked waiter may stay unshown.
RowsTold ==
    \A w \in Waiters :
        /\ wpc[w] \in {"done", "refused"} => holdID[w] = None /\ ~shown[w]
        /\ shown[w] => holding[w]

\* No request is parked by two holds, whatever expires between two edits (hold.go:
\* HoldsOverlap, AddHold, ReplaceHold).
MatchedOnce ==
    \A w \in Waiters : \A i, j \in DOMAIN policy :
        matches(policy[i], w) /\ matches(policy[j], w) => policy[i].id = policy[j].id

HoldsAttributed == CountsExact /\ RowsTold /\ MatchedOnce
=============================================================================
