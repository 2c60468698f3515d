------------------------------- MODULE Breaker -------------------------------
(***************************************************************************)
(* What the send gate promises (package comment of internal/scheduler): a  *)
(* circuit breaker with one owner.  Closed, everyone sends.  Open, only    *)
(* the owner sends.  Half-open, nobody owns the gate and exactly one       *)
(* request may take it over as the next probe.                             *)
(***************************************************************************)
CONSTANTS Requests, NoOne  \* NoOne: the gate has no owner

VARIABLES mode, owner

Closed == mode = "closed" /\ owner = NoOne
HalfOpen == mode = "halfOpen" /\ owner = NoOne
Open(r) == mode = "open" /\ owner = r

Init == Closed

\* A retryable failure claims a gate nobody owns for its request.
Trips(r) == (Closed \/ HalfOpen) /\ mode' = "open" /\ owner' = r

\* A waiter of a half-open gate becomes the next probe.
Probes(r) == HalfOpen /\ mode' = "open" /\ owner' = r

\* The owner gives the gate up and leaves sends serial, or restores them.
KeepsSerial(r) == Open(r) /\ mode' = "halfOpen" /\ owner' = NoOne
Restores(r) == Open(r) /\ mode' = "closed" /\ owner' = NoOne

\* A request that never owned the gate exhausts its retries.
FailsUnowned == Closed /\ mode' = "halfOpen" /\ owner' = NoOne

Next ==
  \/ \E r \in Requests : Trips(r) \/ Probes(r) \/ KeepsSerial(r) \/ Restores(r)
  \/ FailsUnowned

Spec == Init /\ [][Next]_<<mode, owner>>

=============================================================================
