---------------------------- MODULE StrictWindow ----------------------------
(***************************************************************************)
(* The request budget of a provider gate (scheduler/throttle.go,           *)
(* strictWindow): at most count admits in any trailing window.  Up to      *)
(* MaxSlots the admits are kept in a ring of stamps, above it they are     *)
(* evenly spaced.  tryAdmit reads the clock twice under the gate's lock:   *)
(* once to ask whether the budget blocks, once to stamp the admit.         *)
(***************************************************************************)
EXTENDS Integers, Sequences, FiniteSets

CONSTANTS
    Budgets,     \* the <<count, window>> an operator or a header may install
    MaxSlots,    \* maxWindowSlots
    MaxTime,     \* bound on the clock
    MaxResets    \* bound on installed policies

VARIABLES
    now,       \* time.Now()
    w,         \* the gate's strictWindow
    log,       \* when this policy's admits inside the window went out (history)
    resets     \* policies installed so far

vars == <<now, w, log, resets>>

Disabled == [enabled |-> FALSE, count |-> 0, window |-> 0, stamps |-> <<>>, head |-> 0, filled |-> 0,
             interval |-> 0, next |-> 0]

paced(v) == v.enabled /\ v.interval > 0

\* Mutant: the spacing is the quotient, rounded down.
SpacingUnrounded(count, window) == window \div count

\* The spacing of a budget too large for stamps, one tick over the quotient.
Spacing(count, window) == window \div count + 1

reset(count, window, t) ==
    IF count = 0 \/ window = 0 THEN Disabled
    ELSE IF count > MaxSlots
         THEN [Disabled EXCEPT !.enabled = TRUE, !.count = count, !.window = window,
                               !.interval = Spacing(count, window), !.next = t]
         ELSE [Disabled EXCEPT !.enabled = TRUE, !.count = count, !.window = window,
                               !.stamps = [i \in 1 .. count |-> 0]]

\* The k-th youngest live stamp; the ring is indexed from 0 in the code.
Stamp(v, k) == v.stamps[((v.head - k + v.count) % v.count) + 1]

\* Live stamps are pruned oldest first, a stamp exactly window old included.
prune(v, t) ==
    IF ~v.enabled \/ paced(v) THEN v
    ELSE LET kept == {n \in 0 .. v.filled : \A k \in n + 1 .. v.filled : Stamp(v, k) <= t - v.window}
         IN  [v EXCEPT !.filled = CHOOSE n \in kept : \A m \in kept : n <= m]

\* How long until one more admit fits, and whether the budget blocks at t.
waitFor(v, t) ==
    LET p == prune(v, t) IN
    CASE ~v.enabled -> [blocked |-> FALSE, wait |-> 0]
      [] paced(v) -> [blocked |-> t < v.next, wait |-> IF t < v.next THEN v.next - t ELSE 0]
      [] v.enabled /\ ~paced(v) ->
           IF p.filled < p.count THEN [blocked |-> FALSE, wait |-> 0]
           ELSE LET d == Stamp(p, p.filled) + p.window - t
                IN  [blocked |-> TRUE, wait |-> IF d < 0 THEN 0 ELSE d]

admit(v, t) ==
    LET p == prune(v, t) IN
    CASE ~v.enabled -> v
      [] paced(v) -> [v EXCEPT !.next = (IF @ < t THEN t ELSE @) + v.interval]
      [] v.enabled /\ ~paced(v) ->
           [p EXCEPT !.stamps[p.head + 1] = t, !.head = (@ + 1) % p.count,
                     !.filled = IF @ < p.count THEN @ + 1 ELSE @]

remaining(v, t) ==
    CASE ~v.enabled -> 0
      [] paced(v) -> IF t < v.next THEN 0 ELSE v.count
      [] v.enabled /\ ~paced(v) -> v.count - prune(v, t).filled

---------------------------------------------------------------------------

Init == now = 0 /\ w = Disabled /\ log = <<>> /\ resets = 0

\* resetBuckets: a policy edit installs the budget anew, its past admits forgotten.
Reset(b) ==
    /\ resets < MaxResets
    /\ w' = reset(b[1], b[2], now) /\ log' = <<>> /\ resets' = resets + 1
    /\ UNCHANGED now

\* tryAdmit: refused, the window keeps what blocked's prune left.
Refuse ==
    /\ waitFor(w, now).blocked
    /\ w' = prune(w, now)
    /\ UNCHANGED <<now, log, resets>>

\* tryAdmit: admitted, and stamped with a second reading of the clock.
TryAdmit(t) ==
    /\ w.enabled /\ ~waitFor(w, now).blocked
    /\ w' = admit(prune(w, now), t)
    /\ now' = t
    /\ log' = Append(SelectSeq(log, LAMBDA s : s > t - w.window), t)
    /\ UNCHANGED resets

\* snapshot: showing the budget prunes it.
Show == w' = prune(w, now) /\ UNCHANGED <<now, log, resets>>

Tick == now < MaxTime /\ now' = now + 1 /\ UNCHANGED <<w, log, resets>>

Next == \/ \E b \in Budgets : Reset(b)
        \/ Refuse \/ Show \/ Tick
        \/ \E t \in now .. MaxTime : TryAdmit(t)

Spec == Init /\ [][Next]_vars

---------------------------------------------------------------------------
(* Properties                                                              *)

\* The admits of the window that ends at t.
Recent(t) == Cardinality({i \in DOMAIN log : log[i] > t - w.window})

TypeOK ==
    /\ now \in 0 .. MaxTime /\ resets \in 0 .. MaxResets
    /\ w.filled \in 0 .. w.count /\ (w.count > 0 => w.head \in 0 .. w.count - 1)
    /\ \A i \in DOMAIN log : log[i] \in 0 .. now

\* No trailing window holds more admits than the budget, stamped or spaced
\* (throttle.go:97-99, :116-118).
NeverOver == w.enabled => Recent(now) <= w.count

\* A refused request is told a positive wait after which it fits; with stamps it
\* does not fit before, and what is left is what the window lacks (:180-204, :227-243).
WaitExact ==
    LET told == waitFor(w, now) IN
    /\ told.blocked => told.wait > 0 /\ ~waitFor(w, now + told.wait).blocked
    /\ w.enabled /\ ~paced(w) =>
         /\ told.blocked <=> Recent(now) = w.count
         /\ told.blocked => Recent(now + told.wait) < w.count /\ Recent(now + told.wait - 1) = w.count
         /\ remaining(w, now) = w.count - Recent(now)

\* The budget is kept, and a wait is neither too short nor longer than needed.
BudgetKept == TypeOK /\ NeverOver /\ WaitExact
=============================================================================
