----------------------------- MODULE Throttles -----------------------------
(***************************************************************************)
(* The provider caps and their durable copy (internal/proxy/throttle.go    *)
(* over scheduler/throttle.go's UpdateThrottle).  Operator posts persist   *)
(* before they answer; caps from request headers are left to one           *)
(* background writer, which coalesces a burst and retries; a flush, taken  *)
(* before a handoff and at shutdown, excludes both.                        *)
(*                                                                         *)
(* A limit has one rate dimension, a count and its window; the request and *)
(* the token rate follow the same rules.                                   *)
(***************************************************************************)
EXTENDS Naturals, FiniteSets

CONSTANTS
    Providers, MaxGates,    \* maxProviderGates
    Operators, Headers,     \* requests in flight that may post a cap, or carry one
    Posts, Patches,         \* bodies of the former, header sets of the latter
    Windows,                \* what parseLimitWindow accepts
    RewriteFails,           \* whether the repeat of a superseded write may fail
    MaxEdits, MaxFaults, MaxRestarts

NoLimit == [conc |-> 0, count |-> 0, window |-> 0, anti |-> FALSE, ramp |-> 0]

Loops == Operators \union {"writer"}
Procs == Loops \union Headers \union {"flush"}

VARIABLES
    policy,                 \* the scheduler's cap of each provider
    gen, saved,             \* persistGen, persistedGen
    started, closed, wake,
    procs,                  \* per goroutine: where it is, and its write
    doc,                    \* the stored document
    sealed,                 \* history: a flush answered for the policy in force
    owed,                   \* history: the last generation a header marked
    edits, faults, restarts

vars == <<policy, gen, saved, started, closed, wake, procs, doc, sealed, owed, edits, faults,
          restarts>>

At(pc) == [pc |-> pc, gen |-> 0, snap |-> [p \in Providers |-> NoLimit], rewrite |-> FALSE,
           err |-> FALSE]

Init ==
    /\ policy = [p \in Providers |-> NoLimit] /\ doc = [p \in Providers |-> NoLimit]
    /\ gen = 0 /\ saved = 0 /\ started = FALSE /\ closed = FALSE /\ wake = FALSE
    /\ procs = [p \in Procs |-> At("idle")]
    /\ sealed = FALSE /\ owed = 0 /\ edits = 0 /\ faults = 0 /\ restarts = 0

---------------------------------------------------------------------------
(* Limits.                                                                 *)

Active(l) == l.conc > 0 \/ (l.count > 0 /\ l.window > 0)
normalized(l) == IF l.count = 0 THEN [l EXCEPT !.window = 0] ELSE l

validateLimit(l) ==
    /\ l.count > 0 => l.window \in Windows
    /\ l.ramp # 0 => l.ramp \in Windows

\* A patch has the dimensions it states in has.
applyThrottleHeaders(cur, h) ==
    [cur EXCEPT !.conc = IF "conc" \in h.has THEN h.conc ELSE @,
                !.count = IF "rate" \in h.has THEN h.count ELSE @,
                !.window = IF "rate" \in h.has THEN h.window ELSE @]

\* A zero count turns the rate off with its window; a window alone re-times it.
PostedRate(cur, b) ==
    LET n == IF "count" \in b.has THEN b.count ELSE cur.count
        win == IF "window" \in b.has THEN b.window ELSE cur.window
    IN  IF {"count", "window"} \cap b.has = {} THEN [count |-> cur.count, window |-> cur.window]
        ELSE IF n = 0 THEN [count |-> 0, window |-> 0] ELSE [count |-> n, window |-> win]

HandleThrottle(cur, b) ==
    LET next == [conc |-> IF "conc" \in b.has THEN b.conc ELSE cur.conc,
                 count |-> PostedRate(cur, b).count,
                 window |-> PostedRate(cur, b).window,
                 anti |-> IF "anti" \in b.has THEN b.anti ELSE cur.anti,
                 ramp |-> IF "ramp" \in b.has THEN b.ramp ELSE cur.ramp]
        rampOn == ("anti" \in b.has /\ b.anti) \/ ("ramp" \in b.has /\ next.ramp > 0)
    IN  CASE "clear" \in b.has -> NoLimit
          [] ~Active(next) /\ rampOn -> cur
          [] ~validateLimit(next) -> cur
          [] OTHER -> next

\* What UpdateThrottle leaves of a limit: an inactive one clears the gate, and a new
\* provider past the cap is ignored.
UpdateThrottle(p, limit) ==
    LET l == normalized(limit) IN
    CASE ~Active(l) -> NoLimit
      [] policy[p] = NoLimit /\ Cardinality({q \in Providers : policy[q] # NoLimit}) >= MaxGates -> NoLimit
      [] OTHER -> l

\* throttleToPersisted drops a window that is not positive; persistedToThrottle reads
\* a window only beside its count, and refuses what validateLimit refuses.
throttleToPersisted(l) == l

persistedToThrottle(it) ==
    LET l == [it EXCEPT !.window = IF it.count > 0 THEN @ ELSE 0] IN
    IF (it.count > 0 /\ it.window \notin Windows) \/ ~validateLimit(l) THEN NoLimit ELSE l

latestThrottleSnap == [p \in Providers |-> throttleToPersisted(policy[p])]

---------------------------------------------------------------------------
(* Edits.  The policy changes under the scheduler's lock, the generation   *)
(* afterwards under the runtime's.                                         *)

Goes(x, pc) == procs' = [procs EXCEPT ![x].pc = pc]

Changes(p, limit) ==
    /\ edits < MaxEdits /\ edits' = edits + 1
    /\ policy[p] # UpdateThrottle(p, limit)
    /\ policy' = [policy EXCEPT ![p] = UpdateThrottle(p, limit)]
    /\ sealed' = FALSE

updateThrottle(o, p, b) ==
    /\ procs[o].pc = "idle"
    /\ Changes(p, HandleThrottle(policy[p], b))
    /\ Goes(o, "mark")
    /\ UNCHANGED <<gen, saved, started, closed, wake, doc, owed, faults, restarts>>

persistThrottleSync(o) ==
    /\ procs[o].pc = "mark"
    /\ gen' = gen + 1
    /\ Goes(o, "lock")
    /\ UNCHANGED <<policy, saved, started, closed, wake, doc, sealed, owed, edits, faults, restarts>>

updateThrottleFromHeaders(r, p, h) ==
    /\ procs[r].pc = "idle"
    /\ Changes(p, applyThrottleHeaders(policy[p], h))
    /\ Goes(r, "mark")
    /\ UNCHANGED <<gen, saved, started, closed, wake, doc, owed, faults, restarts>>

\* MutantWakesAtStart: only the start of the writer signals it.
MutantWakesAtStart(r) ==
    LET start == ~closed /\ ~started IN
    /\ procs[r].pc = "mark"
    /\ gen' = gen + 1 /\ owed' = gen + 1
    /\ started' = (started \/ start)
    /\ wake' = (wake \/ start)
    /\ procs' = [procs EXCEPT ![r].pc = "idle", !["writer"].pc = IF start THEN "wait" ELSE @]
    /\ UNCHANGED <<policy, saved, closed, doc, sealed, edits, faults, restarts>>

\* The writer is started at most once, and not after the close.
markThrottleDirty(r) ==
    LET start == ~closed /\ ~started IN
    /\ procs[r].pc = "mark"
    /\ gen' = gen + 1 /\ owed' = gen + 1
    /\ started' = (started \/ start)
    /\ wake' = TRUE
    /\ procs' = [procs EXCEPT ![r].pc = "idle", !["writer"].pc = IF start THEN "wait" ELSE @]
    /\ UNCHANGED <<policy, saved, closed, doc, sealed, edits, faults, restarts>>

---------------------------------------------------------------------------
(* persistThrottleLatestLocked, by any of the loops or by a flush.         *)

Persisting(x) == procs[x].pc \in {"top", "write", "check"}
Marking == \E x \in Procs : procs[x].pc = "mark"

\* The shared side for a loop, the exclusive one for a flush.
LockFor(x) ==
    /\ procs[x].pc = "lock"
    /\ ~Persisting("flush")
    /\ x = "flush" => \A y \in Loops : ~Persisting(y)
    /\ procs' = [procs EXCEPT ![x].pc = "top", ![x].rewrite = FALSE]
    /\ UNCHANGED <<policy, gen, saved, started, closed, wake, doc, sealed, owed, edits, faults,
                   restarts>>

\* Where its caller goes on: the writer retries, a request answers.
Returned(x, err) ==
    CASE x = "writer" -> IF err THEN "retry" ELSE "wait"
      [] x = "flush" -> IF err THEN "failed" ELSE "flushed"
      [] OTHER -> "idle"

Top(x) ==
    /\ procs[x].pc = "top"
    /\ IF gen = saved /\ ~procs[x].rewrite
         THEN /\ Goes(x, Returned(x, FALSE))
              /\ sealed' = (sealed \/ (x = "flush" /\ ~Marking))
         ELSE /\ procs' = [procs EXCEPT ![x].pc = "write", ![x].gen = gen,
                                        ![x].snap = latestThrottleSnap]
              /\ sealed' = (sealed \/ (x = "flush" /\ ~Marking))
    /\ UNCHANGED <<policy, gen, saved, started, closed, wake, doc, owed, edits, faults, restarts>>

\* The caller's bound passed before the write: an operator's, whose attempt has one.
Expires(o) ==
    /\ procs[o].pc = "top" /\ (gen # saved \/ procs[o].rewrite)
    /\ procs[o].rewrite => RewriteFails
    /\ faults < MaxFaults /\ faults' = faults + 1
    /\ Goes(o, "idle")
    /\ UNCHANGED <<policy, gen, saved, started, closed, wake, doc, sealed, owed, edits, restarts>>

writeThrottleSnap(x) ==
    /\ procs[x].pc = "write"
    /\ \E err \in BOOLEAN :
          /\ err => faults < MaxFaults /\ (procs[x].rewrite => RewriteFails)
          /\ faults' = IF err THEN faults + 1 ELSE faults
          /\ doc' = IF err THEN doc ELSE procs[x].snap
          /\ procs' = [procs EXCEPT ![x].pc = "check", ![x].err = err]
    /\ UNCHANGED <<policy, gen, saved, started, closed, wake, sealed, owed, edits, restarts>>

\* MutantNoRewrite: a superseded write is not followed by another of its own.
MutantNoRewrite(x) ==
    /\ procs[x].pc = "check"
    /\ IF gen = procs[x].gen
         THEN /\ saved' = IF procs[x].err THEN saved ELSE gen
              /\ Goes(x, Returned(x, procs[x].err))
         ELSE /\ UNCHANGED saved
              /\ Goes(x, "top")
    /\ UNCHANGED <<policy, gen, started, closed, wake, doc, sealed, owed, edits, faults, restarts>>

\* A generation that moved supersedes the write, and its error.
persistThrottleLatestLocked(x) ==
    /\ procs[x].pc = "check"
    /\ IF gen = procs[x].gen
         THEN /\ saved' = IF procs[x].err THEN saved ELSE gen
              /\ Goes(x, Returned(x, procs[x].err))
         ELSE /\ UNCHANGED saved
              /\ procs' = [procs EXCEPT ![x].pc = "top", ![x].rewrite = TRUE]
    /\ UNCHANGED <<policy, gen, started, closed, wake, doc, sealed, owed, edits, faults, restarts>>

---------------------------------------------------------------------------
(* The background writer, the flush and the close.                         *)

\* A wake, and waitThrottleQuiet: every further one restarts the window.
runThrottlePersister ==
    /\ procs["writer"].pc \in {"wait", "quiet"}
    /\ ~closed
    /\ \/ procs["writer"].pc = "wait" /\ wake /\ wake' = FALSE /\ Goes("writer", "quiet")
       \/ procs["writer"].pc = "quiet" /\ wake /\ wake' = FALSE /\ UNCHANGED procs
       \/ procs["writer"].pc = "quiet" /\ UNCHANGED wake /\ Goes("writer", "lock")
    /\ UNCHANGED <<policy, gen, saved, started, closed, doc, sealed, owed, edits, faults, restarts>>

waitThrottleRetry ==
    /\ procs["writer"].pc = "retry" /\ ~closed
    /\ Goes("writer", "lock")
    /\ UNCHANGED <<policy, gen, saved, started, closed, wake, doc, sealed, owed, edits, faults,
                   restarts>>

\* Every wait of the writer has the stop channel as a case.
WriterStops ==
    /\ closed /\ procs["writer"].pc \in {"wait", "quiet", "retry"}
    /\ Goes("writer", "stopped")
    /\ UNCHANGED <<policy, gen, saved, started, closed, wake, doc, sealed, owed, edits, faults,
                   restarts>>

FlushThrottles ==
    /\ procs["flush"].pc \in {"idle", "flushed", "failed"}
    /\ ~closed /\ gen # saved
    /\ Goes("flush", "lock")
    /\ UNCHANGED <<policy, gen, saved, started, closed, wake, doc, sealed, owed, edits, faults,
                   restarts>>

\* CloseThrottlePersist: stop, join, flush.  A join that times out gives up.
Stop ==
    /\ ~closed /\ closed' = TRUE
    /\ procs["flush"].pc \in {"idle", "flushed", "failed"}
    /\ Goes("flush", "join")
    /\ UNCHANGED <<policy, gen, saved, started, wake, doc, sealed, owed, edits, faults, restarts>>

CloseThrottlePersist ==
    /\ procs["flush"].pc = "join"
    /\ \/ ~started \/ procs["writer"].pc = "stopped"
       \/ Persisting("writer") /\ faults < MaxFaults
    /\ \/ (~started \/ procs["writer"].pc = "stopped") /\ Goes("flush", "lock") /\ UNCHANGED faults
       \/ started /\ procs["writer"].pc # "stopped" /\ faults' = faults + 1 /\ Goes("flush", "failed")
    /\ UNCHANGED <<policy, gen, saved, started, closed, wake, doc, sealed, owed, edits, restarts>>

\* A process that ends, cleanly or not, and restoreThrottlePolicies in the next.
Restart ==
    /\ restarts < MaxRestarts /\ restarts' = restarts + 1
    /\ policy' = [p \in Providers |->
                    IF Active(persistedToThrottle(doc[p])) THEN persistedToThrottle(doc[p]) ELSE NoLimit]
    /\ gen' = 0 /\ saved' = 0 /\ owed' = 0 /\ started' = FALSE /\ closed' = FALSE /\ wake' = FALSE
    /\ procs' = [p \in Procs |-> At("idle")]
    /\ sealed' = FALSE
    /\ UNCHANGED <<doc, edits, faults>>

PersistStep(x) == LockFor(x) \/ Top(x) \/ writeThrottleSnap(x) \/ persistThrottleLatestLocked(x)

Next ==
    \/ \E o \in Operators : \/ \E p \in Providers, b \in Posts : updateThrottle(o, p, b)
                            \/ persistThrottleSync(o) \/ Expires(o)
    \/ \E r \in Headers : \/ \E p \in Providers, h \in Patches : updateThrottleFromHeaders(r, p, h)
                          \/ markThrottleDirty(r)
    \/ \E x \in Loops \union {"flush"} : PersistStep(x)
    \/ runThrottlePersister \/ waitThrottleRetry \/ WriterStops
    \/ FlushThrottles \/ Stop \/ CloseThrottlePersist \/ Restart

Spec == Init /\ [][Next]_vars

\* Goroutines run; the debounce and the backoff end, and a burst of wakes does.
Fairness ==
    /\ \A x \in Loops \union {"flush"} : WF_vars(PersistStep(x))
    /\ \A r \in Headers : WF_vars(markThrottleDirty(r))
    /\ \A o \in Operators : WF_vars(persistThrottleSync(o))
    /\ WF_vars(runThrottlePersister) /\ WF_vars(waitThrottleRetry)
    /\ WF_vars(WriterStops) /\ WF_vars(CloseThrottlePersist)

FairSpec == Spec /\ Fairness

---------------------------------------------------------------------------
(* Properties.                                                             *)

Stored == doc = latestThrottleSnap

\* With no write in flight, a generation that is recorded as durable is: overlapping
\* writers never leave the older policy behind (persistThrottleLatestLocked).
DurableIsCurrent ==
    (gen = saved /\ ~Marking /\ \A x \in Procs : ~Persisting(x)) => Stored

\* Once a flush has answered, no stale write lands after it (persistMu).
FlushIsFinal == procs["flush"].pc = "flushed" /\ sealed => Stored

\* Whatever edits and header patches were merged, the next process restores it.
PolicyStorable ==
    \A p \in Providers :
        policy[p] # NoLimit => persistedToThrottle(throttleToPersisted(policy[p])) = policy[p]

ThrottlesDurable == DurableIsCurrent /\ FlushIsFinal /\ PolicyStorable

\* A cap that a header set is saved, although its request never waits for it.
Saved == saved >= owed \/ closed
HeaderCapSaved == []<>Saved
=============================================================================
