------------------------------- MODULE Pauses -------------------------------
(***************************************************************************)
(* The operator's holds: internal/proxy/pause.go, operator_state.go and    *)
(* the manual half of quotapause.go, over scheduler/hold.go's policy.      *)
(*                                                                         *)
(* An edit merges, checks and publishes under pause.mu; then its own       *)
(* goroutine derives the name pins and persists, without the lock.  Hold   *)
(* timers fire, a quota failure installs a hold of its own, writes fail or *)
(* land late, and the process may restart from the stored document.        *)
(***************************************************************************)
EXTENDS Naturals, Sequences, FiniteSets, SequencesExt

CONSTANTS
    Clients, Providers,
    Ids,                    \* what newPauseID may draw
    Bodies,                 \* what an operator may post
    MaxClock, MaxEdits, MaxFaults, MaxRestarts

None == "none"
NoUntil == 0
NoHold == [id |-> None, all |-> FALSE, new |-> FALSE, clients |-> {}, providers |-> {},
           known |-> {}, dur |-> 0, until |-> NoUntil, reason |-> None]

VARIABLES
    clock,
    known,                  \* the observed client vocabulary
    holds,                  \* pause.holds
    policy,                 \* the scheduler's published holds
    timers, firing,         \* armed AfterFuncs, and callbacks that already run
    gen,                    \* pause.persistGen
    savers,                 \* one record per accepted edit: its epilogue
    pins,                   \* what the pause family pins
    doc,                    \* the stored document
    resumed, lost, deadline, \* history: ids an operator resumed, ids a restart lost,
                            \* the deadline each id was last accepted with
    used, faults, restarts

history == <<resumed, lost, deadline>>
vars == <<clock, known, holds, policy, timers, firing, gen, savers, pins, doc,
          history, used, faults, restarts>>

Init ==
    /\ clock = 1 /\ known = {}
    /\ holds = <<>> /\ policy = <<>> /\ timers = {} /\ firing = {} /\ gen = 0
    /\ savers = <<>> /\ pins = {} /\ doc = <<>>
    /\ resumed = {} /\ lost = {} /\ deadline = [i \in Ids |-> NoUntil] /\ used = {} /\ faults = 0 /\ restarts = 0

---------------------------------------------------------------------------
(* What a hold covers (scheduler/hold.go).                                 *)

Expired(h) == h.until # NoUntil /\ h.until <= clock
Active(h) == ~Expired(h) /\ (h.all \/ h.new \/ h.clients # {} \/ h.providers # {})
Actives(s) == SelectSeq(s, Active)
Without(s, id) == SelectSeq(s, LAMBDA h : h.id # id)
Indices(s, id) == {i \in DOMAIN s : s[i].id = id}

clientOK(h, c) ==
    \/ h.all
    \/ c \in h.clients
    \/ h.new /\ c \notin h.known
    \/ ~h.new /\ h.clients = {} /\ h.providers # {}

providerOK(h, p) == h.all \/ h.providers = {} \/ p \in h.providers

matches(h, c, p) == Active(h) /\ clientOK(h, c) /\ providerOK(h, p)

AnyClient(h) == h.all \/ (~h.new /\ h.clients = {})

clientsOverlap(a, b) ==
    \/ AnyClient(a) \/ AnyClient(b)
    \/ a.clients \cap b.clients # {}
    \/ a.new /\ b.new
    \/ a.new /\ ~(b.clients \subseteq a.known)
    \/ b.new /\ ~(a.clients \subseteq b.known)

providersOverlap(a, b) ==
    a.all \/ b.all \/ a.providers = {} \/ b.providers = {} \/ a.providers \cap b.providers # {}

HoldsOverlap(a, b) == Active(a) /\ Active(b) /\ clientsOverlap(a, b) /\ providersOverlap(a, b)

Overlaps(s, h) == \E i \in DOMAIN s : HoldsOverlap(s[i], h)

---------------------------------------------------------------------------
(* The commit.                                                             *)

\* rearmTimersLocked.  A deadline may pass just before the timers are stopped: its
\* callback then runs, and waits for the lock.
rearmTimersLocked(kept, running) ==
    /\ \E late \in BOOLEAN :
          /\ late => clock < MaxClock
          /\ clock' = IF late THEN clock + 1 ELSE clock
          /\ firing' = running \union (IF late THEN {t \in timers : t.until = clock + 1} ELSE {})
    /\ timers' = {[id |-> kept[i].id, until |-> kept[i].until] :
                     i \in {k \in DOMAIN kept : kept[k].until > clock'}}

\* finishPauseLocked: prune the expired on both sides, rearm, a new generation, and
\* the epilogue that the caller runs, or starts, once the lock is released.
finishPauseLocked(next, sched, running, pinned) ==
    LET kept == SelectSeq(next, Active) IN
    /\ holds' = kept
    /\ policy' = SelectSeq(sched, Active)
    /\ rearmTimersLocked(kept, running)
    /\ gen' = gen + 1
    /\ savers' = Append(savers, [pc |-> IF pinned THEN "read" ELSE "write",
                                 pins |-> {}, snap |-> kept, gen |-> gen + 1, err |-> FALSE])

ScopeOf(h) == h.clients \union h.providers
ScopeNames(s) == UNION {ScopeOf(s[i]) : i \in DOMAIN s}

MayEdit == Len(savers) < MaxEdits

\* The merge of HandlePause: what a body omits, the edited hold keeps.  A duration
\* that is restated while its window is open does not restart it.
mergeUntil(prev, b) ==
    CASE prev # NoHold /\ ~b.stated -> prev.until
      [] b.stated /\ b.dur > 0 ->
            IF prev.dur = b.dur /\ prev.until > clock THEN prev.until ELSE clock + b.dur
      [] OTHER -> NoUntil

ScopeOmitted(b) == ~b.all /\ ~b.new /\ b.clients = {} /\ b.providers = {}

\* clients and providers are sets of at most one stated set.
Restated(dim, old) == IF dim = {} THEN old ELSE UNION dim

Merged(id, prev, b) ==
    LET keeps == prev # NoHold /\ ScopeOmitted(b)
        all == IF keeps THEN prev.all ELSE ScopeOmitted(b) \/ b.all
        new == IF keeps THEN prev.new ELSE ~all /\ b.new
    IN  [id |-> id, all |-> all, new |-> new,
         clients |-> IF all THEN {} ELSE Restated(b.clients, prev.clients),
         providers |-> IF all THEN {} ELSE Restated(b.providers, prev.providers),
         known |-> CASE ~new -> {} [] new /\ prev.new -> prev.known [] OTHER -> known,
         dur |-> IF b.stated THEN b.dur ELSE prev.dur,
         until |-> mergeUntil(prev, b),
         reason |-> prev.reason]

\* An explicit empty scope is not a global hold.
Accepted(h) == h.all \/ h.new \/ h.clients # {} \/ h.providers # {}

\* newPauseID.
Draws(id) == id \in Ids \ used /\ used' = used \union {id}

Ended == [pc |-> "done", pins |-> {}, snap |-> <<>>, gen |-> 0, err |-> FALSE]

---------------------------------------------------------------------------
(* The operator, the quota pause and the timers.                           *)

\* editPersisted without an id.
Create(id, b) ==
    LET h == Merged(id, NoHold, b) IN
    /\ MayEdit /\ Draws(id)
    /\ Accepted(h) /\ ~Overlaps(policy, h)
    /\ finishPauseLocked(Append(holds, h), Append(policy, h), firing, TRUE)
    /\ deadline' = [deadline EXCEPT ![id] = h.until]
    /\ UNCHANGED <<known, pins, doc, resumed, lost, faults, restarts>>

\* editPersisted with an id: an expired hold is not found.
Edit(i, b) ==
    LET prev == holds[i]
        h == Merged(prev.id, prev, b)
    IN  /\ MayEdit /\ Active(prev)
        /\ Accepted(h) /\ ~Overlaps(Without(policy, prev.id), h)
        /\ finishPauseLocked([holds EXCEPT ![i] = h], Append(Without(policy, prev.id), h), firing, TRUE)
        /\ deadline' = [deadline EXCEPT ![h.id] = h.until]
        /\ UNCHANGED <<known, pins, doc, resumed, lost, used, faults,
                       restarts>>

\* removePause by the operator, for one id.
Resume(id) ==
    /\ MayEdit /\ Indices(holds, id) # {}
    /\ finishPauseLocked(Without(holds, id), Without(policy, id), firing, TRUE)
    /\ resumed' = resumed \union {id}
    /\ UNCHANGED <<known, pins, doc, lost, deadline, used, faults, restarts>>

\* applyHolds(nil).
Clear ==
    /\ MayEdit
    /\ finishPauseLocked(<<>>, <<>>, firing, TRUE)
    /\ resumed' = resumed \union {holds[i].id : i \in DOMAIN holds}
    /\ UNCHANGED <<known, pins, doc, lost, deadline, used, faults, restarts>>

\* A durable quota failure: an indefinite hold on the provider.  Its epilogue only
\* persists.
addQuotaHold(id, p) ==
    LET h == [NoHold EXCEPT !.id = id, !.providers = {p}, !.reason = "quota"] IN
    /\ MayEdit /\ Draws(id)
    /\ ~Overlaps(policy, h)
    /\ finishPauseLocked(Append(holds, h), Append(policy, h), firing, FALSE)
    /\ UNCHANGED <<known, pins, doc, history, faults, restarts>>

\* The callback runs on a goroutine of its own; Stop comes too late for it.
TimerFires(t) ==
    /\ t \in timers /\ t.until <= clock
    /\ timers' = timers \ {t} /\ firing' = firing \union {t}
    /\ UNCHANGED <<clock, known, holds, policy, gen, savers, pins, doc, history, used,
                   faults, restarts>>

\* MutantExpiresById: the callback removes the id whatever its deadline became.
MutantExpiresById(t) ==
    /\ t \in firing
    /\ IF Indices(holds, t.id) = {}
         THEN firing' = firing \ {t} /\ UNCHANGED <<clock, holds, policy, timers, gen, savers>>
         ELSE finishPauseLocked(Without(holds, t.id), Without(policy, t.id), firing \ {t}, TRUE)
    /\ UNCHANGED <<known, pins, doc, history, used, faults, restarts>>

\* removePause with the deadline the timer was armed for.
removePause(t) ==
    /\ t \in firing
    /\ IF \A i \in Indices(holds, t.id) : holds[i].until # t.until
         THEN firing' = firing \ {t} /\ UNCHANGED <<clock, holds, policy, timers, gen, savers>>
         ELSE finishPauseLocked(Without(holds, t.id), Without(policy, t.id), firing \ {t}, TRUE)
    /\ UNCHANGED <<known, pins, doc, history, used, faults, restarts>>

Observe(c) ==
    /\ c \notin known /\ known' = known \union {c}
    /\ UNCHANGED <<clock, holds, policy, timers, firing, gen, savers, pins, doc, history,
                   used, faults, restarts>>

Tick ==
    /\ clock < MaxClock /\ clock' = clock + 1
    /\ UNCHANGED <<known, holds, policy, timers, firing, gen, savers, pins, doc, history,
                   used, faults, restarts>>

---------------------------------------------------------------------------
(* The epilogue of an edit.                                                *)

Saver(i, s) == savers' = [savers EXCEPT ![i] = s]

\* syncNamePins reads the holds under the lock and pins them without it.
ReadPins(i) ==
    /\ savers[i].pc = "read"
    /\ Saver(i, [savers[i] EXCEPT !.pc = "pin", !.pins = ScopeNames(holds)])
    /\ UNCHANGED <<clock, known, holds, policy, timers, firing, gen, pins, doc, history,
                   used, faults, restarts>>

syncNamePins(i) ==
    /\ savers[i].pc = "pin"
    /\ pins' = savers[i].pins
    /\ Saver(i, [savers[i] EXCEPT !.pc = "write"])
    /\ UNCHANGED <<clock, known, holds, policy, timers, firing, gen, doc, history, used,
                   faults, restarts>>

\* persistHolds: it lands, or it fails, or it lands and the answer is an error.
persistHolds(i) ==
    /\ savers[i].pc = "write"
    /\ \E landed, err \in BOOLEAN :
          /\ landed \/ err
          /\ err => faults < MaxFaults
          /\ faults' = IF err THEN faults + 1 ELSE faults
          /\ doc' = IF landed THEN savers[i].snap ELSE doc
          /\ Saver(i, [savers[i] EXCEPT !.pc = "check", !.err = err])
    /\ UNCHANGED <<clock, known, holds, policy, timers, firing, gen, pins, history, used,
                   restarts>>

\* MutantReturnsSuperseded: a write that was overtaken is taken for the last.
MutantReturnsSuperseded(i) ==
    /\ savers[i].pc = "check"
    /\ Saver(i, [savers[i] EXCEPT !.pc = "done"])
    /\ UNCHANGED <<clock, known, holds, policy, timers, firing, gen, pins, doc, history, used,
                   faults, restarts>>

\* persistStableGen: only a write of the current generation returns.
persistStableGen(i) ==
    /\ savers[i].pc = "check"
    /\ IF savers[i].gen = gen
         THEN Saver(i, [savers[i] EXCEPT !.pc = "done"])
         ELSE Saver(i, [savers[i] EXCEPT !.pc = "write", !.snap = holds, !.gen = gen])
    /\ UNCHANGED <<clock, known, holds, policy, timers, firing, gen, pins, doc, history, used,
                   faults, restarts>>

---------------------------------------------------------------------------
\* The process dies and AttachPausePersist restores what was stored: the active
\* holds of a readable document, installed unchecked and stored again.  An empty
\* document is left alone.
Restart ==
    \E readable, stored \in BOOLEAN :
        LET kept == IF readable THEN Actives(doc) ELSE <<>>
            back == {kept[i].id : i \in DOMAIN kept}
            attaches == readable /\ doc # <<>>
        IN  /\ restarts < MaxRestarts /\ restarts' = restarts + 1
            /\ (~readable \/ ~stored) => faults < MaxFaults
            /\ stored \/ attaches
            /\ faults' = IF ~readable \/ ~stored THEN faults + 1 ELSE faults
            /\ holds' = kept /\ policy' = kept
            /\ timers' = {[id |-> kept[i].id, until |-> kept[i].until] :
                             i \in {k \in DOMAIN kept : kept[k].until # NoUntil}}
            /\ firing' = {}
            /\ gen' = IF attaches THEN 1 ELSE 0
            /\ savers' = [i \in DOMAIN savers |-> [Ended EXCEPT !.gen = gen', !.err = ~readable]]
            /\ pins' = ScopeNames(kept)
            /\ known' = known \union UNION {doc[i].known : i \in DOMAIN doc}
            /\ doc' = IF attaches /\ stored THEN kept ELSE doc
            /\ lost' = lost \union ({holds[i].id : i \in DOMAIN holds} \ back)
            /\ deadline' = [id \in Ids |-> IF id \in back THEN kept[CHOOSE i \in DOMAIN kept : kept[i].id = id].until
                                           ELSE deadline[id]]
            /\ UNCHANGED <<clock, resumed, used>>

Next ==
    \/ \E id \in Ids, b \in Bodies : Create(id, b)
    \/ \E i \in DOMAIN holds, b \in Bodies : Edit(i, b)
    \/ \E id \in Ids : Resume(id)
    \/ \E id \in Ids, p \in Providers : addQuotaHold(id, p)
    \/ Clear \/ Tick \/ Restart
    \/ \E t \in timers : TimerFires(t)
    \/ \E t \in firing : removePause(t)
    \/ \E c \in Clients : Observe(c)
    \/ \E i \in DOMAIN savers :
          ReadPins(i) \/ syncNamePins(i) \/ persistHolds(i) \/ persistStableGen(i)

Spec == Init /\ [][Next]_vars

---------------------------------------------------------------------------
(* Properties.                                                             *)

\* No request is parked by two holds, whatever edits, expiries and restores led here
\* (hold.go: HoldsOverlap is meant to be the exact test).
OneHoldPerRequest ==
    \A c \in Clients, p \in Providers :
        Cardinality({i \in DOMAIN policy : matches(policy[i], c, p)}) <= 1

\* The scheduler parks by what the operator is shown.
PolicyIsShown == ToSet(Actives(policy)) = ToSet(Actives(holds))

\* A hold ends by its operator, by its own current deadline, or with a process
\* whose document did not have it; never by the timer of a deadline it had before.
NoEarlyResume ==
    \A id \in used :
        \/ Indices(policy, id) # {}
        \/ id \in resumed \union lost
        \/ deadline[id] # NoUntil /\ deadline[id] <= clock

\* When every epilogue has returned, the document is what is in force, or one of
\* the current generation reported that it could not be saved (operator_state.go).
StaleIsReported ==
    (\A i \in DOMAIN savers : savers[i].pc = "done") =>
        \/ Actives(doc) = Actives(holds)
        \/ \E i \in DOMAIN savers : savers[i].gen = gen /\ savers[i].err

HoldsSound == OneHoldPerRequest /\ PolicyIsShown /\ NoEarlyResume /\ StaleIsReported

\* The names of a removed hold are released (pause.go, syncNamePins).
PinsFollowHolds ==
    (\A i \in DOMAIN savers : savers[i].pc = "done") => pins = ScopeNames(holds)
=============================================================================
