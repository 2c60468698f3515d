---------------------------- MODULE DebugSessions ----------------------------
(***************************************************************************)
(* The operator's debug sessions: internal/proxy/debug.go.                 *)
(*                                                                         *)
(* A session captures the requests whose client, provider and model it     *)
(* names; a dimension it leaves empty admits every value.  An edit merges, *)
(* checks and commits under debug.mu and persists after the lock.  Timers  *)
(* end a session at its deadline, writes fail or land late, and a restart  *)
(* restores the stored document.                                           *)
(***************************************************************************)
EXTENDS Naturals, Sequences, FiniteSets, SequencesExt

CONSTANTS
    Requests,               \* [client, provider, model] of the requests that may come
    Canon,                  \* CursorModelBase, on the model names
    Ids,                    \* what newPauseID may draw
    Bodies,                 \* [scope, stated, dur]: a start or edit an operator may post
    MaxClock, MaxEdits, MaxFaults, MaxRestarts

NoUntil == 0
Dims == {"client", "provider", "model"}
AnyScope == [d \in Dims |-> {}]
NoSession == [id |-> "none", scope |-> AnyScope, dur |-> 0, until |-> NoUntil]

VARIABLES
    clock,
    sessions,               \* debug.sessions
    timers, firing,         \* armed AfterFuncs, and callbacks that already run
    gen,                    \* debug.persistGen
    savers,                 \* one record per accepted edit: its persistence
    doc,                    \* the stored document
    stopped, lost, deadline, \* history: ids an operator stopped, ids a restart lost,
                            \* the deadline each id was last accepted with
    used, faults, restarts

history == <<stopped, lost, deadline>>
vars == <<clock, sessions, timers, firing, gen, savers, doc, history, used, faults, restarts>>

Init ==
    /\ clock = 1 /\ sessions = <<>> /\ timers = {} /\ firing = {} /\ gen = 0
    /\ savers = <<>> /\ doc = <<>>
    /\ stopped = {} /\ lost = {} /\ deadline = [i \in Ids |-> NoUntil]
    /\ used = {} /\ faults = 0 /\ restarts = 0

---------------------------------------------------------------------------
(* What a session matches.                                                 *)

Expired(d) == d.until # NoUntil /\ clock > d.until
Live(s) == SelectSeq(s, LAMBDA d : ~Expired(d))
Without(s, id) == SelectSeq(s, LAMBDA d : d.id # id)
Indices(s, id) == {i \in DOMAIN s : s[i].id = id}

\* canonicalModelList.
Canonical(scope) == [scope EXCEPT !.model = {Canon[m] : m \in scope.model}]

\* The request's value in a dimension, models by their base name.
Value(r, dim) == IF dim = "model" THEN Canon[r.model] ELSE r[dim]

debugSessionMatches(d, r) ==
    /\ \A dim \in Dims : d.scope[dim] = {} \/ Value(r, dim) \in Canonical(d.scope)[dim]
    /\ \E dim \in Dims : d.scope[dim] # {}

debugDimOverlap(a, b) == a = {} \/ b = {} \/ a \cap b # {}

debugSessionsOverlap(a, b) ==
    \A dim \in Dims : debugDimOverlap(Canonical(a.scope)[dim], Canonical(b.scope)[dim])

debugOverlapsLocked(d) ==
    \E i \in DOMAIN sessions :
        sessions[i].id # d.id /\ ~Expired(sessions[i]) /\ debugSessionsOverlap(d, sessions[i])

---------------------------------------------------------------------------
(* The commit.                                                             *)

\* rearmDebugTimersLocked.  A deadline may pass just before the timers are stopped:
\* its callback then runs, and waits for the lock.
rearmDebugTimersLocked(kept, running) ==
    /\ \E late \in BOOLEAN :
          /\ late => clock < MaxClock
          /\ clock' = IF late THEN clock + 1 ELSE clock
          /\ firing' = running \union (IF late THEN {t \in timers : t.until = clock + 1} ELSE {})
    /\ timers' = {[id |-> kept[i].id, until |-> kept[i].until] :
                     i \in {k \in DOMAIN kept : kept[k].until > clock'}}

\* finishDebugLocked and commitDebug: prune, rearm, a new generation, and the
\* persistence the caller runs without the lock.
commitDebug(next, running) ==
    LET kept == Live(next) IN
    /\ sessions' = kept
    /\ rearmDebugTimersLocked(kept, running)
    /\ gen' = gen + 1
    /\ savers' = Append(savers, [pc |-> "write", snap |-> kept, gen |-> gen + 1, err |-> FALSE])

MayEdit == Len(savers) < MaxEdits

\* mergeUntil: a duration restated while its window is open does not restart it.
mergeUntil(prev, b) ==
    CASE prev # NoSession /\ ~b.stated -> prev.until
      [] b.stated /\ b.dur > 0 ->
            IF prev.dur = b.dur /\ prev.until > clock THEN prev.until ELSE clock + b.dur
      [] OTHER -> NoUntil

\* The merge of HandleDebug: b.scope[dim] is a set of at most one stated set.
Merged(id, prev, b) ==
    [id |-> id,
     scope |-> Canonical([dim \in Dims |-> IF b.scope[dim] = {} THEN prev.scope[dim]
                                           ELSE UNION b.scope[dim]]),
     dur |-> IF b.stated THEN b.dur ELSE prev.dur,
     until |-> mergeUntil(prev, b)]

\* editDebug rejects an empty scope and one that overlaps another session.
Accepted(d) == d.scope # AnyScope /\ ~debugOverlapsLocked(d)

Draws(id) == id \in Ids \ used /\ used' = used \union {id}

---------------------------------------------------------------------------
(* The operator and the timers.                                            *)

\* editDebug without an id.
Start(id, b) ==
    LET d == Merged(id, NoSession, b) IN
    /\ MayEdit /\ Draws(id) /\ Accepted(d)
    /\ commitDebug(Append(sessions, d), firing)
    /\ deadline' = [deadline EXCEPT ![id] = d.until]
    /\ UNCHANGED <<doc, stopped, lost, faults, restarts>>

\* editDebug with an id: a session whose deadline has come is not found.
editDebug(i, b) ==
    LET prev == sessions[i]
        d == Merged(prev.id, prev, b)
    IN  /\ MayEdit
        /\ prev.until = NoUntil \/ clock < prev.until
        /\ Accepted(d)
        /\ commitDebug([sessions EXCEPT ![i] = d], firing)
        /\ deadline' = [deadline EXCEPT ![d.id] = d.until]
        /\ UNCHANGED <<doc, stopped, lost, used, faults, restarts>>

\* removeDebug by the operator, for one id.
Stop(id) ==
    /\ MayEdit /\ Indices(sessions, id) # {}
    /\ commitDebug(Without(sessions, id), firing)
    /\ stopped' = stopped \union {id}
    /\ UNCHANGED <<doc, lost, deadline, used, faults, restarts>>

\* applyDebug(nil).
Clear ==
    /\ MayEdit
    /\ commitDebug(<<>>, firing)
    /\ stopped' = stopped \union {sessions[i].id : i \in DOMAIN sessions}
    /\ UNCHANGED <<doc, lost, deadline, used, faults, restarts>>

TimerFires(t) ==
    /\ t \in timers /\ t.until <= clock
    /\ timers' = timers \ {t} /\ firing' = firing \union {t}
    /\ UNCHANGED <<clock, sessions, gen, savers, doc, history, used, faults, restarts>>

\* MutantEndsById: the callback ends the session whatever its deadline became.
MutantEndsById(t) ==
    /\ t \in firing
    /\ IF Indices(sessions, t.id) = {}
         THEN firing' = firing \ {t} /\ UNCHANGED <<clock, sessions, timers, gen, savers>>
         ELSE commitDebug(Without(sessions, t.id), firing \ {t})
    /\ UNCHANGED <<doc, history, used, faults, restarts>>

\* removeDebug with the deadline the timer was armed for.
removeDebug(t) ==
    /\ t \in firing
    /\ IF \A i \in Indices(sessions, t.id) : sessions[i].until # t.until
         THEN firing' = firing \ {t} /\ UNCHANGED <<clock, sessions, timers, gen, savers>>
         ELSE commitDebug(Without(sessions, t.id), firing \ {t})
    /\ UNCHANGED <<doc, history, used, faults, restarts>>

Tick ==
    /\ clock < MaxClock /\ clock' = clock + 1
    /\ UNCHANGED <<sessions, timers, firing, gen, savers, doc, history, used, faults, restarts>>

---------------------------------------------------------------------------
(* Persistence and restart.                                                *)

Saver(i, s) == savers' = [savers EXCEPT ![i] = s]

\* persistDebugSessions: it lands, or it fails, or it lands and answers an error.
persistDebugSessions(i) ==
    /\ savers[i].pc = "write"
    /\ \E landed, err \in BOOLEAN :
          /\ landed \/ err
          /\ err => faults < MaxFaults
          /\ faults' = IF err THEN faults + 1 ELSE faults
          /\ doc' = IF landed THEN savers[i].snap ELSE doc
          /\ Saver(i, [savers[i] EXCEPT !.pc = "check", !.err = err])
    /\ UNCHANGED <<clock, sessions, timers, firing, gen, history, used, restarts>>

\* persistDebugLatest: only a write of the current generation returns.
persistDebugLatest(i) ==
    /\ savers[i].pc = "check"
    /\ IF savers[i].gen = gen
         THEN Saver(i, [savers[i] EXCEPT !.pc = "done"])
         ELSE Saver(i, [savers[i] EXCEPT !.pc = "write", !.snap = sessions, !.gen = gen])
    /\ UNCHANGED <<clock, sessions, timers, firing, gen, doc, history, used, faults, restarts>>

\* The process dies; attachDebugPersist restores the live sessions of a readable
\* document and stores them again.  An empty document is left alone.
attachDebugPersist ==
    \E readable, stored \in BOOLEAN :
        LET kept == IF readable THEN SelectSeq(Live(doc), LAMBDA d : d.scope # AnyScope) ELSE <<>>
            back == {kept[i].id : i \in DOMAIN kept}
            attaches == readable /\ doc # <<>>
        IN  /\ restarts < MaxRestarts /\ restarts' = restarts + 1
            /\ (~readable \/ ~stored) => faults < MaxFaults
            /\ stored \/ attaches
            /\ faults' = IF ~readable \/ ~stored THEN faults + 1 ELSE faults
            /\ sessions' = kept
            /\ timers' = {[id |-> kept[i].id, until |-> kept[i].until] :
                             i \in {k \in DOMAIN kept : kept[k].until > clock}}
            /\ firing' = {}
            /\ gen' = IF attaches THEN 1 ELSE 0
            /\ savers' = [i \in DOMAIN savers |->
                             [pc |-> "done", snap |-> <<>>, gen |-> gen', err |-> ~readable]]
            /\ doc' = IF attaches /\ stored THEN kept ELSE doc
            /\ lost' = lost \union ({sessions[i].id : i \in DOMAIN sessions} \ back)
            /\ deadline' = [id \in Ids |->
                               IF id \in back THEN kept[CHOOSE i \in DOMAIN kept : kept[i].id = id].until
                               ELSE deadline[id]]
            /\ UNCHANGED <<clock, stopped, used>>

Next ==
    \/ \E id \in Ids, b \in Bodies : Start(id, b)
    \/ \E i \in DOMAIN sessions, b \in Bodies : editDebug(i, b)
    \/ \E id \in Ids : Stop(id)
    \/ Clear \/ Tick \/ attachDebugPersist
    \/ \E t \in timers : TimerFires(t)
    \/ \E t \in firing : removeDebug(t)
    \/ \E i \in DOMAIN savers : persistDebugSessions(i) \/ persistDebugLatest(i)

Spec == Init /\ [][Next]_vars

---------------------------------------------------------------------------
(* Properties.                                                             *)

\* Which session captures a request does not depend on the order of the list: no two
\* live sessions match it, whatever edits, expiries and restores led here
\* (debugOverlapsLocked is meant to be the exact test).
OneSessionPerRequest ==
    \A r \in Requests :
        Cardinality({i \in DOMAIN sessions : ~Expired(sessions[i]) /\ debugSessionMatches(sessions[i], r)}) <= 1

\* A partial edit never broadens a session to every request.
EverySessionIsScoped == \A i \in DOMAIN sessions : sessions[i].scope # AnyScope

\* A session ends by its operator, by its own current deadline, or with a process
\* whose document did not have it; never by the timer of an earlier deadline.
NoEarlyEnd ==
    \A id \in used :
        \/ Indices(sessions, id) # {}
        \/ id \in stopped \union lost
        \/ deadline[id] # NoUntil /\ deadline[id] <= clock

\* When every persister has returned, the document is what is in force, or one of
\* the current generation reported that it could not be saved.
StaleIsReported ==
    (\A i \in DOMAIN savers : savers[i].pc = "done") =>
        \/ Live(doc) = Live(sessions)
        \/ \E i \in DOMAIN savers : savers[i].gen = gen /\ savers[i].err

\* debug.go: sessions partition what they capture, end when they should, and survive.
SessionsSound == OneSessionPerRequest /\ EverySessionIsScoped /\ NoEarlyEnd /\ StaleIsReported
=============================================================================
