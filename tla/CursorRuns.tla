---------------------------- MODULE CursorRuns ----------------------------
(***************************************************************************)
(* Resumable Cursor runs (internal/proxy/cursor_store.go, cursor_bidi.go,  *)
(* internal/format/cursor_run.go).  A run is one upstream stream kept open *)
(* across client requests: a turn that surfaces tool calls parks it in an  *)
(* in-memory store under the calls it waits for, and a later request that  *)
(* carries their results takes it out and drives it on.                    *)
(*                                                                         *)
(* Each action is one critical section: of the store's lock, of the run's  *)
(* lock, or one receive of the turn driver.  Every call and every event    *)
(* weighs one byte.  The store's absolute times are ages of its entries,   *)
(* and its timer revision is the difference between a callback of the      *)
(* current timer and one of a timer replaced since.  A run nobody refers   *)
(* to any more is collected, and a fresh run may take its identity.        *)
(***************************************************************************)
EXTENDS Integers, Sequences, FiniteSets, FiniteSetsExt

CONSTANTS
  Clients,        \* client connections, each with one request at a time
  Scopes,         \* routing scopes: target, key, model and client name
  ScopeOf,        \* [Clients -> Scopes]
  Runs,           \* identities of runs
  CallIds,        \* tool call ids the upstream may use
  NoRun,          \* no run
  RunMax,         \* cursorRunMax: runs the store holds
  ParkedLimit,    \* parkedStreamLimit: bytes all parked runs may retain
  EventBuf,       \* runEventChanBuf: events queued to a turn driver
  TTLs,           \* values of cursor_park_ttl
  QualityRetries, \* TRUE when a void turn may be asked again
  MaxFrames,      \* bound: frames the upstream sends to one run
  MaxIds          \* bound: tool results in one request

VARIABLES
  run,        \* [Runs -> CursorRun]: see NoneRun
  entries,    \* [Runs -> [ids, scope, age]]; no entry has no ids
  byCall,     \* [Scopes \X CallIds -> Runs \cup {NoRun}]
  streamBytes,\* bytes of all parked runs
  ttl,        \* cursor_park_ttl
  timer,      \* time left of the store's timer, -1: none
  callbacks,  \* timer callbacks waiting for the store: "current", "stale"
  closing,    \* runs a sweep's goroutine is about to close
  pc,         \* [Clients -> where the request is]
  req,        \* [Clients -> request locals]: see NoReq
  gone        \* [Clients -> BOOLEAN]: the request's context is cancelled

store == <<entries, byCall, streamBytes, ttl, timer, callbacks, closing>>
vars  == <<run, store, pc, req, gone>>

AnyScope == CHOOSE s \in Scopes : TRUE
NoEntry  == [ids |-> {}, scope |-> AnyScope, age |-> 0]
NoReq    == [ids |-> <<>>, resume |-> FALSE, run |-> NoRun, tail |-> {}, calls |-> {},
             visible |-> FALSE, outcome |-> "none", reasked |-> FALSE]
MaxTTL   == Max(TTLs)
Keys     == Scopes \X CallIds

\* A CursorRun: pending calls, queuedBytes, the event channel, the bytes its
\* retention hook last reported (-1: no hook installed), the body's idle bound
\* (paused; its timer armed; the stream's context cut by it), and where the
\* pump is.  owner, the scope that opened it, is a ghost.
NoneRun == [closed |-> TRUE, pending |-> {}, queued |-> 0, events |-> <<>>, turnEnded |-> FALSE,
            hook |-> -1, paused |-> FALSE, armed |-> FALSE, cut |-> FALSE, pump |-> "ended", ev |-> "none",
            frames |-> 0, owner |-> AnyScope]

TypeOK ==
  /\ \A r \in Runs :
       /\ run[r].closed \in BOOLEAN /\ run[r].pending \subseteq CallIds
       /\ run[r].queued \in 0 .. EventBuf + 1 /\ run[r].hook \in -1 .. ParkedLimit
       /\ run[r].pump \in {"read", "push", "send", "exit", "ended"}
       /\ entries[r].ids \subseteq CallIds /\ entries[r].age \in 0 .. MaxTTL
  /\ byCall \in [Keys -> Runs \cup {NoRun}] /\ streamBytes \in 0 .. ParkedLimit
  /\ ttl \in TTLs /\ timer \in -1 .. MaxTTL
  /\ callbacks \subseteq {"current", "stale"} /\ closing \subseteq Runs
  /\ pc \in [Clients -> {"idle", "lookup", "open", "resume", "drive", "finish"}]

Parked(r)  == entries[r].ids # {}
Holders(r) == {c \in Clients : req[c].run = r}

\* The runs as they are after a step, the unreachable ones collected.
Collected(runs) ==
  [r \in Runs |-> IF /\ runs[r].closed /\ runs[r].pump = "ended" /\ entries'[r].ids = {}
                     /\ r \notin closing' /\ \A c \in Clients : req'[c].run # r
                  THEN NoneRun ELSE runs[r]]

-----------------------------------------------------------------------------
(* One run. *)

\* retainedBytesLocked
retained(r) == Cardinality(run[r].pending) + run[r].queued

\* notifyRetentionLocked: the store's hook is asked about a total before it
\* is kept; applyStreamDelta moves the aggregate by the difference.
Admits(r, total)     == run[r].hook = -1 \/ total - run[r].hook <= ParkedLimit - streamBytes
HookAfter(r, total)  == IF run[r].hook = -1 THEN -1 ELSE total
BytesAfter(r, total) == IF run[r].hook = -1 THEN streamBytes ELSE streamBytes + total - run[r].hook

\* CursorRun.Close, which closes the body and stops its timer; of the runs in S.
Shut(x)   == [x EXCEPT !.closed = TRUE, !.armed = FALSE, !.cut = FALSE]
Closed(S) == [r \in Runs |-> IF r \in S THEN Shut(run[r]) ELSE run[r]]

Reading(r)   == run[r].pump = "read" /\ ~run[r].closed
storeButBytes == <<entries, byCall, ttl, timer, callbacks, closing>>

\* idleCancelBody: a read arms the timer unless the bound is paused, and stops
\* it when it returns; so the pump reads again, or goes to push an event.
ReadsOn(x)     == [x EXCEPT !.pump = "read", !.armed = ~x.paused]
Pushing(r, ev) == [run EXCEPT ![r].pump = "push", ![r].ev = ev, ![r].armed = FALSE]

\* The pump reads text or reasoning, the turn's end marker, or the end of the
\* stream.  An end of file completes the turn only after its end marker.
ReadFrame(r) ==
  /\ Reading(r)
  /\ \/ run[r].frames < MaxFrames /\ run' = [Pushing(r, "delta") EXCEPT ![r].frames = @ + 1]
     \/ run[r].frames < MaxFrames /\ run' = [run EXCEPT ![r] = ReadsOn([@ EXCEPT !.turnEnded = TRUE, !.frames = @ + 1])]
     \/ run' = Pushing(r, "done")
     \/ run' = Pushing(r, IF run[r].turnEnded THEN "done" ELSE "err")
     \/ run' = Pushing(r, "err")
  /\ UNCHANGED <<store, pc, req, gone>>

\* The pump reads a tool call and registers it before surfacing it
\* (addPending); over the store's budget the run fails closed.
addPending(r, id) ==
  /\ Reading(r) /\ run[r].frames < MaxFrames
  /\ LET total == Cardinality(run[r].pending \cup {id}) + run[r].queued
     IN \/ /\ Admits(r, total)
           /\ run' = [Pushing(r, id) EXCEPT ![r].frames = @ + 1, ![r].pending = @ \cup {id},
                                            ![r].hook = HookAfter(r, total)]
           /\ streamBytes' = BytesAfter(r, total)
        \/ /\ ~Admits(r, total)
           /\ run' = [run EXCEPT ![r] = Shut([@ EXCEPT !.pump = "exit"])]
           /\ UNCHANGED streamBytes
  /\ UNCHANGED <<storeButBytes, pc, req, gone>>

\* The idle timer goes off and cancels the stream's context: the read it was
\* armed for may return a frame all the same, and a resumption arms it while
\* the pump is not reading at all, so the read it cuts may be a later one, and
\* the run parked by then.
IdleTimeout(r) ==
  /\ run[r].armed /\ ~run[r].closed
  /\ run' = [run EXCEPT ![r].armed = FALSE, ![r].cut = TRUE]
  /\ UNCHANGED <<store, pc, req, gone>>

\* A read of a stream whose context is cancelled fails.
ReadCut(r) == Reading(r) /\ run[r].cut /\ run' = Pushing(r, "err") /\ UNCHANGED <<store, pc, req, gone>>

\* pushEvent, its locked part: refuse on a closed run, fail closed over the
\* store's budget, else reserve the event's bytes.
Reserve(r) ==
  /\ run[r].pump = "push"
  /\ LET total == retained(r) + 1
         refused == run[r].closed \/ ~Admits(r, total)
     IN \/ /\ refused
           /\ run' = [run EXCEPT ![r] = Shut([@ EXCEPT !.pump = "exit", !.ev = "none"])]
           /\ UNCHANGED streamBytes
        \/ /\ ~refused
           /\ run' = [run EXCEPT ![r].pump = "send", ![r].queued = @ + 1, ![r].hook = HookAfter(r, total)]
           /\ streamBytes' = BytesAfter(r, total)
  /\ UNCHANGED <<storeButBytes, pc, req, gone>>

\* pushEvent, its send: into the channel when it has room, or given up
\* because the run was closed meanwhile.
Send(r) ==
  /\ run[r].pump = "send"
  /\ \/ /\ Len(run[r].events) < EventBuf
        /\ LET sent == [run[r] EXCEPT !.events = Append(@, run[r].ev), !.ev = "none"]
           IN run' = [run EXCEPT ![r] = IF run[r].ev \in {"done", "err"} THEN [sent EXCEPT !.pump = "exit"]
                                        ELSE ReadsOn(sent)]
        /\ UNCHANGED streamBytes
     \/ /\ run[r].closed
        /\ run' = [run EXCEPT ![r].queued = @ - 1, ![r].hook = HookAfter(r, retained(r) - 1),
                              ![r].pump = "exit", ![r].ev = "none"]
        /\ streamBytes' = BytesAfter(r, retained(r) - 1)
  /\ UNCHANGED <<storeButBytes, pc, req, gone>>

\* Any pump exit closes the run, then its event stream.
PumpExits(r) ==
  /\ run[r].pump = "exit" \/ (run[r].pump = "read" /\ run[r].closed)
  /\ UNCHANGED <<store, pc, req, gone>>
  /\ run' = Collected([run EXCEPT ![r] = Shut([@ EXCEPT !.pump = "ended"])])

-----------------------------------------------------------------------------
(* The store. *)

Expired(t) == {r \in Runs : Parked(r) /\ (run[r].closed \/ entries[r].age >= t)}

\* The bytes and the runs after the runs in S left the store (removeLocked).
Released(S)  == streamBytes - MapThenSumSet(LAMBDA r : run[r].hook, {r \in S : run[r].hook # -1})
Unhooked(S)  == [r \in Runs |-> IF r \in S THEN [run[r] EXCEPT !.hook = -1] ELSE run[r]]
Unlisted(S)  == [r \in Runs |-> IF r \in S THEN NoEntry ELSE entries[r]]
Unindexed(S) == [k \in Keys |-> IF byCall[k] \in S THEN NoRun ELSE byCall[k]]

MutantKeepsBytes(S) ==
  /\ entries' = Unlisted(S) /\ byCall' = Unindexed(S)
  /\ run' = Unhooked(S) /\ UNCHANGED streamBytes

removeLocked(S) ==
  /\ entries' = Unlisted(S) /\ byCall' = Unindexed(S)
  /\ run' = Unhooked(S) /\ streamBytes' = Released(S)

\* rearmLocked: one timer for the earliest expiry; a callback of an earlier
\* timer that is still waiting is stale from here on.
Earliest(t) ==
  LET held == {r \in Runs : entries'[r].ids # {}}
  IN IF held = {} THEN -1 ELSE Max({0, t - Max({entries'[r].age : r \in held})})

MutantKeepsTimer(t) ==
  /\ callbacks' = IF callbacks = {} THEN {} ELSE {"stale"}
  /\ timer' = IF Earliest(t) = -1 THEN -1 ELSE timer

rearmLocked(t) ==
  /\ callbacks' = IF callbacks = {} THEN {} ELSE {"stale"}
  /\ timer' = Earliest(t)

\* UpdateTTL: sweepLocked and rearm under the new bound.
UpdateTTL(t) ==
  /\ ttl # t /\ ttl' = t
  /\ removeLocked(Expired(t)) /\ closing' = closing \cup Expired(t)
  /\ rearmLocked(t)
  /\ UNCHANGED <<pc, req, gone>>

Tick ==
  /\ \E r \in Runs : Parked(r)
  /\ entries' = [r \in Runs |-> IF Parked(r) /\ entries[r].age < MaxTTL
                                THEN [entries[r] EXCEPT !.age = @ + 1] ELSE entries[r]]
  /\ timer' = IF timer > 0 THEN timer - 1 ELSE timer
  /\ UNCHANGED <<run, byCall, streamBytes, ttl, callbacks, closing, pc, req, gone>>

\* The timer's callback starts; it still has to get the store's lock.
TimerFires ==
  /\ timer = 0
  /\ timer' = -1 /\ callbacks' = callbacks \cup {"current"}
  /\ UNCHANGED <<run, entries, byCall, streamBytes, ttl, closing, pc, req, gone>>

TimerCallback ==
  \/ /\ "stale" \in callbacks
     /\ callbacks' = callbacks \ {"stale"}
     /\ UNCHANGED <<run, entries, byCall, streamBytes, ttl, timer, closing, pc, req, gone>>
  \/ /\ callbacks = {"current"} /\ callbacks' = {}
     /\ removeLocked(Expired(ttl)) /\ closing' = closing \cup Expired(ttl)
     /\ timer' = Earliest(ttl)
     /\ UNCHANGED <<ttl, pc, req, gone>>

\* The goroutine sweepLocked started for the run.
CloseSwept(r) ==
  /\ r \in closing /\ closing' = closing \ {r}
  /\ UNCHANGED <<entries, byCall, streamBytes, ttl, timer, callbacks, pc, req, gone>>
  /\ run' = Collected(Closed({r}))

-----------------------------------------------------------------------------
(* One client request. *)

Goes(c, to, locals) == pc' = [pc EXCEPT ![c] = to] /\ req' = [req EXCEPT ![c] = locals]
Ends(c)             == Goes(c, "idle", NoReq) /\ gone' = [gone EXCEPT ![c] = FALSE]

\* A request with the tool results its history carries, in message order.
\* Whether its translation is a resume action depends on its last message.
Arrive(c, ids, resume) ==
  /\ pc[c] = "idle" /\ (resume => ids # <<>>)
  /\ Goes(c, IF ids = <<>> THEN "open" ELSE "lookup", [NoReq EXCEPT !.ids = ids, !.resume = resume])
  /\ UNCHANGED <<run, store, gone>>

\* findByToolTail: sweep, then the run that owns the last id in this scope is
\* taken out of the store, with the trailing ids it owns.
findByToolTail(c) ==
  /\ pc[c] = "lookup"
  /\ LET swept    == Expired(ttl)
         ids      == req[c].ids
         n        == Len(ids)
         at(i)    == Unindexed(swept)[<<ScopeOf[c], ids[i]>>]
         found    == at(n)
         tail     == {ids[i] : i \in {k \in 1 .. n : \A j \in k .. n : at(j) = found}}
     IN /\ removeLocked(swept \cup ({found} \ {NoRun}))
        /\ closing' = closing \cup swept
        /\ \/ found = NoRun /\ Goes(c, "open", [req[c] EXCEPT !.ids = <<>>])
           \/ found # NoRun /\ Goes(c, "resume", [req[c] EXCEPT !.ids = <<>>, !.run = found, !.tail = tail])
  /\ rearmLocked(ttl)
  /\ UNCHANGED <<ttl, gone>>

\* The taken run died since: the request starts a fresh one instead.
ParkedDied(c) ==
  /\ pc[c] = "resume" /\ run[req[c].run].closed
  /\ Goes(c, "open", [req[c] EXCEPT !.run = NoRun, !.tail = {}])
  /\ UNCHANGED <<store, gone>>
  /\ run' = Collected(run)

\* resumeTurn up to its drive: the idle bound and the end marker are restored
\* before the results are written; a failed write has already taken its call.
\* A resumed turn is not a resume action of its own: no void is seen in it.
MutantStaysPaused(c, taken, fails) ==
  /\ pc[c] = "resume" /\ ~run[req[c].run].closed /\ taken = req[c].tail /\ ~fails
  /\ run' = [run EXCEPT ![req[c].run].turnEnded = FALSE, ![req[c].run].pending = @ \ taken]
  /\ Goes(c, "drive", [req[c] EXCEPT !.tail = {}, !.resume = FALSE])
  /\ UNCHANGED <<store, gone>>

resumeTurn(c, taken, fails) ==
  /\ pc[c] = "resume"
  /\ LET r == req[c].run
         refused == run[r].closed \/ ~(req[c].tail \subseteq run[r].pending)
         errored == Goes(c, "finish", [req[c] EXCEPT !.tail = {}, !.outcome = "errored"])
         resumed(x) == [x EXCEPT !.paused = FALSE, !.armed = TRUE, !.turnEnded = FALSE, !.pending = @ \ taken]
     IN \/ refused /\ taken = {} /\ fails /\ errored /\ UNCHANGED run
        \/ /\ ~refused
           /\ run' = [run EXCEPT ![r] = resumed(@)]
           /\ \/ taken = req[c].tail /\ ~fails /\ Goes(c, "drive", [req[c] EXCEPT !.tail = {}, !.resume = FALSE])
              \/ fails /\ errored
  /\ UNCHANGED <<store, gone>>

\* openCursorHTTP and startCursorRun: a fresh run and its pump; or the open
\* fails and the request is answered with an error.
Opens(c, r) ==
  /\ pc[c] = "open" /\ run[r].pump = "ended" /\ run[r].closed /\ ~Parked(r) /\ Holders(r) = {} /\ r \notin closing
  /\ run' = [run EXCEPT ![r] = ReadsOn([NoneRun EXCEPT !.closed = FALSE, !.owner = ScopeOf[c]])]
  /\ Goes(c, "drive", [req[c] EXCEPT !.run = r])
  /\ UNCHANGED <<store, gone>>

OpenFails(c) == pc[c] = "open" /\ Ends(c) /\ UNCHANGED <<run, store>>

\* activeTurn: the request's context is cancelled while it drives its run.
Cancel(c) ==
  /\ pc[c] = "drive" /\ ~gone[c]
  /\ gone' = [gone EXCEPT ![c] = TRUE]
  /\ run' = Closed({req[c].run})
  /\ UNCHANGED <<store, pc, req>>

\* The turn is over: a cancelled request's turn is errored whatever it was.
TurnOver(c, locals, outcome) ==
  Goes(c, "finish", [locals EXCEPT !.outcome = IF gone[c] THEN "errored" ELSE outcome])

\* runTurn: one event.  A call already answered or already surfaced is
\* skipped; a failed write to the client ends the turn.
TurnEvent(c, writes) ==
  /\ pc[c] = "drive" /\ run[req[c].run].events # <<>>
  /\ LET r     == req[c].run
         ev    == Head(run[r].events)
         skip  == ev \in CallIds /\ (ev \notin run[r].pending \/ ev \in req[c].calls)
         shown == [req[c] EXCEPT !.visible = TRUE, !.calls = @ \cup ({ev} \cap CallIds)]
     IN /\ run' = [run EXCEPT ![r].events = Tail(@), ![r].queued = @ - 1]
        /\ \/ ev = "done" /\ writes /\ TurnOver(c, req[c], "finished")
           \/ ev = "err" /\ writes /\ TurnOver(c, req[c], "errored")
           \/ skip /\ writes /\ UNCHANGED <<pc, req>>
           \/ ev \notin {"done", "err"} /\ ~skip /\ writes /\ Goes(c, "drive", shown)
           \/ ev \notin {"done", "err"} /\ ~skip /\ ~writes /\ TurnOver(c, shown, "errored")
  /\ UNCHANGED <<store, gone>>

\* runTurn: the settle window after a call ran out and nothing is queued; a
\* parked run's idle bound is paused (finish).
TurnSettles(c) ==
  /\ pc[c] = "drive" /\ req[c].calls # {} /\ run[req[c].run].events = <<>>
  /\ TurnOver(c, req[c], "parked")
  /\ run' = [run EXCEPT ![req[c].run].paused = TRUE, ![req[c].run].armed = FALSE]
  /\ UNCHANGED <<store, gone>>

\* runTurn: the pump is gone and every queued event was seen.
TurnStreamClosed(c) ==
  /\ pc[c] = "drive" /\ run[req[c].run].pump = "ended" /\ run[req[c].run].events = <<>>
  /\ TurnOver(c, req[c], "errored")
  /\ UNCHANGED <<run, store, gone>>

\* cursorVoidTurn, and whether a re-ask is left.
Void(c)   == req[c].resume /\ req[c].outcome = "finished" /\ ~req[c].visible
Reasks(c) == Void(c) /\ QualityRetries /\ ~req[c].reasked

\* A re-ask drives a fresh run, its message stated as a user's turn.
openCursorRun(c) == Goes(c, "open", [NoReq EXCEPT !.resume = TRUE, !.reasked = TRUE])

\* finishRunTurn and writeRunJSON of a turn that did not park; a void turn is
\* asked again once with a fresh run (reaskAfterVoid).  Their drop finds
\* nothing: a driven run left the store when it was taken (OneDriver).
FinishTurn(c) ==
  /\ pc[c] = "finish" /\ req[c].outcome # "parked"
  /\ \/ Reasks(c) /\ openCursorRun(c) /\ UNCHANGED gone
     \/ ~Reasks(c) /\ Ends(c)
  /\ UNCHANGED store
  /\ run' = Collected(Closed({req[c].run}))

\* parkWith refuses a full store, a dead run, an id already waited for in the
\* scope, and bytes over the budget; it sweeps first.
Parks(r, scope, swept) ==
  /\ run[r].pending # {} /\ ~run[r].closed /\ ~Parked(r)
  /\ Cardinality({x \in Runs : Parked(x)} \ swept) < RunMax
  /\ \A i \in run[r].pending : byCall[<<scope, i>>] \in swept \cup {NoRun}
  /\ Released(swept) + retained(r) <= ParkedLimit

ParkTurn(c) ==
  /\ pc[c] = "finish" /\ req[c].outcome = "parked"
  /\ Ends(c)
  /\ LET r     == req[c].run
         s     == ScopeOf[c]
         swept == Expired(ttl)
         rest  == Unhooked(swept)
     IN /\ closing' = closing \cup swept
        /\ \/ /\ Parks(r, s, swept)
              /\ entries' = [Unlisted(swept) EXCEPT ![r] = [ids |-> run[r].pending, scope |-> s, age |-> 0]]
              /\ byCall' = [k \in Keys |-> IF k[1] = s /\ k[2] \in run[r].pending THEN r ELSE Unindexed(swept)[k]]
              /\ streamBytes' = Released(swept) + retained(r)
              /\ run' = [rest EXCEPT ![r].hook = retained(r)]
           \/ /\ ~Parks(r, s, swept)
              /\ entries' = Unlisted(swept) /\ byCall' = Unindexed(swept) /\ streamBytes' = Released(swept)
              /\ run' = Collected([rest EXCEPT ![r] = Shut(@)])
  /\ rearmLocked(ttl)
  /\ UNCHANGED ttl

-----------------------------------------------------------------------------
Init ==
  /\ run = [r \in Runs |-> NoneRun]
  /\ entries = [r \in Runs |-> NoEntry] /\ byCall = [k \in Keys |-> NoRun]
  /\ streamBytes = 0 /\ ttl \in TTLs /\ timer = -1 /\ callbacks = {} /\ closing = {}
  /\ pc = [c \in Clients |-> "idle"] /\ req = [c \in Clients |-> NoReq]
  /\ gone = [c \in Clients |-> FALSE]

Requests == UNION {[1 .. n -> CallIds] : n \in 0 .. MaxIds}

Turn(c) ==
  \/ findByToolTail(c) \/ ParkedDied(c) \/ resumeTurn(c, req[c].tail, FALSE)
  \/ OpenFails(c) \/ TurnEvent(c, TRUE) \/ TurnSettles(c) \/ TurnStreamClosed(c)
  \/ FinishTurn(c) \/ ParkTurn(c)

Pump(r) == Reserve(r) \/ Send(r) \/ PumpExits(r)

Next ==
  \/ \E c \in Clients :
       \/ Turn(c) \/ Cancel(c) \/ TurnEvent(c, FALSE)
       \/ \E ids \in Requests, resume \in BOOLEAN : Arrive(c, ids, resume)
       \/ \E taken \in SUBSET req[c].tail : resumeTurn(c, taken, TRUE)
       \/ \E r \in Runs : Opens(c, r)
  \/ \E r \in Runs :
       \/ Pump(r) \/ CloseSwept(r) \/ IdleTimeout(r) \/ ReadCut(r) \/ ReadFrame(r)
       \/ \E id \in CallIds : addPending(r, id)
  \/ \E t \in TTLs : UpdateTTL(t)
  \/ Tick \/ TimerFires \/ TimerCallback

Spec == Init /\ [][Next]_vars

(***************************************************************************)
(* Fairness: the Go scheduler runs the request's, the pump's and the       *)
(* store's goroutines, the timer goes off, and the transport's idle bound  *)
(* ends a read nobody paused.  Nothing is assumed of upstream or client.   *)
(***************************************************************************)
Fairness ==
  /\ \A c \in Clients : WF_vars(Turn(c))
  /\ \A r \in Runs : WF_vars(Pump(r)) /\ WF_vars(CloseSwept(r))
                     /\ WF_vars(IdleTimeout(r)) /\ WF_vars(ReadCut(r))
  /\ WF_vars(Tick) /\ WF_vars(TimerFires) /\ WF_vars(TimerCallback)

FairSpec == Spec /\ Fairness

-----------------------------------------------------------------------------
(* Properties. *)

\* A run is driven by at most one request, of the scope that opened it, and
\* never while it is parked: no request is answered from another caller's run.
OneDriver ==
  \A r \in Runs :
    /\ Cardinality(Holders(r)) <= 1
    /\ Parked(r) => (Holders(r) = {} /\ entries[r].scope = run[r].owner)
    /\ \A c \in Holders(r) : ScopeOf[c] = run[r].owner

\* No stream is left open without an owner: an open run is parked, driven, or
\* about to be closed by the sweep that removed it.
NoLeakedStream == \A r \in Runs : run[r].closed \/ Parked(r) \/ Holders(r) # {} \/ r \in closing

\* The index names exactly the parked runs' calls, each of them still pending
\* in its run, so a matched result can always be written.
IndexExact ==
  /\ \A k \in Keys, r \in Runs :
       byCall[k] = r <=> (Parked(r) /\ entries[r].scope = k[1] /\ k[2] \in entries[r].ids)
  /\ \A r \in Runs : entries[r].ids \subseteq run[r].pending

\* The aggregate the budget is enforced on is what the parked runs really
\* retain, through growth, shrink, refusal, expiry and resumption.
RetentionExact ==
  /\ \A r \in Runs : run[r].hook = IF Parked(r) THEN retained(r) ELSE -1
  /\ streamBytes = MapThenSumSet(retained, {r \in Runs : Parked(r)})

\* Every parked run has a timer, or a callback of it, that expires it in time.
ExpiryArmed ==
  \A r \in Runs :
    Parked(r) => \/ "current" \in callbacks
                 \/ (timer >= 0 /\ timer <= Max({0, ttl - entries[r].age}))

\* The parked-run store keeps all of these at once: see each part.
RunsSound == OneDriver /\ NoLeakedStream /\ IndexExact /\ RetentionExact /\ ExpiryArmed

\* Every request ends, and every parked run is resumed or closed: the idle
\* bound is in force whenever somebody waits for the run, the store's timer
\* whenever nobody does.
Ended(c) == pc[c] = "idle"
Unparked(r) == ~Parked(r)
RunsSettle == (\A c \in Clients : []<>Ended(c)) /\ (\A r \in Runs : []<>Unparked(r))
=============================================================================
