-------------------------------- MODULE Feed --------------------------------
(***************************************************************************)
(* The dashboard's live feed: the ring with its sequence numbers and feed  *)
(* epoch, the registry of pending requests, the fan-out to a bounded       *)
(* subscriber, the SSE handler, and the page that folds snapshots, records *)
(* and lifecycle events into its rows and resumes at its cursor            *)
(* (internal/metrics/buffer.go, http.go; internal/web/static/js/live.js).  *)
(*                                                                         *)
(* One hold of mu is one step; pub is a publisher between its hold of mu   *)
(* and the end of its hold of subsMu.  Frames on the wire may be lost with *)
(* the connection.  An epoch is a number; a restart starts a new one with  *)
(* sequences from 1.  The page's own eviction, past history_size + 64 rows,*)
(* is not here: no instance has so many.                                   *)
(***************************************************************************)
EXTENDS Naturals, Sequences, FiniteSets, SequencesExt, FiniteSetsExt, Functions

CONSTANTS
    Requests,                \* requests, each begun and finished once
    RingCap,                 \* history_size
    SubCap,                  \* subChanCap
    SnapLimit,               \* rows of a full snapshot, 0 for all
    MaxFaults                \* purges, lost connections, closed feeds, restarts, polls

VARIABLES
    ring,        \* <<[id, seq]>>, oldest first
    nextSeq,
    feedID,      \* epoch
    pend,        \* the pending registry
    revision,    \* pendingRevision
    pub,         \* events a publisher is about to fan out
    srv,         \* the SSE handler
    wire,        \* frames written and not yet read by the page
    page,        \* the page: rows, live rows, cursor, epoch
    source,      \* its EventSource
    boot,        \* its outstanding /metrics/bootstrap request
    finished,    \* requests that have ended
    gone,        \* those whose record is nowhere: purged, or dead with their process
    faults

buffer == <<ring, nextSeq, feedID, pend, revision>>
vars == <<buffer, pub, srv, wire, page, source, boot, finished, gone, faults>>

\* What a reader of a closed channel sees after the buffered events.
Retired == [kind |-> "closed", id |-> "none", seq |-> 0, feed |-> 0, revision |-> 0]
NoHandler == [at |-> "none", done |-> FALSE, feed |-> 0, sub |-> <<>>, live |-> <<>>]
NoSource == [at |-> "none", feed |-> 0, since |-> 0, last |-> 0]
NoBoot == [at |-> "none", mode |-> "full", reply |-> <<>>]
IdsOf(seq) == {seq[i].id : i \in DOMAIN seq}
Latest == IF ring = <<>> THEN 0 ELSE Last(ring).seq

Init ==
    /\ ring = <<>> /\ nextSeq = 0 /\ feedID = 1 /\ pend = {} /\ revision = 0
    /\ pub = <<>> /\ srv = NoHandler /\ wire = <<>>
    /\ page = [feed |-> 0, rows |-> {}, live |-> {}, seq |-> 0, revision |-> 0, floor |-> 1]
    /\ source = NoSource /\ boot = [NoBoot EXCEPT !.at = "sent"]
    /\ finished = {} /\ gone = {}
    /\ faults = 0

---------------------------------------------------------------------------
(* Publishers.                                                             *)

Event(kind, r, seq) ==
    [kind |-> kind, id |-> r, seq |-> seq, feed |-> feedID, revision |-> revision']

\* One of the bounded disturbances.
Fault == faults < MaxFaults /\ faults' = faults + 1

\* PublishLive("begin"): registered and announced under one hold of subsMu.
PublishLive(r) ==
    /\ pub = <<>> /\ r \notin pend \union finished
    /\ pend' = pend \union {r} /\ revision' = revision + 1
    /\ pub' = <<Event("begin", r, 0)>>
    /\ UNCHANGED <<ring, nextSeq, feedID, srv, wire, page, source, boot, finished, gone, faults>>

pushLocked(r) ==
    LET grown == Append(ring, [id |-> r, seq |-> nextSeq + 1])
    IN  /\ nextSeq' = nextSeq + 1
        /\ ring' = IF Len(grown) > RingCap THEN Tail(grown) ELSE grown

\* Record: ring, registry and revision move together.
Record(r) ==
    /\ pub = <<>> /\ r \in pend
    /\ pushLocked(r)
    /\ pend' = pend \ {r} /\ revision' = revision + 1
    /\ pub' = <<Event("record", r, nextSeq'), Event("end", r, 0)>>
    /\ finished' = finished \union {r}
    /\ UNCHANGED <<feedID, srv, wire, page, source, boot, gone, faults>>

\* MutantDropsOldest: a full subscriber loses an event and stays.
MutantDropsOldest(chan, ev) ==
    IF Len(chan) < SubCap THEN Append(chan, ev) ELSE Append(Tail(chan), ev)

\* fanout: a full subscriber is closed; what it holds is still read.
Offer(chan, ev) ==
    CASE chan # <<>> /\ Last(chan).kind = "closed" -> chan
      [] Len(chan) < SubCap -> Append(chan, ev)
      [] OTHER -> Append(chan, Retired)

Subscribed == srv.at \in {"half", "subscribed", "streaming"}

fanout ==
    /\ pub # <<>>
    /\ pub' = Tail(pub)
    /\ srv' = LET ev == Head(pub)
              IN  IF ev.kind = "record"
                    THEN IF Subscribed THEN [srv EXCEPT !.sub = Offer(@, ev)] ELSE srv
                    ELSE IF srv.at \in {"subscribed", "streaming"}
                           THEN [srv EXCEPT !.live = Offer(@, ev)] ELSE srv
    /\ UNCHANGED <<buffer, wire, page, source, boot, finished, gone, faults>>

\* invalidateFeedLocked: a new epoch, and every stream of the old one is woken.
Woken == [srv EXCEPT !.done = srv.at # "none"]

RemoveThrough(match) ==
    /\ Fault
    /\ ring' = SelectSeq(ring, LAMBDA e : e.id \notin match)
    /\ gone' = gone \union (match \intersect finished)
    /\ feedID' = feedID + 1
    /\ srv' = Woken
    /\ UNCHANGED <<nextSeq, pend, revision, pub, wire, page, source, boot, finished>>

CloseFeeds ==
    /\ Fault
    /\ srv' = Woken
    /\ UNCHANGED <<buffer, pub, wire, page, source, boot, finished, gone>>

\* The process is replaced: the ring is backfilled, the epoch and sequences are new.
Restart ==
    /\ Fault /\ pub = <<>>
    /\ ring' = [i \in DOMAIN ring |-> [id |-> ring[i].id, seq |-> i]]
    /\ nextSeq' = Len(ring) /\ feedID' = feedID + 1
    /\ pend' = {} /\ revision' = 0
    /\ finished' = finished \union pend /\ gone' = gone \union pend
    /\ srv' = NoHandler /\ wire' = <<>>
    /\ source' = [source EXCEPT !.at = IF @ = "open" THEN "connecting" ELSE @]
    /\ boot' = [boot EXCEPT !.at = IF @ = "none" THEN @ ELSE "failed"]
    /\ UNCHANGED <<pub, page>>

---------------------------------------------------------------------------
(* The handler.                                                            *)

\* cursorParam: the epoch pin first, then Last-Event-ID, then since.
cursorParam(pin, last, since) ==
    IF pin # 0 /\ pin # feedID THEN 0 ELSE IF last # 0 THEN last ELSE since

LastN(s, n) == SubSeq(s, Len(s) - n + 1, Len(s))

\* snapshotSinceLocked: a cursor out of the ring's range gets the newest rows.
snapshotSince(since) ==
    LET oldest == IF ring = <<>> THEN 0 ELSE Head(ring).seq
        full == since = 0 \/ since < oldest \/ since > Latest
        limit == IF SnapLimit > 0 THEN SnapLimit ELSE Len(ring)
        window == IF full THEN LastN(ring, Min({limit, Len(ring)}))
                  ELSE SelectSeq(ring, LAMBDA e : e.seq > since)
    IN  [kind |-> "snapshot", rows |-> IdsOf(window), live |-> pend, seq |-> Latest,
         revision |-> revision, feed |-> feedID, incremental |-> ~full,
         floor |-> IF window = <<>> THEN Latest + 1 ELSE Head(window).seq]

feedChan ==
    /\ source.at = "connecting" /\ srv.at = "none"
    /\ srv' = [NoHandler EXCEPT !.at = "entered"]
    /\ source' = [source EXCEPT !.at = "open"]
    /\ UNCHANGED <<buffer, pub, wire, page, boot, finished, gone, faults>>

Subscribe ==
    /\ srv.at = "entered" /\ pub = <<>>
    /\ srv' = [srv EXCEPT !.at = "half"]
    /\ UNCHANGED <<buffer, pub, wire, page, source, boot, finished, gone, faults>>

SubscribeLive ==
    /\ srv.at = "half" /\ pub = <<>>
    /\ srv' = [srv EXCEPT !.at = "subscribed"]
    /\ UNCHANGED <<buffer, pub, wire, page, source, boot, finished, gone, faults>>

SnapshotRequest ==
    /\ srv.at = "subscribed"
    /\ srv' = [srv EXCEPT !.at = "streaming", !.feed = feedID]
    /\ wire' = Append(wire, snapshotSince(cursorParam(source.feed, source.last, source.since)))
    /\ UNCHANGED <<buffer, pub, page, source, boot, finished, gone, faults>>

\* One event of either channel; one of another epoch is skipped.
Forward(chan) ==
    /\ srv[chan] # <<>> /\ Head(srv[chan]).kind # "closed"
    /\ srv' = [srv EXCEPT ![chan] = Tail(@)]
    /\ wire' = IF Head(srv[chan]).feed = srv.feed THEN Append(wire, Head(srv[chan])) ELSE wire

\* MutantSpinsOnClosed: a retired channel is read as if it were merely empty.
MutantSpinsOnClosed ==
    /\ srv.done
    /\ srv' = [NoHandler EXCEPT !.at = "ended"]
    /\ wire' = IF feedID # srv.feed THEN Append(wire, [kind |-> "reset", feed |-> feedID])
               ELSE wire

\* A retired channel is read to its end first; a purge is announced on the way out.
HandlerReturns ==
    /\ \/ srv.done
       \/ \E c \in {"sub", "live"} : srv[c] # <<>> /\ Head(srv[c]).kind = "closed"
    /\ srv' = [NoHandler EXCEPT !.at = "ended"]
    /\ wire' = IF feedID # srv.feed THEN Append(wire, [kind |-> "reset", feed |-> feedID])
               ELSE wire

HandleStream ==
    /\ srv.at = "streaming"
    /\ Forward("sub") \/ Forward("live") \/ HandlerReturns
    /\ UNCHANGED <<buffer, pub, page, source, boot, finished, gone, faults>>

---------------------------------------------------------------------------
(* The page.                                                               *)

startStream(since, feed) ==
    [at |-> "connecting", feed |-> feed, since |-> since, last |-> 0]

\* The page abandons its stream; the handler sees its context end.
Hangup == srv' = NoHandler /\ wire' = <<>>

Lags(d) == d.feed = page.feed /\ ~d.incremental
           /\ (d.seq < page.seq \/ d.revision < page.revision)

\* MutantMergesAlways: a snapshot of a new epoch is merged like a delta.
MutantMergesAlways(d) ==
    [feed |-> d.feed, rows |-> page.rows \union d.rows,
     live |-> (page.live \union d.live) \ (page.rows \union d.rows), seq |-> d.seq,
     revision |-> d.revision, floor |-> d.floor]

\* applySnapshotPayload, its folding part.
Folded(d) ==
    LET changed == d.feed # page.feed
        finals == IF ~changed /\ d.incremental THEN page.rows \union d.rows ELSE d.rows
        lives == IF ~changed /\ d.incremental THEN page.live \union d.live ELSE d.live
    IN  [feed |-> d.feed, rows |-> finals, live |-> lives \ finals,
         seq |-> IF changed THEN d.seq ELSE Max({page.seq, d.seq}),
         revision |-> IF changed THEN d.revision ELSE Max({page.revision, d.revision}),
         floor |-> IF ~changed /\ d.incremental THEN page.floor ELSE d.floor]

FullBoot == boot' = [NoBoot EXCEPT !.at = "sent"] /\ source' = NoSource /\ Hangup

\* A snapshot of another epoch supersedes the bootstrap in flight and asks for the other
\* surfaces of the new process ("none": the rows are here already).
ApplySnapshot ==
    LET d == Head(wire)
    IN  IF Lags(d) THEN FullBoot /\ UNCHANGED page
        ELSE /\ page' = Folded(d)
             /\ IF d.feed # page.feed
                  THEN source' = startStream(page'.seq, page'.feed) /\ Hangup
                  ELSE wire' = Tail(wire) /\ UNCHANGED <<source, srv>>
             /\ IF d.feed # page.feed /\ page.feed # 0
                  THEN boot' = [at |-> "sent", mode |-> "none", reply |-> <<>>]
                  ELSE UNCHANGED boot

\* The id: field of a record is the browser's cursor; a lifecycle event has none.
ApplyEvent ==
    LET e == Head(wire)
        mine == source.feed = 0 \/ source.feed = page.feed
        final == e.kind \in {"record", "end"}
    IN  /\ page' = IF ~mine THEN page
                   ELSE [page EXCEPT !.rows = IF final THEN @ \union {e.id} ELSE @,
                           !.live = IF final THEN @ \ {e.id}
                                    ELSE @ \union ({e.id} \ page.rows),
                           !.seq = Max({@, e.seq}),
                           !.revision = IF e.kind = "record" THEN @ ELSE Max({@, e.revision})]
        /\ source' = IF e.kind = "record" THEN [source EXCEPT !.last = e.seq] ELSE source
        /\ wire' = Tail(wire) /\ UNCHANGED <<boot, srv>>

ApplyReset ==
    IF Head(wire).feed = page.feed
      THEN wire' = Tail(wire) /\ UNCHANGED <<source, boot, srv, page>>
      ELSE FullBoot /\ UNCHANGED page

ReadFrame ==
    /\ source.at = "open" /\ wire # <<>>
    /\ CASE Head(wire).kind = "snapshot" -> ApplySnapshot
         [] Head(wire).kind = "reset" -> ApplyReset
         [] OTHER -> ApplyEvent
    /\ UNCHANGED <<buffer, pub, finished, gone, faults>>

\* The browser reconnects to the same URL with the last id it has consumed.
Reconnects ==
    /\ source.at = "open"
    /\ \/ srv.at = "ended" /\ wire = <<>> /\ UNCHANGED faults
       \/ Fault
    /\ source' = [source EXCEPT !.at = "connecting"]
    /\ Hangup
    /\ UNCHANGED <<buffer, pub, page, boot, finished, gone>>

\* fetchBootstrap("resume"), the tick, supersedes any bootstrap but a full one, which is
\* sent by what needs it.
Polls ==
    /\ boot.at = "none" \/ boot.mode # "full"
    /\ page.feed # 0 /\ page.seq > 0
    /\ Fault
    /\ boot' = [at |-> "sent", mode |-> "resume", reply |-> <<>>]
    /\ UNCHANGED <<buffer, pub, srv, wire, page, source, finished, gone>>

BootServed ==
    /\ boot.at = "sent"
    /\ boot' = [boot EXCEPT !.at = "answered", !.reply =
         <<snapshotSince(IF boot.mode = "resume" THEN cursorParam(page.feed, 0, page.seq) ELSE 0)>>]
    /\ UNCHANGED <<buffer, pub, srv, wire, page, source, finished, gone, faults>>

\* A full reply to a resume, and one that lags, is captured again.
BootApplied ==
    /\ boot.at = "answered"
    /\ LET d == boot.reply[1]
       IN  IF Lags(d) \/ (boot.mode = "resume" /\ ~d.incremental /\ source.at # "none")
             THEN FullBoot /\ UNCHANGED page
             ELSE /\ page' = IF boot.mode = "none" THEN page ELSE Folded(d)
                  /\ boot' = NoBoot
                  /\ IF boot.mode = "full" \/ (page'.feed # page.feed /\ source.at # "none")
                       THEN source' = startStream(page'.seq, page'.feed) /\ Hangup
                       ELSE UNCHANGED <<source, srv, wire>>
    /\ UNCHANGED <<buffer, pub, finished, gone, faults>>

BootFails ==
    /\ boot.at = "failed"
    /\ boot' = NoBoot
    /\ IF boot.mode = "full" THEN source' = startStream(0, page.feed) /\ Hangup
       ELSE UNCHANGED <<source, srv, wire>>
    /\ UNCHANGED <<buffer, pub, page, finished, gone, faults>>

---------------------------------------------------------------------------
ServerStep == fanout \/ feedChan \/ Subscribe \/ SubscribeLive \/ SnapshotRequest \/ HandleStream
PageStep == ReadFrame \/ Reconnects \/ BootServed \/ BootApplied \/ BootFails

Next ==
    \/ \E r \in Requests : PublishLive(r) \/ Record(r)
    \/ \E match \in SUBSET Requests : RemoveThrough(match)
    \/ CloseFeeds \/ Restart \/ Polls
    \/ ServerStep \/ PageStep

Spec == Init /\ [][Next]_vars

Fairness == WF_vars(ServerStep) /\ WF_vars(PageStep)

---------------------------------------------------------------------------
(* Properties.                                                             *)

\* A cursor never passes a record the page does not have (buffer.go: fanout;
\* http.go: SnapshotRequest): in its own epoch, every record of the ring up to the
\* page's cursor is one of its rows, unless the snapshot limit left it to the archive.
CursorHasNoGap ==
    page.feed = feedID =>
        \A i \in DOMAIN ring :
            ring[i].seq <= Max({page.seq, source.last}) /\ ring[i].seq >= page.floor
                => ring[i].id \in page.rows

\* When every event has arrived, page and server agree (live.js: applySnapshotPayload,
\* http.go): each record of the ring in the page's window is shown, none is shown that a
\* purge deleted or that was never recorded, though a row the ring has since evicted may
\* stay, and the rows shown as live are the registry's.
Settled ==
    /\ source.at = "open" /\ srv.at = "streaming" /\ ~srv.done /\ boot.at = "none"
    /\ pub = <<>> /\ wire = <<>> /\ srv.sub = <<>> /\ srv.live = <<>>
PageAgrees ==
    Settled =>
        /\ page.feed = feedID
        /\ \A i \in DOMAIN ring : ring[i].seq >= page.floor => ring[i].id \in page.rows
        /\ page.rows \subseteq finished \ gone
        /\ page.live = pend

\* The page settles: retirements, purges, lost connections and restarts all end in a
\* stream of the current epoch.
PageSettles == []<>Settled
=============================================================================
