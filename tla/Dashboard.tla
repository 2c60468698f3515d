----------------------------- MODULE Dashboard -----------------------------
(***************************************************************************)
(* The dashboard's two full-history answers: the decoded projection of the *)
(* database that every view shares and one builder at a time extends, the  *)
(* last-result memo with its one flight, and the read that joins the       *)
(* pending registry, the ring and the projection without counting a        *)
(* request twice (internal/web: aggregate_cache.go, aggregate_projection.  *)
(* go, aggregate.go, aggregate_explorer.go, aggregate_chart.go; internal/  *)
(* storage/store_projection.go).                                           *)
(*                                                                         *)
(* A row is the id of its request; what a fold retains of it is that it    *)
(* was counted and under which error vocabulary.  The explorer counts all  *)
(* rows, the chart the finalized rows of a window of the clock, of a range *)
(* or of all history.  One hold of a lock, one snapshot and one            *)
(* transaction are each one step.  Rows leave the database by this         *)
(* process's purge only, and never before their record reached the ring.   *)
(***************************************************************************)
EXTENDS Integers, Sequences, FiniteSets, TLC, SequencesExt, FiniteSetsExt, Functions

CONSTANTS
    Requests,      \* requests of this process, each begun and finished once
    Foreign,       \* rows another process of a restart commits
    Readers,       \* dashboard requests in flight at once
    Views,         \* of "explorer", "chart", "all" and "range"
    Window,        \* the chart's window
    Step,          \* the width of a chart's bucket, one for every span
    RangeStart, RangeEnd, \* the range asked for
    RingCap, MaxClock, MaxAsks, MaxPurges, MaxInstalls, MaxFaults

Ids == Requests \union Foreign
Nobody == "nobody"
Surfaces == {"explorer", "chart"}
Surface(view) == IF view = "explorer" THEN "explorer" ELSE "chart"

VARIABLES
    clock, start,               \* start: the clock when a request began
    pend, pendingRevision, ring, finalRevision,
    queue, accounting,          \* accepted by the writer; committed and not yet marked
    rows, epoch, version,       \* the database: rowids, rewrites, PRAGMA data_version
    written,                    \* the store's written ids
    vocabulary, classRevision, installing,
    data,                       \* historyProjection.data
    building,                   \* the reader that owns the build
    memo,                       \* aggregateMemo by surface: entry and flight
    reader,                     \* one AggAPI call each
    purging,                    \* ids deleted and still in the ring
    \* For the properties: rows each call could see all along, and at any time.
    throughout, ever,
    asks, purges, installs, faults

buffer == <<pend, pendingRevision, ring, finalRevision>>
store == <<queue, accounting, rows, epoch, version, written>>
classes == <<vocabulary, classRevision, installing>>
history == <<throughout, ever>>
vars == <<clock, start, buffer, store, classes, data, building, memo, reader, purging,
          history, asks, purges, installs, faults>>

HighRowID == Max({rows[i] : i \in DOMAIN rows} \union {0})
NoCursor == [ready |-> FALSE, epoch |-> 0, high |-> 0]
NoKey == [view |-> "none", to |-> 0, classes |-> 0, finalized |-> 0, pending |-> 0, database |-> 0]
\* chartMemoPayload: the counts, the bucket geometry and All's raw start.
NoValue == [counts |-> [i \in Ids |-> 0], flags |-> {}, edges |-> <<0, 0>>, raw |-> 0]
NoEntry == [key |-> NoKey, value |-> NoValue]
NoScan == [full |-> FALSE, found |-> {}, cursor |-> NoCursor, flag |-> 0]
Idle == [at |-> "idle", view |-> "none", now |-> 0, key |-> NoKey, cacheable |-> FALSE,
         flight |-> FALSE, pinned |-> FALSE, pend |-> {}, ring |-> {}, version |-> 0, classes |-> 0,
         scan |-> NoScan, value |-> NoValue]

Init ==
    /\ clock = 1 /\ start = [i \in Ids |-> 0]
    /\ pend = {} /\ pendingRevision = 0 /\ ring = <<>> /\ finalRevision = 0
    /\ queue = <<>> /\ accounting = {} /\ rows = <<>> /\ epoch = 0 /\ version = 1
    /\ written = {}
    /\ vocabulary = 0 /\ classRevision = 0 /\ installing = FALSE
    /\ data = [rows |-> <<>>, cursor |-> NoCursor, version |-> 0, classes |-> 0]
    /\ building = Nobody
    /\ memo = [s \in Surfaces |-> [entry |-> NoEntry, owner |-> Nobody, key |-> NoKey]]
    /\ reader = [q \in Readers |-> Idle] /\ purging = {}
    /\ throughout = [q \in Readers |-> {}] /\ ever = [q \in Readers |-> {}]
    /\ asks = 0 /\ purges = 0 /\ installs = 0 /\ faults = 0

---------------------------------------------------------------------------
(* What there is to be seen.                                               *)

Finalized == DOMAIN rows \union (Range(ring) \ written)
\* chartWindowEdges: the raw start is floored onto a bucket; <<from, buckets>>.
chartWindowEdges(now, raw) ==
    LET from == raw - (raw % Step) IN <<from, Max({1, (now - from + Step - 1) \div Step})>>

\* HandleAggChart: a range ends at the serve clock at the latest.
ClampedTo(now) == Min({RangeEnd, now})

\* Where the rows of a view start: everything, or the first bucket's edge.
Since(view, now) ==
    CASE view \in {"explorer", "all"} -> 0
      [] view = "chart" -> chartWindowEdges(now, now - Window)[1]
      [] view = "range" -> chartWindowEdges(ClampedTo(now), RangeStart)[1]

\* A range has an end; a window counts what starts after its clock as well.
InView(i, view, from, now) == start[i] >= from /\ (view = "range" => start[i] < ClampedTo(now))

Visible(view, now) ==
    IF view = "explorer" THEN Finalized \union pend
    ELSE {i \in Finalized : InView(i, view, Since(view, now), now)}

---------------------------------------------------------------------------
(* The process around the dashboard.                                       *)

Quiet == UNCHANGED <<data, building, memo, reader, asks, faults>>

Tick ==
    /\ clock < MaxClock /\ clock' = clock + 1
    /\ UNCHANGED <<start, buffer, store, classes, purging, purges, installs>> /\ Quiet

PublishLive(i) ==
    /\ i \notin pend \union Range(ring) \union Range(queue) \union accounting \union DOMAIN rows
    /\ start[i] = 0
    /\ pend' = pend \union {i} /\ pendingRevision' = pendingRevision + 1
    /\ start' = [start EXCEPT ![i] = clock]
    /\ UNCHANGED <<clock, ring, finalRevision, store, classes, purging, purges, installs>>
    /\ Quiet

\* The writer accepts the record first, and the buffer publishes it then.
Accepted == Range(queue) \union accounting \union DOMAIN rows

Enqueue(i) ==
    /\ i \in pend \ Accepted
    /\ queue' = Append(queue, i)
    /\ UNCHANGED <<clock, start, buffer, accounting, rows, epoch, version, written, classes,
                   purging, purges, installs>>
    /\ Quiet

Record(i) ==
    /\ i \in pend \intersect Accepted
    /\ pend' = pend \ {i} /\ pendingRevision' = pendingRevision + 1
    /\ ring' = IF Len(ring) < RingCap THEN Append(ring, i) ELSE Append(Tail(ring), i)
    /\ finalRevision' = finalRevision + 1
    /\ UNCHANGED <<clock, start, store, classes, purging, purges, installs>>
    /\ Quiet

\* One committed batch; the insert trigger keeps the high-water mark.
Commit ==
    /\ queue # <<>> /\ accounting = {} /\ purging = {}
    /\ rows' = rows @@ (Head(queue) :> HighRowID + 1)
    /\ queue' = Tail(queue) /\ accounting' = {Head(queue)}
    /\ version' = version + 1
    /\ UNCHANGED <<clock, start, buffer, epoch, written, classes, purging, purges, installs>>
    /\ Quiet

Account ==
    /\ accounting # {}
    /\ written' = written \union accounting /\ accounting' = {}
    /\ UNCHANGED <<clock, start, buffer, queue, rows, epoch, version, classes, purging,
                   purges, installs>>
    /\ Quiet

ForeignCommit(i) ==
    /\ i \notin DOMAIN rows /\ start[i] = 0
    /\ rows' = rows @@ (i :> HighRowID + 1) /\ version' = version + 1
    /\ start' = [start EXCEPT ![i] = clock]
    /\ UNCHANGED <<clock, buffer, queue, accounting, epoch, written, classes, purging,
                   purges, installs>>
    /\ Quiet

\* The delete trigger moves the epoch; the mark falls to the largest row left.
\* A deleted row's rowid may be given out again.
projectionTriggers(i) ==
    /\ purges < MaxPurges /\ queue = <<>> /\ accounting = {} /\ purging = {} /\ i \in DOMAIN rows \ pend
    /\ purges' = purges + 1
    /\ rows' = [r \in DOMAIN rows \ {i} |-> rows[r]]
    /\ epoch' = epoch + 1 /\ version' = version + 1
    /\ purging' = {i}
    /\ UNCHANGED <<clock, start, buffer, queue, accounting, written, classes, installs>>
    /\ Quiet

RemoveThrough ==
    /\ purging # {} /\ purging' = {}
    /\ ring' = SelectSeq(ring, LAMBDA i : i \notin purging)
    /\ finalRevision' = IF Range(ring) \intersect purging # {} THEN finalRevision + 1 ELSE finalRevision
    /\ UNCHANGED <<clock, start, pend, pendingRevision, store, classes, purges, installs>>
    /\ Quiet

\* The vocabulary is swapped, then its revision moves.
InstallClassExtensions ==
    /\ \/ /\ ~installing /\ installs < MaxInstalls
          /\ installing' = TRUE /\ vocabulary' = 1 - vocabulary /\ installs' = installs + 1
          /\ UNCHANGED classRevision
       \/ /\ installing /\ installing' = FALSE /\ classRevision' = classRevision + 1
          /\ UNCHANGED <<vocabulary, installs>>
    /\ UNCHANGED <<clock, start, buffer, store, purging, purges>> /\ Quiet

---------------------------------------------------------------------------
(* A call: key, memo, snapshots.                                           *)

World == <<clock, start, buffer, store, classes, purging, purges, installs>>
Goes(q, at) == reader' = [reader EXCEPT ![q].at = at]
Revisions(view, now) ==
    [view |-> view, to |-> IF view = "range" THEN ClampedTo(now) ELSE 0, classes |-> classRevision, finalized |-> finalRevision,
     pending |-> IF view = "explorer" THEN pendingRevision ELSE 0, database |-> 0]

\* chart and explorer up to Buffer.Revisions.
Ask(q, view) ==
    /\ reader[q].at = "idle" /\ asks < MaxAsks
    /\ view = "range" => RangeStart < ClampedTo(clock)
    /\ asks' = asks + 1
    /\ reader' = [reader EXCEPT ![q] =
                    [Idle EXCEPT !.at = "key", !.view = view, !.now = clock,
                                 !.key = Revisions(view, clock)]]
    /\ UNCHANGED <<World, data, building, memo, faults>>

\* aggregateKey: without the database's version nothing may be reused.
aggregateKey(q) ==
    /\ reader[q].at = "key"
    /\ \/ /\ reader' = [reader EXCEPT ![q].key.database = version, ![q].at = "begin",
                                      ![q].cacheable = TRUE]
          /\ UNCHANGED faults
       \/ /\ faults < MaxFaults /\ faults' = faults + 1
          /\ Goes(q, "cold")
    /\ UNCHANGED <<World, data, building, memo, asks>>

\* aggregateMemo.begin: the last result, the flight of the same key to follow, a
\* flight of one's own, or neither because another key has the slot.
begin(q) ==
    LET slot == memo[Surface(reader[q].view)]
    IN  CASE slot.entry.key = reader[q].key -> "hit"
          [] slot.entry.key # reader[q].key /\ slot.owner = Nobody -> "fly"
          [] OTHER -> IF slot.key = reader[q].key THEN "follow" ELSE "alone"

Flies(q, surface) ==
    /\ memo' = [memo EXCEPT ![surface].owner = q, ![surface].key = reader[q].key]
    /\ reader' = [reader EXCEPT ![q].at = "cold", ![q].flight = TRUE]

Hits(q, surface) ==
    /\ reader' = [reader EXCEPT ![q].at = "answer", ![q].value = memo[surface].entry.value]
    /\ UNCHANGED memo

Unserved(q) ==
    /\ Goes(q, IF begin(q) = "follow" THEN "follow" ELSE "cold")
    /\ UNCHANGED memo

explorer(q) ==
    /\ reader[q].at = "begin" /\ reader[q].view = "explorer"
    /\ CASE begin(q) = "hit" -> Hits(q, "explorer")
         [] begin(q) = "fly" -> Flies(q, "explorer")
         [] OTHER -> Unserved(q)
    /\ UNCHANGED <<World, data, building, asks, faults>>

\* A window starts its width before the clock; All where its first request
\* does, and an empty All at the clock.
rawFrom(q, value) ==
    CASE reader[q].view = "chart" -> reader[q].now - Window
      [] reader[q].view = "all" -> IF value.counts = NoValue.counts THEN reader[q].now ELSE value.raw

\* chartHit: the entry answers only the clock that gives the same buckets.
chartHit(q) ==
    LET value == memo["chart"].entry.value
    IN  value.edges = chartWindowEdges(reader[q].now, rawFrom(q, value))

\* The entry of another clock's buckets still pins where All starts.
Pins(q, value) ==
    /\ reader' = [reader EXCEPT ![q].at = "cold", ![q].pinned = TRUE, ![q].value.raw = rawFrom(q, value)]
    /\ UNCHANGED memo

chart(q) ==
    /\ reader[q].at = "begin" /\ reader[q].view \in {"chart", "all"}
    /\ CASE begin(q) = "hit" -> IF chartHit(q) THEN Hits(q, "chart") ELSE Pins(q, memo["chart"].entry.value)
         [] begin(q) = "fly" -> Flies(q, "chart")
         [] OTHER -> Unserved(q)
    /\ UNCHANGED <<World, data, building, asks, faults>>

\* The key of a range has its edges in it.
chartRange(q) ==
    /\ reader[q].at = "begin" /\ reader[q].view = "range"
    /\ CASE begin(q) = "hit" -> Hits(q, "chart")
         [] begin(q) = "fly" -> Flies(q, "chart")
         [] OTHER -> Unserved(q)
    /\ UNCHANGED <<World, data, building, asks, faults>>

\* explorerCold captures the pending registry before everything else.
explorerCold(q) ==
    /\ reader[q].at = "cold" /\ reader[q].view = "explorer"
    /\ reader' = [reader EXCEPT ![q].at = "ring", ![q].pend = pend]
    /\ UNCHANGED <<World, data, building, memo, asks, faults>>

Buckets(q, clamped, raw) ==
    /\ reader' = [reader EXCEPT ![q].at = "ring", ![q].value.raw = raw,
                                ![q].value.edges = chartWindowEdges(clamped, raw)]
    /\ UNCHANGED <<World, data, building, memo, asks, faults>>

\* A chart of unpinned all history finds its start in the fold.
chartCold(q) ==
    /\ reader[q].at = "cold" /\ reader[q].view \in {"chart", "all"}
    /\ Buckets(q, reader[q].now, CASE reader[q].view = "chart" -> reader[q].now - Window
                                   [] reader[q].view = "all" -> reader[q].value.raw)

chartRangeCold(q) ==
    /\ reader[q].at = "cold" /\ reader[q].view = "range"
    /\ Buckets(q, ClampedTo(reader[q].now), RangeStart)

Wants(q, i) == InView(i, reader[q].view, reader[q].value.edges[1], reader[q].now)

\* acquireRing, then the filter against the written ids.
acquireRing(q) ==
    /\ reader[q].at = "ring"
    /\ reader' = [reader EXCEPT ![q].at = "filter",
                                ![q].ring = {i \in Range(ring) : Wants(q, i)}]
    /\ UNCHANGED <<World, data, building, memo, asks, faults>>

FilterUnwritten(q) ==
    /\ reader[q].at = "filter"
    /\ reader' = [reader EXCEPT ![q].at = "refresh", ![q].ring = @ \ written]
    /\ UNCHANGED <<World, data, building, memo, asks, faults>>

---------------------------------------------------------------------------
(* historyProjection.refresh.                                              *)

Current(v, c) == data.cursor.ready /\ data.version = v /\ data.classes = c

\* The freshness witness.  An unknown version fails the call.
refresh(q) ==
    /\ reader[q].at = "refresh"
    /\ reader' = [reader EXCEPT ![q].at = "check", ![q].version = version,
                                ![q].classes = classRevision]
    /\ UNCHANGED <<World, data, building, memo, asks, faults>>

\* Under the lock: current, being built, or this caller's to build.  The version
\* is read again with the build token.
Claim(q) ==
    /\ reader[q].at = "check"
    /\ IF Current(reader[q].version, reader[q].classes)
         THEN Goes(q, "lease") /\ UNCHANGED building
         ELSE IF building # Nobody THEN Goes(q, "wait") /\ UNCHANGED building
         ELSE IF Current(version, classRevision) THEN Goes(q, "lease") /\ UNCHANGED building
         ELSE /\ building' = q
              /\ reader' = [reader EXCEPT ![q].at = "scan", ![q].version = version,
                                          ![q].classes = classRevision]
    /\ UNCHANGED <<World, data, memo, asks, faults>>

StartCursor(q) == IF data.classes # reader[q].classes THEN NoCursor ELSE data.cursor

\* One read transaction: epoch, mark and rows belong together.
streamProjection(q) ==
    /\ reader[q].at = "scan"
    /\ LET from == StartCursor(q)
           next == [ready |-> TRUE, epoch |-> epoch, high |-> HighRowID]
           full == ~from.ready \/ from.epoch # next.epoch \/ from.high > next.high
       IN  reader' = [reader EXCEPT ![q].at = "decode",
                        ![q].scan = [full |-> full, cursor |-> next, flag |-> 0,
                                     found |-> {i \in DOMAIN rows : full \/ rows[i] > from.high}]]
    /\ UNCHANGED <<World, data, building, memo, asks, faults>>

\* scanContrib decodes a row under the vocabulary installed by then.
scanContrib(q) ==
    /\ reader[q].at = "decode"
    /\ reader' = [reader EXCEPT ![q].at = "apply", ![q].scan.flag = vocabulary]
    /\ UNCHANGED <<World, data, building, memo, asks, faults>>

Leased == {q \in Readers : reader[q].at = "merge"}

\* finishBuildLocked: whoever waited looks again.
Woken == [p \in Readers |-> IF reader[p].at = "wait"
                            THEN [reader[p] EXCEPT !.at = "refresh"] ELSE reader[p]]

buildProjection(q) ==
    [rows |-> [i \in reader[q].scan.found |-> reader[q].scan.flag],
     cursor |-> reader[q].scan.cursor, version |-> reader[q].version,
     classes |-> reader[q].classes]

appendProjection(q) ==
    [rows |-> data.rows @@ [i \in reader[q].scan.found |-> reader[q].scan.flag],
     cursor |-> reader[q].scan.cursor, version |-> reader[q].version,
     classes |-> reader[q].classes]

\* The rows are replaced or extended in place, under the write lock.
Apply(q) ==
    /\ reader[q].at = "apply" /\ Leased = {}
    /\ data' = IF reader[q].scan.full THEN buildProjection(q) ELSE appendProjection(q)
    /\ building' = Nobody
    /\ reader' = [Woken EXCEPT ![q].at = "lease", ![q].scan = NoScan]
    /\ UNCHANGED <<World, memo, asks, faults>>

\* The build's scan fails or its caller is gone: nothing is published.
finishBuild(q) ==
    /\ reader[q].at \in {"scan", "decode"} /\ faults < MaxFaults
    /\ faults' = faults + 1
    /\ building' = Nobody
    /\ reader' = [Woken EXCEPT ![q].at = "failed", ![q].scan = NoScan]
    /\ UNCHANGED <<World, data, memo, asks>>

---------------------------------------------------------------------------
(* The fold, under one read lease, and the memo.                           *)

Plus(counts, set) == [i \in Ids |-> counts[i] + (IF i \in set THEN 1 ELSE 0)]

\* The rows in the window; the block maxima only skip blocks without any.
visitSince(q) == {i \in DOMAIN data.rows : Wants(q, i)}

\* The read lease is taken and the projected rows are folded.
withProjection(q) ==
    /\ reader[q].at = "lease"
    /\ LET hit == visitSince(q)
       IN  reader' = [reader EXCEPT ![q].at = "merge", ![q].value.counts = Plus(@, hit),
                        ![q].value.flags = {data.rows[i] : i \in hit},
                        ![q].version = 0, ![q].classes = 0]
    /\ UNCHANGED <<World, data, building, memo, asks, faults>>

\* MutantForgetsSeen: a request that finished since is folded as pending too.
MutantForgetsSeen(q) ==
    /\ reader[q].at = "merge"
    /\ reader' = [reader EXCEPT ![q].at = "again",
                    ![q].value.counts = Plus(Plus(@, reader[q].ring \ DOMAIN data.rows),
                                             reader[q].pend \ DOMAIN data.rows),
                    ![q].pend = {}, ![q].ring = {}]
    /\ UNCHANGED <<World, data, building, memo, asks, faults>>

\* explorerFold: a pending request is seen once the projection or the ring has it.
prepare(q) == reader[q].pend \intersect DOMAIN data.rows
fold(q) == reader[q].pend \intersect reader[q].ring
eachPending(q) == reader[q].pend \ (prepare(q) \union fold(q))

\* Ring rows the projection has not got; pending rows neither of them has.
Merged(q) ==
    LET live == reader[q].ring \ DOMAIN data.rows
    IN  [reader[q].value EXCEPT !.counts = Plus(Plus(@, live), eachPending(q)),
                                !.flags = @ \union {vocabulary : i \in live}]

streamWindow(q) ==
    /\ reader[q].at = "merge" /\ (reader[q].view = "all" => reader[q].pinned)
    /\ reader' = [reader EXCEPT ![q].at = "again", ![q].value = Merged(q), ![q].pend = {}, ![q].ring = {}]
    /\ UNCHANGED <<World, data, building, memo, asks, faults>>

\* The first start and the fold are taken under one lease.
streamAllChart(q) ==
    /\ reader[q].at = "merge" /\ reader[q].view = "all" /\ ~reader[q].pinned
    /\ LET value == Merged(q)
           first == Min({start[i] : i \in {k \in Ids : value.counts[k] > 0}} \union {reader[q].now})
       IN  reader' = [reader EXCEPT ![q].at = "again", ![q].ring = {},
                        ![q].value = [value EXCEPT !.raw = first,
                                                   !.edges = chartWindowEdges(reader[q].now, first)]]
    /\ UNCHANGED <<World, data, building, memo, asks, faults>>

\* An All start clamped to the clock before later requests would move with it.
Publishes(q) ==
    reader[q].view = "all" /\ ~reader[q].pinned =>
        reader[q].value.raw < reader[q].now \/ reader[q].value.counts = NoValue.counts

\* aggregateUnchanged: both halves of the key are read again.
Recheck(q) ==
    /\ reader[q].at = "again"
    /\ Goes(q, IF reader[q].cacheable /\ Publishes(q)
                  /\ Revisions(reader[q].view, reader[q].now) = [reader[q].key EXCEPT !.database = 0]
               THEN "reread" ELSE "answer")
    /\ UNCHANGED <<World, data, building, memo, asks, faults>>

aggregateUnchanged(q) ==
    /\ reader[q].at = "reread"
    /\ Goes(q, IF version = reader[q].key.database THEN "put" ELSE "answer")
    /\ UNCHANGED <<World, data, building, memo, asks, faults>>

put(q) ==
    /\ reader[q].at = "put"
    /\ memo' = [memo EXCEPT ![Surface(reader[q].view)].entry =
                              [key |-> reader[q].key, value |-> reader[q].value]]
    /\ Goes(q, "answer")
    /\ UNCHANGED <<World, data, building, asks, faults>>

\* finish: the flight ends on every path, and its followers look again.
finish(q, next) ==
    LET mine == reader[q].flight
        surface == Surface(reader[q].view)
    IN  /\ memo' = IF mine THEN [memo EXCEPT ![surface].owner = Nobody, ![surface].key = NoKey] ELSE memo
        /\ reader' = [p \in Readers |->
                        IF p = q THEN next
                        ELSE IF mine /\ reader[p].at = "follow" /\ reader[p].key = reader[q].key
                        THEN [reader[p] EXCEPT !.at = "begin"] ELSE reader[p]]

Answer(q) ==
    /\ reader[q].at \in {"answer", "failed"}
    /\ finish(q, IF reader[q].at = "failed" THEN Idle
                 ELSE [Idle EXCEPT !.at = "answered", !.view = reader[q].view,
                                   !.now = reader[q].now, !.value = reader[q].value])
    /\ UNCHANGED <<World, data, building, asks, faults>>

Leave(q) ==
    /\ reader[q].at = "answered" /\ reader' = [reader EXCEPT ![q] = Idle]
    /\ UNCHANGED <<World, data, building, memo, asks, faults>>

\* The call's context ends where it waits or checks.
Cancel(q) ==
    /\ faults < MaxFaults /\ faults' = faults + 1
    /\ reader[q].at \in {"follow", "wait", "refresh", "lease"}
    /\ Goes(q, "failed")
    /\ UNCHANGED <<World, data, building, memo, asks>>

Read(q) ==
    \/ \E view \in Views : Ask(q, view)
    \/ aggregateKey(q) \/ explorer(q) \/ chart(q) \/ chartRange(q)
    \/ explorerCold(q) \/ chartCold(q) \/ chartRangeCold(q)
    \/ acquireRing(q) \/ FilterUnwritten(q)
    \/ refresh(q) \/ Claim(q) \/ streamProjection(q) \/ scanContrib(q) \/ Apply(q)
    \/ finishBuild(q) \/ withProjection(q) \/ streamWindow(q) \/ streamAllChart(q)
    \/ Recheck(q) \/ aggregateUnchanged(q) \/ put(q) \/ Answer(q) \/ Leave(q) \/ Cancel(q)

Outside ==
    \/ Tick \/ Commit \/ Account \/ RemoveThrough \/ InstallClassExtensions
    \/ \E i \in Requests : PublishLive(i) \/ Enqueue(i) \/ Record(i)
    \/ \E i \in Foreign : ForeignCommit(i)
    \/ \E i \in Ids : projectionTriggers(i)

\* What each call could see, all along and at any time since it was made.
Sees(q) == Visible(reader[q].view, reader[q].now)
Over(q) == reader[q].at \in {"idle", "answered"}

Observed ==
    /\ throughout' = [q \in Readers |->
         CASE Over(q)' -> (IF reader'[q].at = "idle" THEN {} ELSE throughout[q])
           [] ~Over(q)' /\ Over(q) -> Sees(q)'
           [] OTHER -> throughout[q] \intersect Sees(q)']
    /\ ever' = [q \in Readers |->
         CASE Over(q)' -> (IF reader'[q].at = "idle" THEN {} ELSE ever[q])
           [] ~Over(q)' /\ Over(q) -> Sees(q)'
           [] OTHER -> ever[q] \union Sees(q)']

Done == asks = MaxAsks /\ (\A q \in Readers : reader[q].at = "idle") /\ UNCHANGED vars

Next == (((\E q \in Readers : Read(q)) \/ Outside) /\ Observed) \/ Done

Spec == Init /\ [][Next]_vars

---------------------------------------------------------------------------
(* Properties.                                                             *)

Counted(value) == {i \in Ids : value.counts[i] > 0}

\* Every answer counts a request at most once, leaves out none that was visible
\* for the whole call, and shows none that was not visible at any time of it or
\* that lies before its first bucket, whatever finished, was committed or
\* purged meanwhile.
AnswersSound ==
    \A q \in Readers : reader[q].at = "answered" =>
        /\ \A i \in Ids : reader[q].value.counts[i] <= 1
        /\ throughout[q] \subseteq Counted(reader[q].value)
        /\ Counted(reader[q].value) \subseteq ever[q]
        /\ \A i \in Counted(reader[q].value) : start[i] >= reader[q].value.edges[1]

\* An entry that the present key would hit is what a fold would compute now;
\* a chart of all history is one from its first request on.
MemoExact ==
    \A v \in Views :
        LET e == memo[Surface(v)].entry
            now == IF v = "explorer" THEN Finalized \union pend
                   ELSE {i \in Finalized : InView(i, v, IF v = "all" THEN 0 ELSE e.value.edges[1], e.key.to)}
        IN  ~installing /\ e.key = [Revisions(v, e.key.to) EXCEPT !.database = version] =>
              /\ e.value.counts = [i \in Ids |-> IF i \in now THEN 1 ELSE 0]
              /\ e.value.flags \subseteq {vocabulary}

\* A delta never brings a row the projection has, which the build would refuse.
AppendsNew ==
    \A q \in Readers :
        reader[q].at = "apply" /\ ~reader[q].scan.full => reader[q].scan.found \intersect DOMAIN data.rows = {}

\* The joins of pending, ring, projection and memo are exact.
DashboardSound == AnswersSound /\ MemoExact /\ AppendsNew
=============================================================================
