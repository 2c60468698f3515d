----------------------------- MODULE Recording -----------------------------
(***************************************************************************)
(* The path of a finished request into memory and onto disk: the ring, the *)
(* bounded write queue, the one writer goroutine, the since-inception      *)
(* totals in memory and in the database, a purge that must cut ring and    *)
(* queue at one point, and a merge of a backup (internal/storage:          *)
(* store_record.go, writer.go, purge.go, totals.go, snapshot_merge.go).    *)
(*                                                                         *)
(* A record is its id.  Totals are, for every id, how often it was added.  *)
(* One hold of sendMu, of aggMu, or of the sole writer connection is one   *)
(* step.  Rows carry SQLite's rowid, which with the count of rewrites      *)
(* makes the witness that totals are compared by.                          *)
(***************************************************************************)
EXTENDS Naturals, Sequences, FiniteSets, SequencesExt, FiniteSetsExt, Functions

CONSTANTS
    Records,       \* requests this deployment finishes, each once
    Incoming,      \* rows of the backup that may be merged
    Foreign,       \* rows the other process of a restart may commit
    Matching,      \* records a filtered purge selects
    ChanCap,       \* WriteChanCap
    BatchCap,      \* BatchCap
    RingCap,       \* history_size
    MaxPurges, MaxMerges, MaxFailures, MaxStops, MaxReads

None == "none"
Ids == Records \union Incoming \union Foreign

VARIABLES
    ring,          \* finished records in memory, by arrival number
    queue,         \* the write channel
    accepted,      \* records ever enqueued: the sequence of the newest
    shut,          \* Close has sealed the queue
    dropped,       \* records counted as drops
    w,             \* the writer goroutine
    batch,         \* records it has taken and not committed
    consumed,      \* sequence of the last record it took for a batch
    pending,       \* pendingPurge: the published command and its outcome
    wake,          \* a token in purgeWake
    admin,         \* who holds purgeMu, and where it stands
    flushing,      \* flushCh and its reply: None, "asked", "ok", "failed"
    conn,          \* who keeps the writer connection between two steps
    rows, epoch, doc, \* the database: rows, rewrites, totals document
    mem,           \* totals, totalsBuilt, totalsWitness, totalsDegraded
    written,       \* writtenOrder, by arrival number
    committed,     \* what insertBatch hands to account
    reader,        \* a KPI fold
    up,            \* the store is open
    \* What happened, for the properties only.
    purged,        \* records a successful purge has deleted
    lost,          \* records in the queue or a batch when the process died
    foreign,       \* another process has committed since the last look
    stops, purges, merges, failures, reads

store == <<rows, epoch, doc>>
history == <<purged, lost, foreign, stops, purges, merges, failures, reads>>
vars == <<ring, queue, accepted, shut, dropped, w, batch, consumed, pending, wake,
          admin, flushing, conn, store, mem, written, committed, reader, up, history>>

Zero == [i \in Ids |-> 0]
Counted(set) == [i \in Ids |-> IF i \in set THEN 1 ELSE 0]
Plus(t, set) == [i \in Ids |-> t[i] + (IF i \in set THEN 1 ELSE 0)]

\* The append mark of the projection: the triggers keep it at the largest rowid.
HighRowID(table) == Max({table[i] : i \in DOMAIN table} \union {0})
Witness(table, e) == [epoch |-> e, high |-> HighRowID(table)]
NoWitness == [epoch |-> 0, high |-> 0]

\* Rows appended in the order of a batch; the ones that exist are skipped.
Appended(table, seq) ==
    LET new == Range(seq) \ DOMAIN table
        Place(i) == CHOOSE n \in DOMAIN seq : seq[n] = i
    IN  [i \in DOMAIN table \union new |->
            IF i \in DOMAIN table THEN table[i]
            ELSE HighRowID(table) + Cardinality({j \in new : Place(j) <= Place(i)})]

\* What is kept by arrival number: one more at the end, and the newest of it.
Longer(kept, i) ==
    LET next == Max(DOMAIN kept \union {0}) + 1
    IN  [n \in DOMAIN kept \union {next} |-> IF n \in DOMAIN kept THEN kept[n] ELSE i]
Newest(kept, cap) ==
    Restrict(kept, {n \in DOMAIN kept : Cardinality({m \in DOMAIN kept : m > n}) < cap})

\* saveTotals: the document and the witness it was computed against.
Doc(totals, invalid, table, e) ==
    [totals |-> totals, invalid |-> invalid, witness |-> Witness(table, e)]
Memory(totals, witness, degraded) ==
    [totals |-> totals, built |-> TRUE, witness |-> witness, degraded |-> degraded]

totalsWitnessNewer(a, b) ==
    IF a.epoch # b.epoch THEN a.epoch > b.epoch ELSE a.high > b.high

IdleWriter == [at |-> "select", held |-> None, mode |-> "run", serving |-> FALSE,
               final |-> FALSE, failed |-> FALSE, error |-> FALSE]
NoCommand == [all |-> FALSE, accepted |-> 0, boundary |-> {}, result |-> None]
Nothing == [totals |-> Zero, witness |-> NoWitness, degraded |-> FALSE, ids |-> <<>>]
NoReader == [view |-> {}, seen |-> Zero, at |-> "idle", degraded |-> FALSE]

Init ==
    /\ ring = <<>> /\ queue = <<>> /\ accepted = 0 /\ shut = FALSE /\ dropped = {}
    /\ w = IdleWriter /\ batch = <<>> /\ consumed = 0
    /\ pending = NoCommand /\ wake = FALSE /\ admin = "free" /\ flushing = None /\ conn = None
    /\ rows = <<>> /\ epoch = 0 /\ doc = Doc(Zero, FALSE, <<>>, 0)
    /\ mem = Memory(Zero, NoWitness, FALSE)
    /\ written = <<>> /\ committed = Nothing /\ reader = NoReader /\ up = TRUE
    /\ purged = {} /\ lost = {} /\ foreign = FALSE
    /\ stops = 0 /\ purges = 0 /\ merges = 0 /\ failures = 0 /\ reads = 0

Queued == Range(queue) \union Range(batch) \union ({w.held} \ {None})
Seen == Queued \union DOMAIN rows \union dropped \union purged \union lost

---------------------------------------------------------------------------
(* Producers.                                                              *)

\* Buffer.Record: the ring drops its oldest record when it is full.
Push(r) == Newest(Longer(ring, r), RingCap)

\* MutantPublishFirst: the ring publication leaves the producer lock, so a purge may
\* capture its fence between the two halves.
MutantPublishFirst(r) ==
    /\ up /\ r \notin Seen
    /\ IF r \in Range(ring)
         THEN /\ queue' = Append(queue, r) /\ accepted' = accepted + 1 /\ UNCHANGED ring
         ELSE ring' = Push(r) /\ UNCHANGED <<queue, accepted>>
    /\ UNCHANGED <<shut, dropped, w, batch, consumed, pending, wake, admin, flushing,
                   conn, store, mem, written, committed, reader, up, history>>

record(r) ==
    /\ up /\ r \notin Seen
    /\ ring' = Push(r)
    /\ IF shut \/ Len(queue) >= ChanCap
         THEN dropped' = dropped \union {r} /\ UNCHANGED <<queue, accepted>>
         ELSE queue' = Append(queue, r) /\ accepted' = accepted + 1 /\ UNCHANGED dropped
    /\ UNCHANGED <<shut, w, batch, consumed, pending, wake, admin, flushing, conn,
                   store, mem, written, committed, reader, up, history>>

---------------------------------------------------------------------------
(* The writer goroutine.  "select" is its loop, "load" a look at           *)
(* pendingPurge, "work" what follows, "account" the step after a commit.   *)

Goes(at) == w' = [w EXCEPT !.at = at]

Take(next) ==
    /\ queue # <<>>
    /\ queue' = Tail(queue)
    /\ w' = [w EXCEPT !.at = next, !.held = Head(queue)]
    /\ UNCHANGED <<batch, consumed, wake, flushing>>

SelectRecord == w.mode = "run" /\ Take("load")

SelectWake ==
    /\ wake /\ wake' = FALSE
    /\ Goes("load")
    /\ UNCHANGED <<queue, batch, consumed, flushing>>

SelectFlush ==
    /\ flushing = "asked"
    /\ w' = [w EXCEPT !.at = "load", !.mode = "flush", !.error = FALSE]
    /\ UNCHANGED <<queue, batch, consumed, wake, flushing>>

SelectTick ==
    /\ batch # <<>>
    /\ w' = [w EXCEPT !.at = "work", !.final = TRUE]
    /\ UNCHANGED <<queue, batch, consumed, wake, flushing>>

SelectDone ==
    /\ shut
    /\ w' = [w EXCEPT !.at = "work", !.mode = "close"]
    /\ UNCHANGED <<queue, batch, consumed, wake, flushing>>

Select ==
    /\ up /\ w.at = "select"
    /\ SelectRecord \/ SelectWake \/ SelectFlush \/ SelectTick \/ SelectDone
    /\ UNCHANGED <<ring, accepted, shut, dropped, pending, admin, conn, store, mem,
                   written, committed, reader, up, history>>

\* servicePurge looks at the command without the producer lock.  The record in
\* hand is the next sequence: it is behind the fence or in front of it.
BehindFence == w.held # None /\ consumed + 1 <= pending.accepted

\* MutantTakesHeld: the record in hand goes into the purged batch whatever its
\* sequence.
MutantTakesHeld ==
    /\ up /\ w.at = "load"
    /\ w' = [w EXCEPT !.at = "work", !.held = None, !.serving = pending.result = "due"]
    /\ batch' = IF w.held = None THEN batch ELSE Append(batch, w.held)
    /\ consumed' = IF w.held = None THEN consumed ELSE consumed + 1
    /\ UNCHANGED <<ring, queue, accepted, shut, dropped, pending, wake, admin, flushing,
                   conn, store, mem, written, committed, reader, up, history>>

LoadPurge ==
    /\ up /\ w.at = "load"
    /\ IF pending.result = "due"
         THEN /\ w' = [w EXCEPT !.at = "work", !.serving = TRUE, !.failed = FALSE,
                                !.held = IF BehindFence THEN None ELSE @]
              /\ IF BehindFence
                   THEN batch' = Append(batch, w.held) /\ consumed' = consumed + 1
                   ELSE UNCHANGED <<batch, consumed>>
         ELSE Goes("work") /\ UNCHANGED <<batch, consumed>>
    /\ UNCHANGED <<ring, queue, accepted, shut, dropped, pending, wake, admin, flushing,
                   conn, store, mem, written, committed, reader, up, history>>

Room == Len(batch) < BatchCap
ToFence == w.serving /\ consumed < pending.accepted

\* Records up to the fence are drained before the purge.
DrainToFence ==
    /\ ToFence /\ Room /\ queue # <<>>
    /\ queue' = Tail(queue) /\ batch' = Append(batch, Head(queue))
    /\ consumed' = consumed + 1
    /\ UNCHANGED <<w, flushing>>

\* accept: the record is appended once the command, if any, has been served.
AppendHeld ==
    /\ ~w.serving /\ w.held # None /\ Room
    /\ batch' = Append(batch, w.held) /\ consumed' = consumed + 1
    /\ w' = [w EXCEPT !.held = None]
    /\ UNCHANGED <<queue, flushing>>

\* A flush and a shutdown drain what is queued, look at the command once more,
\* commit what is left, then answer or end.
DrainMore ==
    /\ ~w.serving /\ w.held = None /\ Room /\ w.mode # "run" /\ queue # <<>> /\ ~w.final
    /\ queue' = Tail(queue)
    /\ w' = [w EXCEPT !.at = "load", !.held = Head(queue)]
    /\ UNCHANGED <<batch, consumed, flushing>>

LastLook ==
    /\ ~w.serving /\ w.held = None /\ Room /\ w.mode # "run" /\ queue = <<>> /\ ~w.final
    /\ w' = [w EXCEPT !.at = "load", !.final = TRUE]
    /\ UNCHANGED <<queue, batch, consumed, flushing>>

Rest ==
    /\ ~w.serving /\ w.held = None
    /\ \/ w.final /\ batch = <<>>
       \/ ~w.final /\ w.mode = "run" /\ Room
    /\ w' = [IdleWriter EXCEPT !.at = IF w.mode = "close" THEN "done" ELSE "select"]
    /\ flushing' = CASE w.mode # "flush" -> flushing
                     [] w.error -> "failed"
                     [] OTHER -> "ok"
    /\ UNCHANGED <<queue, batch, consumed>>

Work ==
    /\ up /\ w.at = "work"
    /\ DrainToFence \/ AppendHeld \/ DrainMore \/ LastLook \/ Rest
    /\ UNCHANGED <<ring, accepted, shut, dropped, pending, wake, admin, conn, store,
                   mem, written, committed, reader, up, history>>

\* insertBatch up to its commit: the base is extended only when its witness is
\* still the database's, and rebuilt from the rows otherwise.
FlushDue ==
    /\ up /\ w.at = "work" /\ batch # <<>>
    /\ ~Room \/ (w.final /\ w.held = None) \/ (w.serving /\ ~ToFence)

Current == mem.built /\ mem.witness = Witness(rows, epoch)

insertBatch(rebuilt) ==
    /\ FlushDue /\ conn = None
    /\ ~rebuilt => ~Current /\ failures < MaxFailures
    /\ LET table == Appended(rows, batch)
           kept == IF mem.built THEN mem.totals ELSE Zero
           base == IF Current THEN mem.totals
                   ELSE IF rebuilt THEN Counted(DOMAIN rows) ELSE kept
           bad == IF Current THEN mem.degraded ELSE ~rebuilt
           next == Plus(base, DOMAIN table \ DOMAIN rows)
       IN  /\ rows' = table
           /\ doc' = Doc(next, bad, table, epoch)
           /\ committed' = [totals |-> next, witness |-> Witness(table, epoch),
                            degraded |-> bad, ids |-> batch]
    /\ batch' = <<>>
    /\ Goes("account")
    /\ foreign' = FALSE
    /\ failures' = IF rebuilt THEN failures ELSE failures + 1
    /\ UNCHANGED <<ring, queue, accepted, shut, dropped, consumed, pending, wake, admin,
                   flushing, conn, epoch, mem, written, reader, up, purged, lost, stops,
                   purges, merges, reads>>

\* A failed transaction: every record of the batch counts as dropped.
insertFails ==
    /\ FlushDue /\ conn = None /\ failures < MaxFailures
    /\ failures' = failures + 1
    /\ dropped' = dropped \union Range(batch) /\ batch' = <<>>
    /\ w' = [w EXCEPT !.failed = TRUE, !.error = TRUE]
    /\ UNCHANGED <<ring, queue, accepted, shut, consumed, pending, wake, admin, flushing,
                   conn, store, mem, written, committed, reader, up, purged, lost,
                   foreign, stops, purges, merges, reads>>

\* markWrittenLocked, id by id; its cap is twice the ring (cmd/proxy/main.go).
Marked(order, ids) ==
    LET top == Max(DOMAIN order \union {0})
        fresh == {n \in DOMAIN ids : ids[n] \notin Range(order)}
        Arrived(n) == ids[CHOOSE k \in fresh : top + k = n]
    IN  Newest([n \in DOMAIN order \union {top + k : k \in fresh} |->
                   IF n \in DOMAIN order THEN order[n] ELSE Arrived(n)], 2 * RingCap)

Installs(c) == ~mem.built \/ ~totalsWitnessNewer(mem.witness, c.witness)

\* MutantAlwaysInstalls: the batch's totals replace whatever was installed since.
MutantAlwaysInstalls ==
    /\ up /\ w.at = "account"
    /\ mem' = Memory(committed.totals, committed.witness, mem.degraded)
    /\ written' = Marked(written, committed.ids)
    /\ committed' = Nothing /\ Goes("work")
    /\ UNCHANGED <<ring, queue, accepted, shut, dropped, batch, consumed, pending, wake,
                   admin, flushing, conn, store, reader, up, history>>

account ==
    /\ up /\ w.at = "account"
    /\ mem' = IF Installs(committed)
                THEN Memory(committed.totals, committed.witness,
                            mem.degraded \/ committed.degraded)
                ELSE mem
    /\ written' = Marked(written, committed.ids)
    /\ committed' = Nothing
    /\ Goes("work")
    /\ UNCHANGED <<ring, queue, accepted, shut, dropped, batch, consumed, pending, wake,
                   admin, flushing, conn, store, reader, up, history>>

---------------------------------------------------------------------------
(* Purge.                                                                  *)

\* Clear captures both fences and publishes the command in one hold of sendMu.
Clear(all) ==
    /\ up /\ admin = "free" /\ ~shut /\ purges < MaxPurges
    /\ purges' = purges + 1
    /\ pending' = [all |-> all, accepted |-> accepted, boundary |-> Range(ring),
                   result |-> "due"]
    /\ wake' = TRUE /\ admin' = "clear"
    /\ UNCHANGED <<ring, queue, accepted, shut, dropped, w, batch, consumed, flushing,
                   conn, store, mem, written, committed, reader, up, purged, lost,
                   foreign, stops, merges, failures, reads>>

Selected == IF pending.all THEN Ids ELSE Matching

\* The rows behind the fence are all in the database: the writer drained and flushed
\* them.  Commit, totals and ring are three sections, each under its own lock.
Ready == up /\ w.at = "work" /\ w.serving /\ ~ToFence /\ batch = <<>>

purgeTransaction ==
    /\ Ready /\ ~w.failed /\ conn = None
    /\ LET gone == DOMAIN rows \intersect Selected
           table == Restrict(rows, DOMAIN rows \ gone)
           after == Counted(DOMAIN table)
       IN  /\ rows' = table
           /\ epoch' = epoch + Cardinality(gone)
           /\ IF gone # {}
                THEN /\ doc' = Doc(after, FALSE, table, epoch')
                     /\ committed' = [Nothing EXCEPT !.totals = after,
                                                     !.witness = Witness(table, epoch')]
                     /\ foreign' = FALSE
                     /\ Goes("publish")
                ELSE Goes("remove") /\ UNCHANGED <<doc, committed, foreign>>
           /\ purged' = purged \union gone
    /\ UNCHANGED <<ring, queue, accepted, shut, dropped, batch, consumed, pending, wake,
                   admin, flushing, conn, mem, written, reader, up, lost, stops, purges,
                   merges, failures, reads>>

\* installTotals under aggMu, whatever was installed since the commit.
publishTotals ==
    /\ up /\ w.at = "publish"
    /\ mem' = Memory(committed.totals, committed.witness, FALSE)
    /\ committed' = Nothing
    /\ Goes("remove")
    /\ UNCHANGED <<ring, queue, accepted, shut, dropped, batch, consumed, pending, wake,
                   admin, flushing, conn, store, written, reader, up, history>>

\* RemoveThrough under the ring's own lock, up to the boundary taken at the fence; then
\* the command is answered.
RemoveThrough ==
    /\ up /\ w.at = "remove"
    /\ ring' = Restrict(ring, {n \in DOMAIN ring : ring[n] \notin pending.boundary \intersect Selected})
    /\ pending' = [pending EXCEPT !.result = "ok"]
    /\ w' = [w EXCEPT !.at = "work", !.serving = FALSE, !.failed = FALSE]
    /\ UNCHANGED <<queue, accepted, shut, dropped, batch, consumed, wake, admin, flushing,
                   conn, store, mem, written, committed, reader, up, history>>

\* The write before it failed, or the transaction itself did.
purgeFails ==
    /\ Ready
    /\ w.failed \/ failures < MaxFailures
    /\ failures' = IF w.failed THEN failures ELSE failures + 1
    /\ pending' = [pending EXCEPT !.result = "failed"]
    /\ w' = [w EXCEPT !.serving = FALSE, !.failed = FALSE]
    /\ UNCHANGED <<ring, queue, accepted, shut, dropped, batch, consumed, wake, admin,
                   flushing, conn, store, mem, written, committed, reader, up, purged,
                   lost, foreign, stops, purges, merges, reads>>

ClearReturns ==
    /\ up /\ admin = "clear" /\ pending.result # "due"
    /\ pending' = NoCommand /\ admin' = "free"
    /\ UNCHANGED <<ring, queue, accepted, shut, dropped, w, batch, consumed, wake,
                   flushing, conn, store, mem, written, committed, reader, up, history>>

---------------------------------------------------------------------------
(* Merge of a backup.                                                      *)

MergeStarts ==
    /\ up /\ admin = "free" /\ ~shut /\ merges < MaxMerges
    /\ merges' = merges + 1
    /\ admin' = "merge" /\ flushing' = "asked"
    /\ UNCHANGED <<ring, queue, accepted, shut, dropped, w, batch, consumed, pending,
                   wake, conn, store, mem, written, committed, reader, up, purged, lost,
                   foreign, stops, purges, failures, reads>>

\* Flush failed, or Close overtook it.
MergeAbandoned ==
    /\ up /\ admin = "merge" /\ conn = None
    /\ flushing = "failed" \/ shut
    /\ admin' = "free" /\ flushing' = None
    /\ UNCHANGED <<ring, queue, accepted, shut, dropped, w, batch, consumed, pending,
                   wake, conn, store, mem, written, committed, reader, up, history>>

\* One transaction: the rows that do not exist, and their totals.
MergeSnapshotFile ==
    /\ up /\ admin = "merge" /\ flushing = "ok" /\ conn = None /\ ~shut
    /\ LET table == Appended(rows, SetToSeq(Incoming))
       IN  /\ rows' = table
           /\ doc' = Doc(Counted(DOMAIN table), FALSE, table, epoch)
           /\ foreign' = FALSE
    /\ flushing' = None /\ conn' = "merge"
    /\ UNCHANGED <<ring, queue, accepted, shut, dropped, w, batch, consumed, pending,
                   wake, admin, epoch, mem, written, committed, reader, up, purged, lost,
                   stops, purges, merges, failures, reads>>

\* installTotals, while the connection is still held.
installTotals ==
    /\ up /\ conn = "merge"
    /\ mem' = Memory(doc.totals, doc.witness, FALSE)
    /\ conn' = None /\ admin' = "free"
    /\ UNCHANGED <<ring, queue, accepted, shut, dropped, w, batch, consumed, pending,
                   wake, flushing, store, written, committed, reader, up, history>>

---------------------------------------------------------------------------
(* The dashboard's fold: first the ring, then totals and written ids.      *)

SnapshotRing ==
    /\ up /\ reader.at # "ring" /\ reads < MaxReads
    /\ reads' = reads + 1
    /\ reader' = [NoReader EXCEPT !.view = Range(ring), !.at = "ring"]
    /\ UNCHANGED <<ring, queue, accepted, shut, dropped, w, batch, consumed, pending,
                   wake, admin, flushing, conn, store, mem, written, committed, up,
                   purged, lost, foreign, stops, purges, merges, failures>>

TotalsAndUnwritten ==
    /\ up /\ reader.at = "ring"
    /\ reader' = [reader EXCEPT !.at = "done", !.degraded = mem.degraded,
                     !.seen = Plus(mem.totals, reader.view \ Range(written))]
    /\ UNCHANGED <<ring, queue, accepted, shut, dropped, w, batch, consumed, pending,
                   wake, admin, flushing, conn, store, mem, written, committed, up,
                   history>>

---------------------------------------------------------------------------
(* Shutdown, crash, the other process of a restart, and boot.              *)

Close ==
    /\ up /\ ~shut /\ stops < MaxStops
    /\ shut' = TRUE /\ stops' = stops + 1
    /\ UNCHANGED <<ring, queue, accepted, dropped, w, batch, consumed, pending, wake,
                   admin, flushing, conn, store, mem, written, committed, reader, up,
                   purged, lost, foreign, purges, merges, failures, reads>>

\* The process ends, after its last flush or in the middle of anything.
Ends ==
    /\ up
    /\ w.at = "done" \/ stops < MaxStops
    /\ stops' = IF w.at = "done" THEN stops ELSE stops + 1
    /\ up' = FALSE
    /\ lost' = lost \union Queued
    /\ ring' = <<>> /\ queue' = <<>> /\ accepted' = 0 /\ shut' = FALSE
    /\ w' = IdleWriter /\ batch' = <<>> /\ consumed' = 0 /\ pending' = NoCommand
    /\ wake' = FALSE /\ admin' = "free" /\ flushing' = None /\ conn' = None
    /\ mem' = [Memory(Zero, NoWitness, FALSE) EXCEPT !.built = FALSE]
    /\ written' = <<>> /\ committed' = Nothing /\ reader' = NoReader
    /\ UNCHANGED <<dropped, store, purged, foreign, purges, merges, failures, reads>>

OtherProcessCommits(i) ==
    /\ i \notin DOMAIN rows \union purged /\ conn = None
    /\ LET table == Appended(rows, <<i>>)
       IN rows' = table /\ doc' = Doc(Counted(DOMAIN table), FALSE, table, epoch)
    /\ foreign' = TRUE
    /\ UNCHANGED <<ring, queue, accepted, shut, dropped, w, batch, consumed, pending,
                   wake, admin, flushing, conn, epoch, mem, written, committed, reader,
                   up, purged, lost, stops, purges, merges, failures, reads>>

\* loadTotals refuses a document that is invalid or whose witness has moved.
loadTotals == ~doc.invalid /\ doc.witness = Witness(rows, epoch)

\* LoadRecent and Backfill, newest rows last; their ids are marked as written.
Recent == Newest([n \in Range(rows) |-> CHOOSE i \in DOMAIN rows : rows[i] = n], RingCap)

\* Open; scanned tells whether computeTotals succeeded where it was needed.
Open(scanned) ==
    /\ ~up
    /\ ~scanned => ~loadTotals /\ failures < MaxFailures
    /\ up' = TRUE
    /\ mem' = IF loadTotals THEN Memory(doc.totals, doc.witness, FALSE)
              ELSE IF scanned THEN Memory(Counted(DOMAIN rows), Witness(rows, epoch), FALSE)
              ELSE [mem EXCEPT !.degraded = TRUE]
    /\ doc' = IF ~loadTotals /\ scanned
                THEN Doc(Counted(DOMAIN rows), FALSE, rows, epoch) ELSE doc
    /\ foreign' = FALSE
    /\ failures' = IF scanned THEN failures ELSE failures + 1
    /\ ring' = Recent /\ written' = Recent
    /\ UNCHANGED <<queue, accepted, shut, dropped, w, batch, consumed, pending, wake,
                   admin, flushing, conn, rows, epoch, committed, reader, purged, lost,
                   stops, purges, merges, reads>>

---------------------------------------------------------------------------
WriterStep ==
    \/ Select \/ LoadPurge \/ Work \/ account \/ purgeTransaction
    \/ publishTotals \/ RemoveThrough \/ purgeFails
    \/ insertFails \/ (\E rebuilt \in BOOLEAN : insertBatch(rebuilt))

MergeStep == MergeAbandoned \/ MergeSnapshotFile \/ installTotals

Next ==
    \/ \E r \in Records : record(r)
    \/ WriterStep
    \/ \E all \in BOOLEAN : Clear(all)
    \/ ClearReturns
    \/ MergeStarts \/ MergeStep
    \/ SnapshotRing \/ TotalsAndUnwritten
    \/ Close \/ Ends
    \/ \E i \in Foreign : OtherProcessCommits(i)
    \/ \E scanned \in BOOLEAN : Open(scanned)

Spec == Init /\ [][Next]_vars

\* The writer goroutine and the administrative ones run while the store is open.
Fairness == WF_vars(WriterStep) /\ WF_vars(MergeStep) /\ WF_vars(ClearReturns)

---------------------------------------------------------------------------
(* Properties.                                                             *)

\* No record is in two places: it is queued, committed, dropped and counted so, deleted
\* by a purge, or died with the process.  What a purge deletes stays deleted.
OnePlace ==
    LET place == [queued |-> Queued, rows |-> DOMAIN rows, dropped |-> dropped,
                  purged |-> purged, lost |-> lost]
    IN  \A p, q \in DOMAIN place : p # q => place[p] \intersect place[q] \intersect Records = {}

\* And none disappears: what the ring shows is in one of them, and whatever was enqueued
\* the writer has taken or will take (store_record.go).
RecordsAccounted ==
    /\ OnePlace
    /\ Range(ring) \subseteq Seen
    /\ up /\ w.at = "select" => accepted = consumed + Len(queue)

\* A purge cuts ring and rows at one point (purge.go: Clear), though it commits, installs
\* totals and empties the ring under three locks with producers between them: it deletes
\* no row of a record that reached the ring after its fence, and when it answers, the
\* ring shows no record whose row a purge deleted and has lost none whose row is kept.
PurgeIsOneCut ==
    [][/\ \A r \in Records :
             r \in purged' \ purged /\ r \in Range(ring) => r \in pending.boundary
       /\ pending.result = "due" /\ pending'.result = "ok" =>
             /\ Range(ring') \intersect purged' \intersect Records = {}
             /\ (Range(ring) \ Range(ring')) \intersect DOMAIN rows' \intersect Records = {}]_vars

\* Once the last transaction is published the totals in memory are exactly the rows,
\* unless a rebuild failed and they say so; and the document is, unless it says so or
\* its witness does (store_record.go: account, totals.go).
TotalsExact ==
    /\ up /\ mem.built /\ ~mem.degraded /\ ~foreign /\ w.at \notin {"account", "publish"}
       /\ conn = None => mem.totals = Counted(DOMAIN rows)
    /\ loadTotals => doc.totals = Counted(DOMAIN rows)

\* A fold that read the ring before a commit, and totals after it, still counts the
\* record: a commit moves a record from one side of the merge to the other at once
\* (store_record.go: TotalsAndUnwritten).  Totals that say they are degraded promise nothing.
NothingVanishes ==
    reader.at = "done" =>
        \A r \in reader.view \intersect Records :
            r \notin purged /\ ~reader.degraded => reader.seen[r] >= 1

\* Totals in memory and in the document are those of the rows, and a fold of ring and
\* totals loses no record (store_record.go, totals.go).
TotalsSound == TotalsExact /\ NothingVanishes

\* docs/architecture.md: the fold is slow but never counts a record twice.
NeverDoubleCounts ==
    reader.at = "done" => \A i \in Ids : reader.seen[i] <= 1

\* An administrator who published a purge is answered, whatever fails meanwhile and
\* even when the store is closed under it (purge.go: Clear waits without a timeout).
Answered == admin # "clear"
PurgeAnswered == []<>Answered
=============================================================================
