------------------------------ MODULE Captures ------------------------------
(***************************************************************************)
(* Debug captures: internal/proxy/capture.go, the pending markers and the  *)
(* drawer's fetch of internal/proxy/debug.go, and the sidecar table of     *)
(* internal/storage/debug.go with its byte cap.                            *)
(*                                                                         *)
(* A captured request registers a marker, publishes its record and saves   *)
(* its document on the store's one writer connection.  Saves, the writer's *)
(* expiry sweep, purges and merges share that connection and one cached    *)
(* byte count under debugMu; the drawer reads beside them.                 *)
(***************************************************************************)
EXTENDS Integers, FiniteSets, FiniteSetsExt, Folds, Sequences

CONSTANTS
    Requests, Watched,      \* the requests; those a drawer may open
    Incoming,               \* the captures of the backup a merge reads
    Size, Forever,          \* bytes of each document; the incoming that never expire
    Cap,                    \* DebugMaxBytes
    TTL, ExpireBatch, BatchesPerSweep,
    MaxClock, MaxFaults, MaxPurges, MaxMerges, MaxRestarts

Free == "free"
Tx == "tx"
Ids == Requests \union Incoming
NoTx == [drop |-> {}, rows |-> {}, add |-> {}, delta |-> 0]

VARIABLES
    clock,
    req,                    \* each request: pc and the expiry fixed at its completion
    marker,                 \* pendingCaptures
    rows,                   \* the requests with a durable row
    sidecar,                \* request_debug: id -> expires_at (0: never)
    bytes, seeded,          \* debugBytes, debugSeeded
    more,                   \* debugExpirePending
    sweeper,                \* the writer's sweep between its unlock and its store
    conn, mu,               \* the owners of the writer connection and of debugMu
    tx,                     \* what the open maintenance transaction will do
    due,                    \* the committed transactions whose delta is not published
    drawer,                 \* the drawer's fetch of each request
    failed, purged,         \* history: saves that were refused or failed, captures purged
    doubt,                  \* history: a statement landed though it answered an error, since
                            \* the count was seeded ("now") or before that ("past")
    faults, purges, merges, restarts

store == <<rows, sidecar, bytes, seeded, conn, mu, tx, due, purged>>
bounds == <<faults, purges, merges, restarts>>
vars == <<clock, req, marker, more, sweeper, drawer, failed, store, doubt, bounds>>

Init ==
    /\ clock = 1
    /\ req = [r \in Requests |-> [pc |-> "idle", expires |-> 0]]
    /\ marker = {} /\ rows = {} /\ sidecar = << >>
    /\ bytes = 0 /\ seeded \in BOOLEAN          \* seedDebugBytes may have failed
    /\ more = FALSE /\ sweeper = "idle" /\ conn = Free /\ mu = Free /\ tx = NoTx /\ due = << >>
    /\ drawer = [r \in Requests |-> "closed"]
    /\ failed = {} /\ purged = {} /\ doubt = "no" /\ faults = 0 /\ purges = 0 /\ merges = 0 /\ restarts = 0

---------------------------------------------------------------------------
(* The table and its bytes.                                                *)

\* debugByteTotal.
Total(ids) == MapThenFoldSet(+, 0, LAMBDA i : Size[i], LAMBDA s : CHOOSE i \in s : TRUE, ids)
Stored == DOMAIN sidecar
Keep(ids) == [i \in ids |-> sidecar[i]]
Nonneg(n) == IF n < 0 THEN 0 ELSE n
Fetchable(expires) == expires = 0 \/ expires > clock
Overdue == {i \in Stored : 0 < sidecar[i] /\ sidecar[i] < clock}

Fault == faults < MaxFaults /\ faults' = faults + 1

\* expireDebugCapturesLocked: full batches until one is short or the sweep's bound
\* is reached; which rows a batch takes is not ordered.  A sweep that stops on an
\* error keeps what its earlier batches deleted, and the DELETE that failed may have
\* landed: its rows, lost, are gone and still counted.
Swept(gone, lost, ended) ==
    LET bound == ExpireBatch * BatchesPerSweep
        AtMost(n, ids) == IF Cardinality(ids) < n THEN Cardinality(ids) ELSE n
    IN  /\ gone \subseteq Overdue /\ lost \subseteq Overdue \ gone
        /\ IF ended THEN Cardinality(gone) = AtMost(bound, Overdue) /\ lost = {}
           ELSE /\ Cardinality(gone) < bound /\ Cardinality(gone) % ExpireBatch = 0
                /\ Cardinality(lost) \in {0, AtMost(ExpireBatch, Overdue \ gone)}
\* What a statement that may have landed unseen makes of the count's exactness.
Doubt(unseen, was) == doubt' = IF unseen THEN "now" ELSE was
Reseeded == IF doubt = "now" THEN "past" ELSE doubt
MoreRemain == Cardinality(Overdue) >= ExpireBatch * BatchesPerSweep

---------------------------------------------------------------------------
(* A captured request.                                                     *)

\* prepareDebugCapture: the marker and the expiry, before the record is published.
prepareDebugCapture(r) ==
    /\ req[r].pc = "idle"
    /\ req' = [req EXCEPT ![r] = [pc |-> "ended", expires |-> clock + TTL]]
    /\ marker' = marker \union {r}
    /\ UNCHANGED <<doubt, clock, more, sweeper, drawer, failed, store, bounds>>

\* Record: the live end is visible and the record is on its way to its row.
Publish(r) ==
    /\ req[r].pc = "ended" /\ req' = [req EXCEPT ![r].pc = "published"]
    /\ UNCHANGED <<doubt, clock, marker, more, sweeper, drawer, failed, store, bounds>>

\* The writer commits the record's batch.
RowStored(r) ==
    /\ req[r].pc \in {"published", "saving", "saved", "done"} /\ r \notin rows \union purged
    /\ conn = Free /\ rows' = rows \union {r}
    /\ UNCHANGED <<doubt, clock, req, marker, sidecar, bytes, seeded, more, sweeper, conn, mu, tx, due, drawer,
                   failed, purged, bounds>>

\* saveDebugCapture reserves the connection first, or its context ends.
TakeConn(r) ==
    /\ req[r].pc = "published"
    /\ \/ /\ conn = Free /\ conn' = r
          /\ req' = [req EXCEPT ![r].pc = "saving"]
          /\ UNCHANGED <<failed, faults>>
       \/ /\ Fault
          /\ req' = [req EXCEPT ![r].pc = "saved"] /\ failed' = failed \union {r}
          /\ UNCHANGED conn
    /\ UNCHANGED <<doubt, clock, marker, rows, sidecar, bytes, seeded, more, sweeper, mu, tx, due, drawer,
                   purged, purges, merges, restarts>>

\* The save leaves the table at cut, its count at n, and the request's document in it
\* if it landed, whatever it answered.
SaveEnds(r, cut, n, ok, landed) ==
    /\ sidecar' = IF landed THEN [i \in cut \union {r} |-> IF i = r THEN req[r].expires ELSE sidecar[i]]
                  ELSE Keep(cut)
    /\ bytes' = n
    /\ failed' = IF ok THEN failed ELSE failed \union {r}
    /\ req' = [req EXCEPT ![r].pc = "saved"]
    /\ conn' = Free
    /\ UNCHANGED <<clock, marker, rows, sweeper, mu, tx, due, drawer, purged, purges, merges, restarts>>

\* The INSERT under the count n: it answers, or it fails, and one that failed may have
\* landed, with the count left as it was.
Insert(r, kept, n, was) ==
    \/ /\ SaveEnds(r, kept, n - Total({r} \cap kept) + Size[r], TRUE, TRUE)
       /\ Doubt(FALSE, was) /\ UNCHANGED faults
    \/ \E landed \in BOOLEAN : Fault /\ SaveEnds(r, kept, n, FALSE, landed) /\ Doubt(landed, was)

\* saveDebugCaptureUnderCap: seed, replace, and when that would pass the cap sweep the
\* expired rows before refusing.
saveDebugCaptureUnderCap(r) ==
    LET base == IF seeded THEN bytes ELSE Total(Stored)
        was == IF seeded THEN doubt ELSE Reseeded
        fits(kept, n) == n - Total({r} \cap kept) + Size[r] <= Cap
    IN  /\ conn = r /\ mu = Free
        /\ \/ /\ ~seeded /\ Fault /\ seeded' = FALSE /\ more' = more    \* the seed's read fails
              /\ SaveEnds(r, Stored, bytes, FALSE, FALSE) /\ Doubt(FALSE, doubt)
           \/ fits(Stored, base) /\ Insert(r, Stored, base, was) /\ seeded' = TRUE /\ more' = more
           \/ \E gone, lost \in SUBSET Overdue, ended \in BOOLEAN :
                LET kept == Stored \ gone
                    left == Nonneg(base - Total(gone))
                IN  /\ ~fits(Stored, base) /\ Swept(gone, lost, ended)
                    /\ seeded' = TRUE
                    /\ more' = (more \/ (ended /\ MoreRemain))
                    /\ IF ended /\ fits(kept, left) THEN Insert(r, kept, left, was)
                       ELSE /\ IF ended THEN UNCHANGED faults ELSE Fault
                            /\ SaveEnds(r, kept \ lost, left, FALSE, FALSE) /\ Doubt(lost # {}, was)

\* release: the marker is resolved on every path, once the save has returned.
Release(r) ==
    /\ req[r].pc = "saved" /\ req' = [req EXCEPT ![r].pc = "done"]
    /\ marker' = marker \ {r}
    /\ UNCHANGED <<doubt, clock, more, sweeper, drawer, failed, store, bounds>>

---------------------------------------------------------------------------
(* The drawer: it opens a request once its live end is visible.            *)

Seen(r) == req[r].pc \in {"published", "saving", "saved", "done"}

Drawer(r, from, to) == drawer[r] = from /\ drawer' = [drawer EXCEPT ![r] = to]

OpenDrawer(r) ==
    /\ r \in Watched /\ Seen(r) /\ Drawer(r, "closed", IF r \in marker THEN "waiting" ELSE "reading")
    /\ UNCHANGED <<doubt, clock, req, marker, more, sweeper, failed, store, bounds>>

waitPendingCapture(r) ==
    /\ r \notin marker /\ Drawer(r, "waiting", "reading")
    /\ UNCHANGED <<doubt, clock, req, marker, more, sweeper, failed, store, bounds>>

\* The drawer's client disconnects.
DrawerLeaves(r) ==
    /\ Drawer(r, "waiting", "left")
    /\ UNCHANGED <<doubt, clock, req, marker, more, sweeper, failed, store, bounds>>

LoadDebugCapture(r) ==
    /\ Drawer(r, "reading", IF r \in Stored /\ Fetchable(sidecar[r]) THEN "shown" ELSE "missing")
    /\ UNCHANGED <<doubt, clock, req, marker, more, sweeper, failed, store, bounds>>

---------------------------------------------------------------------------
(* The writer's sweep, and the purge and merge transactions.               *)

\* expireDebugCapturesIfDue and continueDebugExpire: a bounded sweep under the lock.
sweepDebugCaptures ==
    \E gone, lost \in SUBSET Overdue, ended \in BOOLEAN :
        /\ sweeper = "idle" /\ conn = Free /\ mu = Free
        /\ more \/ Overdue # {}
        /\ Swept(gone, lost, ended)
        /\ IF ended THEN UNCHANGED faults ELSE Fault
        /\ sidecar' = Keep(Stored \ (gone \union lost))
        /\ bytes' = IF seeded THEN Nonneg(bytes - Total(gone)) ELSE bytes
        /\ Doubt(lost # {}, doubt)
        /\ sweeper' = IF ended /\ MoreRemain THEN "again" ELSE "drained"
        /\ UNCHANGED <<clock, req, marker, rows, seeded, more, conn, mu, tx, due, drawer, failed,
                       purged, purges, merges, restarts>>

\* Its pending flag is stored after the lock is released.
SweepStores ==
    /\ sweeper # "idle" /\ sweeper' = "idle" /\ more' = (sweeper = "again")
    /\ UNCHANGED <<doubt, clock, req, marker, drawer, failed, store, bounds>>

\* purgeTransaction: the captures whose request has a durable row, with those rows;
\* sel is what the filter matches.
PurgeBegins(sel) ==
    LET hit == rows \cap sel IN
    /\ purges < MaxPurges /\ purges' = purges + 1
    /\ conn = Free /\ conn' = Tx
    /\ tx' = [NoTx EXCEPT !.drop = Stored \cap hit, !.rows = hit, !.delta = -Total(Stored \cap hit)]
    /\ UNCHANGED <<doubt, clock, req, marker, rows, sidecar, bytes, seeded, more, sweeper, mu, due, drawer,
                   failed, purged, faults, merges, restarts>>

\* mergeDebugTable: the fetchable incoming captures, all of them or none.
mergeDebugTable ==
    LET fresh == {i \in Incoming : i \in Forever \/ Fetchable(1 + TTL)}
        add == IF Total(fresh) > Cap - Total(Stored) THEN {} ELSE fresh \ Stored
    IN  /\ merges < MaxMerges /\ merges' = merges + 1
        /\ conn = Free /\ conn' = Tx
        /\ tx' = [NoTx EXCEPT !.add = add, !.delta = Total(add)]
        /\ UNCHANGED <<doubt, clock, req, marker, rows, sidecar, bytes, seeded, more, sweeper, mu, due,
                       drawer, failed, purged, faults, purges, restarts>>

TxRollsBack ==
    /\ conn = Tx /\ Fault /\ conn' = Free /\ tx' = NoTx
    /\ UNCHANGED <<doubt, clock, req, marker, rows, sidecar, bytes, seeded, more, sweeper, mu, due, drawer,
                   failed, purged, purges, merges, restarts>>

Landed ==
    /\ sidecar' = [i \in (Stored \ tx.drop) \union tx.add |->
                      IF i \in tx.add \ Stored THEN IF i \in Forever THEN 0 ELSE 1 + TTL ELSE sidecar[i]]
    /\ rows' = rows \ tx.rows
    /\ purged' = purged \union tx.rows

\* commitDebugDelta: the commit, with debugMu held.  An error leaves the outcome open
\* and the count unseeded.
Commits(lock) ==
    /\ conn = Tx /\ conn' = Free /\ tx' = NoTx
    /\ \/ Landed /\ mu' = lock /\ due' = Append(due, tx.delta) /\ UNCHANGED <<seeded, faults>>
       \/ /\ Fault /\ UNCHANGED <<mu, due>> /\ seeded' = FALSE
          /\ Landed \/ UNCHANGED <<sidecar, rows, purged>>
    /\ UNCHANGED <<doubt, clock, req, marker, bytes, more, sweeper, drawer, failed, purges, merges, restarts>>

\* MutantUnlocked: the lock is taken for the count only, after the commit.
MutantUnlocked == mu = Free /\ Commits(Free)

CommitDebugDelta == mu = Free /\ Commits(Tx)

\* ... and the delta, when the count is seeded.
PublishDelta ==
    /\ due # << >> /\ due' = Tail(due)
    /\ bytes' = IF seeded THEN Nonneg(bytes + Head(due)) ELSE bytes
    /\ mu' = Free
    /\ UNCHANGED <<doubt, clock, req, marker, rows, sidecar, seeded, more, sweeper, conn, tx, drawer, failed,
                   purged, bounds>>

---------------------------------------------------------------------------
Tick ==
    /\ clock < MaxClock /\ clock' = clock + 1
    /\ UNCHANGED <<doubt, req, marker, more, sweeper, drawer, failed, store, bounds>>

\* The process dies, with the records that have no row yet; Open seeds the count again and attachDebugPersist sweeps once.
Restart ==
    \E old \in SUBSET Overdue, ok \in BOOLEAN :
        LET dead == {r \in Requests : req[r].pc \in {"ended", "published", "saving"}}
            gone(r) == req[r].pc # "idle" /\ r \notin rows
        IN
        /\ restarts < MaxRestarts /\ restarts' = restarts + 1
        /\ Swept(old, {}, TRUE) /\ doubt' = Reseeded
        /\ sidecar' = Keep(Stored \ old) /\ bytes' = Total(Stored \ old)
        /\ seeded' = ok /\ IF ok THEN UNCHANGED faults ELSE Fault
        /\ more' = MoreRemain /\ sweeper' = "idle"
        /\ conn' = Free /\ mu' = Free /\ tx' = NoTx /\ due' = << >> /\ marker' = {}
        /\ req' = [r \in Requests |-> 
                     CASE req[r].pc = "idle" -> req[r]
                       [] gone(r) -> [req[r] EXCEPT !.pc = "gone"]
                       [] OTHER -> [req[r] EXCEPT !.pc = "done"]]
        /\ failed' = failed \union dead
        /\ drawer' = [r \in Requests |-> IF drawer[r] \in {"waiting", "reading"} THEN "left" ELSE drawer[r]]
        /\ UNCHANGED <<clock, rows, purged, purges, merges>>

Next ==
    \/ \E r \in Requests :
          \/ prepareDebugCapture(r) \/ Publish(r) \/ RowStored(r) \/ TakeConn(r)
          \/ saveDebugCaptureUnderCap(r) \/ Release(r)
          \/ OpenDrawer(r) \/ waitPendingCapture(r) \/ DrawerLeaves(r) \/ LoadDebugCapture(r)
    \/ sweepDebugCaptures \/ SweepStores
    \/ \E sel \in {Requests} \union {{r} : r \in Requests} : PurgeBegins(sel)
    \/ mergeDebugTable \/ TxRollsBack \/ CommitDebugDelta \/ PublishDelta
    \/ Tick \/ Restart

Spec == Init /\ [][Next]_vars

---------------------------------------------------------------------------
(* Properties.                                                             *)

\* A seeded count is the bytes of the table whenever its lock is free, and the table
\* never passes the cap, across sweeps, purges, merges, failed commits and restarts
\* (debug.go: an in-transaction total published before its commit would let a
\* rollback bypass the cap).  A statement that landed though it answered an error
\* breaks the first until the count is seeded again and the second from then on:
\* the code reseeds after an uncertain COMMIT only.
BytesExact ==
    /\ (seeded /\ mu = Free /\ doubt # "now") => bytes = Total(Stored)
    /\ doubt = "no" => Total(Stored) <= Cap

\* A drawer that follows the live end misses a capture only if its save failed, it
\* expired or it was purged, never because the save is still running.
NoTransientMiss ==
    \A r \in Requests :
        drawer[r] = "missing" => r \in failed \union purged \/ req[r].expires <= clock

CapturesSound == BytesExact /\ NoTransientMiss
=============================================================================
