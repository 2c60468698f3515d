# Verification of millivolt

millivolt is a Go proxy between LLM clients and LLM providers. It admits requests
under per-key and per-provider limits, retries them behind a shared circuit breaker,
parks them during provider outages, translates and relays streamed answers, lets an
operator hold, throttle or drain the queue, records every request durably, and
restarts or restores its database without losing a request. This directory holds TLA+
models of the parts of it that keep state, TLC instances of them and TLAPS proofs.
Paths below are relative to `src/`; a file named without a directory is in the package
its section names.

1. [Inventory](#1-inventory)
2. [Plan](#2-plan)
3. [Modules and how they correspond to the code](#3-modules-and-how-they-correspond-to-the-code)
4. [Runs](#4-runs)
5. [Fairness](#5-fairness)
6. [Proofs](#6-proofs)
7. [Where the code and its own words disagree](#7-where-the-code-and-its-own-words-disagree)
8. [What is not modelled](#8-what-is-not-modelled)

## 1. Inventory

### How a request travels

`ServeHTTP` in `internal/proxy` charges the request against the process's limits,
reads and parses its body, files it under a conversation and calls, in order,
`WaitStormReady` (is the provider in an outage?), `Acquire` (a slot of the
provider+key group, and a lease of the provider's gate), then a retry ladder:
`doWithRetry` for ordinary providers, `openCursorHTTP` for Cursor. Every send of a
ladder passes `WaitSend` (the group's circuit breaker) and `WaitStorm` (a permit of
the outage gates). The outcome settles the permit (`Observe`, `ObserveQuota`,
`Cancel`) and, when it is retryable, goes through `BackoffFor` and `Trip`; the ladder
ends in `EndSend` or `FailSend`. A stream is then relayed line by line, translated
when client and provider speak different protocols, and sent again when it ends
without an answer. `release` gives the slot and the lease back and serves the next
waiter. A metrics record is put into the live ring, fanned out to the dashboards and
handed to the durable writer. All the waiting is done on close-and-replace channels,
which a waiter snapshots before it reads the condition it waits for, and on timers
whose callbacks close them.

The operator acts from outside at any moment: holds, drains, throttle edits, quota
releases, debug sessions, configuration reloads, purges, imports, a restored backup
and a zero-downtime restart.

### Components

| Component | Code | State | Operations | Hard behaviour | Correct when |
|---|---|---|---|---|---|
| Send gate | `scheduler/scheduler_send.go` | `tripped`, `probing`, backoff streaks, `nextAllowedAt`, the pacer, `sendWaiters`, `sendKick` | WaitSend, BackoffFor, Trip, EndSend, FailSend | many ladders share two flags and one window; snapshot-then-check waits | one owner of the send token, no lost wakeup, only the owner relents, every ladder ends |
| Retry ladders | `proxy/relay_retry.go`, `cursor_bidi.go` | own, retried, budgets, quota parks | attempt, absorb, re-send, exhaust | the token must be given back on every exit | the token never leaves with a finished ladder |
| Storm and quota gates | `scheduler/storm.go`, `proxy/storm.go` | scopes with `active`, `quota`, `probing`, `epoch`, backoff, `retryAt`, samples, refs, queue | WaitStormReady, WaitStorm, Observe, ObserveQuota, Cancel, ReleaseQuota, Configure, eviction | permits settle after the gate they probed was closed, reopened, released, reloaded or evicted | single-file recovery, a probe flag always has its owner, windows are honoured, nobody parks for ever |
| Admission | `scheduler/scheduler_admission.go` | group queues, `inFlight`, granted channels | Acquire, drain, grant, cancel, time out, release | a grant races a cancellation, a timeout, a drain | slots counted exactly, caps kept, no waiter stranded or starved |
| Provider gate | `scheduler/throttle.go` | `inFlight`, token bucket, request window, wake timer, fair list and cursor | tryAdmit, settle, UpdateThrottle, drainProvider, fairSnapshot, advanceFair | the limit is edited under live leases; drains walk a snapshot with no lock held | leases counted on the object they were taken from; a bucket wait has a timer; no window holds more admits than its budget |
| Operator holds | `scheduler/hold.go` | hold rules, attribution of waiters, policy kick | AddHold, ReplaceHold, RemoveHold, expiry, seeding | OnHold and OnUnhold fire outside the lock | a hold counts exactly the waiters it parks and shows only held ones |
| Group table | `scheduler/scheduler_groups.go`, `scheduler_pacing.go` | groups, idle list, pacing memory | lookup, retire, evict, attribute | a group is evicted between lookup and lock | pacing survives; no slot on a retired object |
| Operator pauses | `proxy/pause.go`, `operator_state.go`, `quotapause.go` | documents, timers, generations, name set | edit, expire, pin, persist, restore | an older write lands last; a timer fires after its hold was replaced | a hold ends only when it should and is durable or reported |
| Operator throttles | `proxy/throttle.go` | caps, generations, background writer | post, header patch, persist, flush, close, restore | overlapping writers, a failing repeat | the stored document is the newest policy |
| Debug sessions, captures | `proxy/debug.go`, `capture.go`, `storage/debug.go` | sessions, timers, pending markers, byte count | edit, capture, save, sweep, fetch | two counters on one connection; a purge in between | sessions partition requests, bytes are exact, a capture on its way is not missed |
| Token refresh, model discovery | `proxy/tokenrefresh.go`, `models.go` | one shared exchange, page and byte budgets | refresh, wait, fetch, merge | a waiter gives up, the exchange goes on | one exchange per token, format and base URL, exact reservations, whole lists |
| Conversation tracking | `proxy/conversation.go` | partitions of turn counts | file, sweep, evict | times arrive out of order | conversations stay apart, ordered and bounded |
| Request relay | `proxy/proxy.go`, `inflight.go`, `sse_keepalive.go`, `relay_nonstream.go` | in-flight counters, budgets, keepalive pacer | every step from arrival to record | a ticker commits the status line before the upstream answers | one answer, one record, exact budgets |
| Stream relay | `proxy/relay_stream.go`, `relay_serve.go`, `internal/sse` | hold, buffers, analyzer | read, hold, release, rescue, substitute | the end of an attempt decides about bytes withheld earlier | the client reads one turn; it is booked as what was read |
| Stream translation | `internal/format` | decoders, encoders | decode, encode, close | one value told in deltas, done events and a terminal document | well formed, ended once, everything once and in order |
| Cursor runs | `proxy/cursor_store.go`, `cursor_bidi.go`, `format/cursor_run.go` | parked runs, expiry timer, queue of one run | park, take, expire, pump, drive | expiry against resumption | a run is driven by one caller or closed, once |
| Durable writer, totals, purge, merge | `storage/store_record.go`, `writer.go`, `totals.go`, `purge.go`, `snapshot_merge.go` | queue, producer fence, batches, totals, witnesses | record, flush, purge, merge | a purge against producers on both sides of its fence; totals installed after newer ones | ring, rows and totals agree |
| Live feed | `metrics/buffer.go`, `http.go`, `web/static/js/live.js` | ring, pending registry, epochs, subscribers | Add, Subscribe, replay, removal | a slow subscriber is retired during a fan-out | the page shows what ring and registry hold, and no purged record |
| Snapshot replacement | `storage/snapshot_*.go`, `store_open.go`, `cmd/proxy/backup.go` | main, sidecars, marker files | stage, admit, commit, roll back, recover | a crash between any two renames | one consistent database survives |
| Restart handoff | `cmd/proxy/restart.go`, `main.go` | old and new process, listener, fences | drain, flush, spawn, ready, resume | a failure at any step | every record is durable before the child reads, no request is lost |
| Dashboard | `internal/web/aggregate*.go`, `storage/store_projection.go` | projection, memo, flight | extend, fold, answer | a commit between two reads of one answer | every request counted once, as of the answer's own time |
| Conversation lineage | `web/conversation_lineage.go` | topology, overlay | observe, extend, view | an overlay over a shared graph | the graph says what the declarations say |

The remaining parts (request parsing and overrides, document codecs, configuration,
backup archives, SQL, the dashboard page, clients, tools) transform bytes or wire
parts together and keep no shared state of their own. `PROJECT.json` lists every part
with its files, its status and the reason it is left out, and under `hazards` what in
this code is hard to test, at the line where it bites.

## 2. Plan

The most contended code came first: everything every request passes.

1. **SendGate**, with the abstract **Breaker** - done.
2. **StormGate** - done.
3. **Admission**, with the abstract **Slots** - done.
4. **Holds**, **GroupTable** - done.
5. **Recording** and **Feed** - done.
6. **Request**, **Relay** with **Analyzer**, **CursorRuns** - done.
7. **Replacement**, **Handoff**, **Pauses**, **Throttles**, **NameSet**,
   **DebugSessions**, **Captures**, **Discovery**, **StrictWindow** - done.
8. **Translation**, **Dashboard**, **Lineage**, **Conversations** - done.
9. Theorems for the gates, admission and its wakeups, recording, totals, the handoff,
   the throttles, the holds and the replacement - done.

Left, in this order:

- Theorems for `Pauses` and `DebugSessions`, whose argument is that of `Throttles`, and
  for `GroupTable` and `CursorRuns`.
- The anti-burst ramp of a provider gate and the history of eight drain tickets, which
  Admission abstracts, and the request window inside Admission's gate, which StrictWindow
  has on its own.

## 3. Modules and how they correspond to the code

| Module | What it is |
|---|---|
| `SendGate`, abstract `Breaker` | the circuit breaker of one group and both ladders that drive it; a breaker with one owner: closed, open, half-open |
| `StormGate` | the outage gates of one provider and its models |
| `Admission`, abstract `Slots` | the groups of one provider, its gate and the fair drain; who holds a slot, within the group's and the provider's cap |
| `StrictWindow` | the request budget of a provider gate |
| `Holds`, `GroupTable` | attribution of waiters to holds; the bounded table of groups |
| `Recording`, `Feed` | ring, writer, totals, purge and merge; the live feed up to the page |
| `Replacement`, `Handoff` | replacing the database by a backup; the restart |
| `Pauses`, `NameSet`, `Throttles`, `DebugSessions` | operator documents with their timers and saves |
| `Captures`, `Discovery`, `Conversations` | debug captures; token refresh and model lists; automatic conversations |
| `Request`, `Relay`, `Analyzer`, `CursorRuns` | one request; one streamed answer; what a stream says; resumable runs |
| `StreamEncoders`, `StreamDecoders`, `ResponsesDecoder`, `Translation` | the stream protocols and the loop between them |
| `Dashboard`, `Lineage` | the full-history answers; the conversation graph |
| `MC...` | the small instances TLC checks |
| `...Proofs` | the theorems (section 6) |

Conventions. **One critical section is one action**: what the code does under one hold
of a mutex, in one transaction or in one system call happens at once, and whatever it
does between two of them may be interrupted. **A close-and-replace channel** is the
set `current` of waiters whose snapshot nobody has closed since: closing it empties
the set, so a kick between a waiter's snapshot and its park is seen, as in Go. **A
deadline** is the number of ticks that remain. **A Boolean field** of a request or
scope is the set that has it. Definitions marked *Mutant* are plausible bugs; no
specification uses them, and each property is shown to fail when one of them replaces
the definition that follows it. Every module's head says what it abstracts.

### SendGate

`Start` enters `WaitSend`; `DrainCheck`, `SnapshotKicks`, `HoldCheck`, `AnnounceHold`,
`ParkAtGate`, `PassGate`, `Wake` and `WaitCancelled` are its loop. `StormAdmits` and
`StormRefuses` are the ladder's call of the storm gate; `Succeeds`, `EndsUnretried`,
`ParkOnQuota`, `AbsorbFailure` and `Exhausted` the classes of an outcome the scheduler
tells apart; `BackoffFor`, `Trip`, `EndSend` and `FailSend` the methods of those names.
`Tick`, `PacerExpire` and `PacerKick` are the pacer, whose callback may be under way
while it is armed again. The two ladders differ where the code does: Cursor spends
only storm retries and always ends with `EndSend(key, false)` (`KeepSerial`).
`AddHold`, `RemoveHold`, `HoldExpires`, `DrainQueue` and `ClientAborts` interfere. A
ladder may park on a spent quota as often as it likes, as in the code. The group is not
evicted while requests hold its slots, as in the code.

### StormGate

`Start` and `Waits` are `waitStorm` with reserve false and true, split where it
returns, parks or is refused; `Grant` is the reserving end of it. `ObserveFailure`,
`ObserveSuccess`, `CancelPermit` and `ObserveQuota` settle a permit, `SettleStale`
when a reload has replaced its scope. `Opening` includes the promotion of a storm to
the provider. `Configure` swaps the options, the queue limit and the scope limit among
them, and closes the gates, while those who are queued stay counted; `Evict` makes room
in the scope map. `NextBackoff`, `Jittered` and `Repace` are the delay arithmetic,
cap, multiplier, jitter and hints included. Abstractions: one provider; the 64
sampling buckets are their two totals, which samples leave one at a time
(`SampleExpires`), in any order; a scope of an earlier generation is forgotten; the
caller's context and the maximum wait end a park in the same way (`GiveUp`).
`ObserveQuota` does not test the quota switch because the code does not: the caller
reads its own configuration, which may be older than the installed options.

### Admission and StrictWindow

`AcquireFast` is the fast path with its lock-free look at the waiting count,
`AcquireQueues` the queueing path and `AcquireRefused` the full queue, which is a step
because every arrival may rewrite its group's cap first (`groupForLocked`);
`DrainCheck`, `SnapshotKicks`, `HoldRead`, `ReadGrant`, `Wake`, `UntilFires` and
`WaitCancelled` are the waiter's loop with its two selects; `RemoveQueued` and
`RemoveGranted` are `removeWaiter`; `ReleaseSettles` and `release` give back the lease
and then the slot. A drain is a little program that any number of goroutines run at
once, one action per lock: `MarkGroup`, `CheckProvider`, `fairSnapshot`, `Peek`,
`drainLimited` (its three ends: nobody reachable, refused by the gate, granted),
`CheckCapacity`, `advanceFair`. Timers: `Tick` refills the bucket, `GateWakes` is the
throttle timer's callback, `PacerFires` the group's pacer. `SetHold`, `HoldExpires`,
`DrainQueue` and `UpdateThrottle` are the operator's. A gate object has a generation
(`gateGen`) and its bucket an incarnation (`tokGen`), so a lease of a cleared gate is
told from one of its successor.

Abstractions: the groups are fixed and attributed (GroupTable and Holds have the rest),
AntiBurst is off and the requests-per-window dimension unset: StrictWindow has that
budget, as a ring of stamps for small counts and as even spacing above, with the two
readings of the clock `tryAdmit` makes and the reset of an edit. `tryAdmit` and the
arming of the timer it asks for are one step, since both run under one hold of the
group's lock. A refund beyond the bucket's capacity is clamped at the next refill, as in
the code.

### Holds and GroupTable

Holds keeps, for every waiter, the hold it is attributed to and the edge its row was
told last. An edit publishes the policy, then a seed pass visits the waiters one lock
at a time and fires OnHold after the lock (`fireSeededHold`), while wait loops,
grants and cancellations go on. A hold is the set of waiters it matches, and each
waiter queues in its own group. GroupTable has lookups under `s.mu`, admissions,
cancellations and releases under the group's own lock, eviction of idle groups in the
code's order, and the pacing memory of evicted ones; every lookup applies the cap the
caller brings.

### Recording and Feed

A record is its id; totals are, for every id, how often it was added. `record` enters
the producer fence; the writer's steps are the select, the batch, the transaction
and the accounting that installs its totals unless newer ones are there. `Clear`
publishes a purge command with its accepted boundary and `LoadPurge` takes it; the
purge's commit, the totals it publishes and the cut of the ring are three steps, as they
are three lock holds; `MergeStarts`, `MergeSnapshotFile` and
`installTotals` are a merge on the one connection. A foreign process may commit, a
transaction or a scan may fail, the process may stop or crash. A row carries SQLite's
rowid, which with the count of rewrites is the witness totals are compared by. A
fold reads the totals, then the ring (`TotalsAndUnwritten`).

Feed has the ring's sequence numbers and epoch, the registry of pending requests, the
fan-out to a bounded subscriber, which is retired when it is full, the handler with
its replay, and the page that folds snapshots and events into its rows and resumes at
its cursor. Frames may be lost with the connection. The page's own eviction beyond the
history size and 64 rows (`live.js:714-722`) is left out. The page's branch for a reset
within one epoch is defensive: no server state reaches it.

### Replacement and Handoff

In Replacement one rename, unlink or marker write is a step, and a crash or an I/O error
may come before each. A set of files is a main file and a sidecar, each named by the
database it belongs to. The steps of staging, admission, commit, rollback and recovery
are those of `snapshot_admission.go` and `snapshot_recover.go`, including the recovery
of an interrupted recovery. A marker may land although its write answered an error, and
a boot goes on past a rollback sidecar it could not remove, as the code only logs that;
`lapses` remembers the two failures that a later boot misreads. Handoff has the
restarter's goroutine, the main loop with its signals, the lock reloads share, and the
child that inherits the socket; timers write to the store at any moment, behind no
fence, and a process that cannot keep or reopen its listener dies. Clients wait in its
backlog, and serving one leaves one record in the store's queue.

### Operator documents

Pauses, Throttles and DebugSessions have the same skeleton: an edit merges, checks and
publishes under a lock, then a goroutine persists outside it, guarded by generations;
timers end documents; writes fail or land late; a restart restores what is stored.
Throttles has besides the background writer with its coalescing and retry, and the
flush that excludes both. NameSet bounds the names an operator may pick: observed
ones may be evicted, those of existing documents are pinned.

### Captures, Discovery, Conversations, Dashboard, Lineage

Captures has the pending marker, the save, the expiry sweep, purge and merge on the
one connection with its cached byte count, and the drawer that reads beside them; an
INSERT or a sweep's DELETE may land and still answer an error.
Discovery has the token exchange that requests of one token, format and base URL
share, and the pages, in the envelopes the code unwraps, of a model list under the
budgets of the request and of the process. Conversations files requests whose times
may go backwards, because the time is taken before the body is read. Dashboard has
the shared projection and its one builder, the memo with one flight, and an answer
that joins pending requests, ring and projection; a row is what a fold retains of it.
The chart is one of a trailing window, of a range, floored to a step and clamped to the
serving clock, or of all history; one bucket step stands for the ladder of steps.
Lineage has the durable topology and the view that overlays it for one request.

### Request, Relay, CursorRuns

Request is `ServeHTTP` with the gates and the send reduced to what they return: the
limits, each a counter raised first and compared after, the body's charge, the pacer
beside the handler, the answer in each mode, every early return and the release.
Relay is `streamBody` for one attempt after the other: a line, a read boundary or the
end of the body is a step; Analyzer is what it learns from the lines. A line the body
breaks off in is written or dropped where the code does either. CursorRuns has
the store's lock, the run's lock, the pump with the idle timer that races its read, and
the turn driver; every call and event weighs one byte.

### Translation

A decoder turns a source event into canonical events, an encoder a canonical event
into frames; Translation runs one into the other, closes what a failure left open,
and reads the frames as the client does. The n-th delta carries the token n, so that
a repeated, lost or reordered byte shows. A Responses source tells the items of one of
`Outputs` in deltas, done events and a terminal document and may leave any of them
out; items have ids, a reasoning item is announced before it is told, and part events
carry their item's id. A summary part has an owner and no channel, as in the code,
which then reads as the text channel.

### Instances of many parts

`MCRecording`, `MCProcess`, `MCWire` and `MCLive` hold several parts that do not meet. A
behaviour runs the one its variable `part` names, and the variables `x1`, `x2`, ...
stand for that part's variables in the order its module declares them, so that one state
space holds all parts without their product. One part of each is not an instance:
`MCRecording` extends Recording, `MCProcess` Replacement, `MCWire` Holds and `MCLive`
Handoff, so that the invariant the run checks is the very definition its theorem names.
While another part runs, its variables stay in an initial state. `MCAdmission` and
`MCStormGate` choose a part in another sense: each only leaves steps of `Next` out.

## 4. Runs

| Run | Distinct states | What is in it |
|---|---|---|
| `send_gate` | 474,000 | a generic and a Cursor ladder, every outcome, a clamped and an absent hint, quota parks without bound, a storm retry, one hold, drain or abort at any moment |
| `storm_gate` | 719,000 | two requests of one model with two sends each (threshold storm, provider storm and quota gate overlap); three requests of two models, promotion and a full queue; every switch of policy under parked and sent requests with a scope map that is too small; a queue limit lowered under those that wait |
| `admission` | 1,640,000 | three clients of two keys and one provider slot, an abort or timeout anywhere; one capped key with holds, drains and pacing; arrivals that bring another cap and may be refused; two edits of the limit under leases with under-, over- and missing reports |
| `recording` | 4,460,000 | two records, an imported and a foreign one, a purge, a merge, a failure and a stop; a page and its stream with a subscriber of one place, a purge and faults: over a ring that evicts, over a bootstrap cut to one record, and for one record under more faults |
| `process` | 3,760,000 | nineteen parts: replacement, names, pauses, throttles, groups, budgets, sessions, captures, expiry, refresh, discovery, explorer, ring, merged, chart, history, readers, lineage, conversations |
| `wire` | 2,590,000 | twelve parts: operator holds; Cursor runs shared, foreign, parked and full; Chat, Anthropic and Responses streams relayed; a request and its budgets; translation, whole, cut and refused |
| `live` | 608,000 | what must happen in admission, storm gates, recording, feed, replacement, handoff, throttles, Cursor runs and a request nobody hears; what a restart must not lose |
| `send_gate_drain`, `relay_resend`, `replacement_marker`, `throttles_rewrite`, `translation_reasoning` | | the five disagreements of section 7 |

What they show.

- **Send gate.** `TokenExclusive`: `probing` is set exactly while one live ladder owns
  the token. `WaitersAccounted`: the waiter count moves once per call, and whoever
  sleeps on unclosed channels is shut out by something that ends in a kick.
  `OnlyOwnerRelents`: streaks, window, serial mode and token are given up by the owner
  alone. `ImplementsBreaker`: the refinement of Breaker. `EveryRequestFinishes`: once
  holds stop and the quota is no longer spent (`QuotaClears`), every ladder ends.
- **Storm gates.** `ProbeOwned`: a probe flag always has one unsettled permit behind
  it. `SingleFileRecovery`: an open gate has at most one send admitted since it
  opened. `ClosedByItsProbe`: no permit closes an incident younger than itself.
  `WaitersAccounted`: refs and queue counts are exact across reloads, evictions and
  late settlements, and nobody parks without a timer or a probe to wake him.
  `StormsJust`: only time brings the next probe closer, one bad model never parks a
  healthy one, and a woken request is not turned away for lack of room unless a reload
  lowered the limit meanwhile.
- **Admission.** `SlotsExact`, `GateExact`: both counters equal the real holders.
  `GrantOrQueued`: what `removeWaiter` relies on to tell a grant from a cancellation.
  `WaitersWoken`: when no drain runs or is due, nobody is parked whom window, hold
  and gate would let in, and who waits for tokens alone has a timer. Two waiters are
  excepted (section 7): the one behind a held head while the timer is armed, which TLC
  shows asleep on a larger instance than the run's, and those that would fit a cap which
  an arrival raised and no drain has seen, while a slot of the group is out whose
  release will drain (`RaisedUnseen`).
  `ImplementsSlots`: the refinement of Slots, with real holders in place of counters.
- **Recording.** `RecordsAccounted`: a record is in one place, and what the ring shows
  or the queue accepted the writer has or will take. `TotalsSound`: totals are those
  of the rows unless they say they are not, and a fold loses no record.
  `PurgeIsOneCut`: a purge deletes no row of a record that reached the ring behind its
  fence, and once it has answered the ring shows nothing deleted and has lost nothing
  kept. `PageSound`: a page that has caught up shows what the ring and the registry
  hold, and no record that a purge took.
- **Process.** One invariant per part: the database that counts is never lost, served
  without its frames or mixed with another's, and a restore is all or nothing
  (`ReplacementSound`, up to the two misread failures); bounded tables never forget what
  is in use (`TablesSound`); no window of a provider holds more admits than its budget,
  nor makes a request wait longer than it must (`BudgetKept`); `PausesSound`;
  `ThrottlesDurable`; `SessionsSound`; `CapturesSound`; `DiscoverySound`;
  `DashboardSound`; `LineageExact`, against a reference graph; `TrackerSound`.
- **Wire.** `HoldsAttributed`: a hold counts exactly the requests it parks, a row shown
  as paused belongs to one that is held and stops being so when it departs, and no
  request is parked by two. `RunsSound`: a parked run is driven by one caller of its own
  scope, indexed and counted exactly and always about to expire. `OneTurn`: however many
  attempts are relayed, the client reads one turn. `BookedAsRead`: it is booked as what
  the client read. Both except an attempt torn inside a buffered event, and the second a
  name behind its event's data (section 7). `RequestSound`: one answer, one record,
  exact budgets. `TranslationSound`: a translated stream is well formed, ends once and
  says everything once and in order, but that the Responses encoder may write an error
  before a done frame it has put off (section 7).
- **Live.** `HandoffSound`: every record is written before the child reads the store and the
  old process then writes only what its timers keep, unless a shutdown was asked for; no
  request is lost unless one was, a child that was already ready is killed, or the
  process cannot serve again.
  `GatesLive`: no client is queued or parked for good, however many others
  keep coming back. `RecordingLive`: a purge is answered and a page settles.
  `ServingLive`: the process serves after every crash, a restart serves every client
  and lets go of its lock, a header's cap is saved, a turn ends, a parked run leaves,
  and a parked request that nobody hears gives up its place.

Bounds, all named constants, and why they are enough. Two ladders are the least for
every token race; the third state of the breaker, the exhausted owner's successor,
needs no third one because the ladders fail in either order. Three storm requests give
a probe, a waiter and one more. One backoff doubling reaches the cap; a hint of 3 over
a maximum of 2 exercises the clamp. Three admission clients on two keys give a holder,
a waiter of the same key and a waiter of another, which is the least in which a drain
walks a rotation with somebody to skip. One intervention at any point of anybody's
loop meets every race with one operator call; the policy and gate parts of `admission`
allow two, so that a hold is set and replaced, and a gate cleared and reinstalled.
Lifting a hold is not counted, so a hold never outlasts the bound by itself. Two
records are the least with one on each side of a purge's fence; a ring, a batch and a
queue of two fill. One crash or fault can come before any step, and the recovery is
itself crashed; two writers are the least that overlap, and one failing write the
least that leaves a generation unsaved. Two waiters, two captures, two readers and two
runs meet every race of two; bounded tables of one or two places overflow with them.
Four lines of a stream hold a head, a terminal region, a repeated terminal and a tail;
a Responses event told over two lines takes a fifth.
A ring of two stamps wraps, and a count of 3 over a window of 5 is spaced by a fraction
that is rounded. What the bounds do not reach: a second partition
of automatic conversations (`PartitionsMax` is 1), contention for the limit of requests
in flight in the request's own part, a second attempt in the live part of the storm
gates, and an upstream that streams for ever (`MaxFrames` ends it); `ServingLive` counts a
client whose request a named exception lost as served.
Where the invariant is proved (section 6) the bound does not matter.

## 5. Fairness

Weak fairness only, and only where the runtime provides it:

- a goroutine that can run does run (`WaitStep`, `LadderStep`, `Waits`, `RequestStep`,
  `DrainStep`, `WriterStep`, `MergeStep`, `ClearReturns`, `ServerStep`, `PageStep`, the
  replacement's `Step`, `RestarterStep`, `MainStep`, `ReloadStep`, `ChildStep`, `Accept`,
  `PersistStep` and the other steps of the throttle writers, `Turn`, `Pump`,
  `CloseSwept`, the handler's and the pacer's steps of a request);
- time passes and an armed timer's callback runs (`Tick`, `PacerExpire`, `PacerKick`,
  `TimerFires`, `TimerCallback`, `GateWakes`, `PaceEnds`, `PacerFires`, `IdleTimeout`);
- a send ends, because each has a deadline (the upstream steps of `LadderStep`,
  `Settles`, `Finish`, and the release of a running request); a write to a connection
  nobody reads fails in the end (`Notice`).

Arrivals, aborts, queue timeouts, drains, holds, reloads, releases, crashes and faults
carry no fairness: no liveness result depends on somebody giving up, on the operator
or on a failure. A hold may last, and `doWithRetry` re-sends after a quota pause as long
as the quota is spent, so the send gate's liveness is stated for behaviours in which
holds eventually stop and no ladder parks on its quota any more (`QuotaClears`). That
the process serves again is stated up to the two failures recovery misreads. The others
are stated outright. No run needs strong
fairness: a token or slot that frees is offered by a drain or a kick, not grabbed by
polling.

## 6. Proofs

The theorems hold for every value of the constants allowed by the assumptions: any
number of requests, keys, models, records, caps, budgets, hints, interventions,
failures and restarts.

| Theorem | Says |
|---|---|
| `SendGateProofs!TypeCorrect`, `TokenIsExclusive`, `OneProbeAtATime` | the send token has one owner, recorded by the group, and nobody sends past it |
| `SendGateProofs!SendGateImplementsBreaker` | SendGate implements Breaker |
| `SendGateProofs!WaitersAreAccounted` | a parked send is counted once, and something will wake it |
| `SendGateProofs!OwnerAloneRelents` | streaks, window, serial mode and token are given up by the token's owner alone |
| `StormGateProofs!TypeCorrect`, `ProbesAreOwned`, `RecoveryIsSingleFile`, `GateClosesByItsProbe` | a probe flag has its permit, recovery is single file, and no old permit closes a younger gate |
| `StormGateProofs!WaitersAreAccounted` | counts are exact, and whoever is parked has a timer or a probe to wake him |
| `StormGateProofs!StormsAreJust` | no outage against a healthy model's evidence, no probe before its time, no waiter turned away unless a reload lowered the limit |
| `AdmissionProofs!TypeCorrect`, `CountersExact`, `LeasesExact`, `WaitersAccounted` | both counters equal the real holders; a waiter is queued or granted |
| `AdmissionProofs!AdmissionImplementsSlots` | Admission implements Slots: caps are kept |
| `AdmissionProofs!WaitersAreWoken` | nobody is left parked whom window, hold and gate would let in, but for the two exceptions of section 4; the bucket's waiters have a timer |
| `RecordingProofs!NoRecordDisappears` | a record is in one place, and what ring or queue show the writer has or will take |
| `RecordingProofs!PurgeCutsOnce` | a purge deletes no row of a record that reached the ring behind its fence, and when it answers the ring shows nothing deleted and has lost nothing kept |
| `RecordingProofs!TotalsAreSound` | totals in memory and on disk are those of the rows unless they say they are not; a fold loses no record |
| `HandoffProofs!ChildOpensQuiescentStore`, `RestartLosesNothing`, `HandoffIsSound` | every record is written before the child reads, and then only timers write; no request is lost; both, with the exceptions of section 4 |
| `HoldsProofs!HoldsAreAttributed`, `NobodyMatchesTwice` | a hold counts exactly the requests it parks, nobody departs counted or shown as paused, nobody is parked by two holds |
| `ReplacementProofs!DatabaseIsNeverLost`, `WhatServesIsTheTruth`, `RestoreIsAllOrNothing`, `ReplacementIsSound` | whatever crash or error comes between two file operations, until one of the two failures recovery misreads has happened: the database that counts is on disk with its frames, and what serves is that database; without an I/O error a restore is all or nothing; all three |
| `ReplacementProofs!NoBootRefuses`, `CommittedFramesStay` | under the same condition, recovery never meets files it refuses, and while a main is live its committed frames exist |
| `ThrottlesProofs!CapsAreDurable` | what is recorded as durable is stored; nothing stale lands after a flush; what is in force can be restored |

The theorems name the very definitions the runs check, but for that of Throttles:
`MCProcess` instantiates the module, and its `ThrottlesDurable` is the proved invariant
of that instance.

Assumptions. `SendGateAssumption`, `StormAssumption` and `AdmissionAssumption` say
that the constants have their types, and that the sets of requests are finite where a
cardinality is taken; TLC evaluates them. The other theorems carry theirs in their
statement: in Handoff, `MaxRestarts` is a number. In Throttles (`Setting`), edits are
what the handlers parsed (counts and windows are numbers, a header's rate has an
accepted window), goroutines have distinct names, and the repeat of a superseded
write does not fail: with a failing repeat the theorem is false, as the run
`throttles_rewrite` shows. In Recording (`Setting`), an imported snapshot is finite and
the ids of new records are fresh. In Holds, waiters are finitely many and no hold has
the empty id. In Replacement nothing is assumed of a failure: each may have had its
effect or not. The statements hold until `lapses` has one of two failures that a later
boot takes for something else: the committed marker that lands although its write
answered an error (`replacement_marker` shows what follows), and a rollback sidecar a
boot could not remove and went on past (section 7).

**SendGate.** `TokenInv` is `TypeOK` with `TokenExclusive`, and it is inductive: the
flags move only in `Trip`, `PassGate`, `EndSend` and `FailSend`, each of which moves
`own` with them. The refinement maps the flags to the mode and the element of `own` to
the owner. It needs the invariant to know that the owner who ends is the owner on
record. `WakeInv` adds that an open window has its pacer armed: without that, a send
that parks on the window would not be known to be kicked. That the waiter count is a
cardinality is carried along on its own. `OnlyOwnerRelents` needs that the streaks
stay under the cap, or growing one could shrink it.

**StormGate.** `ProbeOwned` is not inductive. A gate's probe flag may be set in one
epoch and cleared in another, so the proof carries, in `ProbeInv`: a scope's `refs` is
the number of its live permits (`RefsExact`; eviction reads it), a live permit probes
only scopes it claims and whose flag is set (`PermitsKnown`), a live permit that has
missed no opening of an open gate is its probe (`GrantedOpen`), and one that has
missed an opening saw an earlier epoch (`EpochsSeen`). Single-file recovery follows
from `GrantedOpen` and `ProbeOwned`; the action property from `EpochsSeen`. `QueueInv`
adds that the waiter counts are cardinalities, that a scope in use is in the map, that
a cooldown has its timer, and that whoever sleeps is parked on a scope of this
generation with a timer or a probe out (`SleepersQueued`).

**Admission.** `TypeInv` adds to `TypeOK` where a request that runs a drain stands
(`DrainersStand`), so that a drain's end returns it to the right point. `SlotInv` joins
`GrantOrQueued`, `SlotsExact`, `GateExact` and `LeasesHeld`: a lease belongs to a
request that was granted and has not settled, and comes from the installed gate or an
older one. Without it a settlement could be a second one. The refinement is then one
step per action: a grant is made under `inFlight < cap`, and exactness turns the
counter into the holders. The order of the fair list is not needed for it, so the
proof treats the rotation as an arbitrary sequence of groups.

**Wakeups.** `WaitersWoken` speaks of the moment when nothing runs any more, so it
needs to know what every running drain will still do. `WakeInv` follows a waiter that
is *asleep*: parked, or in the drain before its park, with every channel it took still
open. Its group is in the fair list, or a pacer, a kick or a drain is bound to put it
there (`Marked`); and a group in the list has a drain that comes to it again, by what
is left in `tomark`, by its place in the round the drain walks or by a grant that
earns another pass, or a timer set for no later than the tokens its head waits for
(`Walked`). Five facts carry these two: a queue is a strict total order, so that a
queue with somebody a drain may reach has a first one (`QueueOrder`); walks stay
inside their round and start at its beginning (`WalksInside`); a request's own drain
marks its own group and then walks (`OwnMark`); a waiter nobody has kicked still sees
the hold it read (`HoldSeen`); and only a bucket arms the timer (`TimerHasBucket`).
Here the order of the fair list matters: the rotation holds every group of the list,
and withdrawing one takes out no other. TLC checked the seven on the run's instance
and on one with three clients of one key behind a held head before they were proved.

**Recording.** `RecordsInv`: a record is queued once and leaves the queue once, the
numbers of accepted and consumed records differ by what is queued or in hand
(`OnceQueued`); the places exclude each other (`Apart`); the ring shows only what was
seen (`RingSeen`); and while a purge is due the writer takes nothing that was enqueued
after its fence (`FenceKept`), which needs that a purge and a merge have one
administrator at a time (`OneAdmin`). The cut follows: what joined the ring behind the
fence is not in the rows when the purge deletes them. Commit, totals and the cut of the
ring are three steps, so the statement about the ring is made for the moment the purge
answers; until then what the ring still shows of the deleted is selected and of the
purge's own side of the fence (`CutKept`).

**Totals.** The document is exact for the rows whose witness it carries (`DocExact`),
memory never has a witness ahead of the database and with the database's own is exact
(`MemExact`), the written set is counted (`WrittenCounted`), and between its commit
and its accounting a batch is counted on either side of the comparison `account` makes
(`CommitSound`). The last is what makes "install unless newer" safe under a purge or
a merge that commits in between. Witnesses are maxima of rowids; that a bounded set of
naturals has a maximum is derived from the well-foundedness of `<`, since the
induction rules of the library cannot be instantiated here.

**Handoff.** `HandoffInv` says where the phase, the child, the socket and the reload
fence stand together, and, until a shutdown is asked for (`Unasked`), who listens and
that nothing is unwritten from the flush on. `overlap` collects what the old process
writes once the child has opened the store; timers are the only source the proof leaves
in it. The ways a process dies of its own (`fatal`) and the killing of a ready child
(`lateKill`) are remembered, and the theorem is stated without them.

**Holds.** `CountsExact` speaks of the moments without a prune under way and is not
inductive. `HoldsInv` counts at every moment, for the ids in the policy alone
(`Counted`): an id that left it never comes back, so what a late adoption does to its
pruned count does not matter, and an id that was never drawn is counted and named
nowhere (`Fresh`), so a new hold starts exact. `Placed` ties a waiter's fields to where
it is: who is not in its wait loop holds nothing. `MatchedOnce` is inductive beside it:
an edit compares the new hold with every active one, and nothing makes an expired one
active again. The list of unexpired holds is a recursive function; that it
holds exactly the policy's entries at those places is derived from a least
counterexample.

**Replacement.** A crash may come before any file operation, so the disk itself must be
recoverable after each. There are four such disks: nothing there (`Blank`), the database
live and no replacement pending (`Settled`), pending with the main still live (`Home`),
pending with the database moved aside (`Away`). `ReplacementInv` says for every program
of file operations, by what is left of it, which of the four is there and how far it has
come (`Point`): two programs that end alike share their end, so the way back of the
previous set (`Returning`) is stated once for recovery, with and without the quarantine
of the snapshot, and for rollback. A step then leads from one line to the next, a
failure to the first line of a rollback, a crash to `Recoverable`. What a boot does is
decided by the disk alone, so recovery needs no memory of what was interrupted.
`SlotKept` is the same for slot and configuration while a restore runs.
`CommittedFramesStay` adds that only the database that counts has frames outside its
main (`OneLog`). All of it is under `lapses = {}`; every other failure, a pending marker
that lands or a removed one that is gone although the call failed among them, is one of
the lines. The attempt showed that two guards of the CASE in `Admit` overlapped: an
absent snapshot is invalid too. They are disjoint now; TLC had taken the first.

**Throttles.** The document may lag behind as long as a writer `Owes` the policy
in force: a write superseded on its way repeats. `SavedIsStored` says that a
generation recorded as durable is stored or owed, and `SealKept` that after a flush no
writer owes anything.

Only model-checked, and why:

- liveness under fairness and anything with ENABLED, which the prover does not do
  (`EveryRequestFinishes`, `GatesLive`, `RecordingLive`, `ServingLive`);
- `PageSound` and the invariants of `MCProcess`, `BudgetKept` among them, and `MCWire`
  but `ReplacementSound`, `HoldsAttributed` and `ThrottlesDurable`: translation, relay,
  lineage and the dashboard are compared with references over sequences built step by
  step, which would take induction over data, and what a recursive or folded definition
  computes for every input cannot be proved with the installed backends; the others have
  no proof yet.

## 7. Where the code and its own words disagree

Each is a run that TLC must find violated.

- `send_gate_drain`: `WaitSend` reads the drain tickets (`scheduler_send.go:156`)
  before it snapshots the policy channel (`:160`). A `DrainQueue` between the two is
  seen by neither, and the send sleeps through it, although "DrainQueue releases every
  parked waiter matching scope". `acquire` has the same order
  (`scheduler_admission.go:260-267`). Taking the snapshot first closes the gap.
- `relay_resend`: a relay that gave up its hold and let the withheld bytes out is sent
  again when the body ends in an unterminated terminal line (`relay_stream.go:802`),
  although "A committed verbatim relay (holdAborted) must never be re-sent".
- `replacement_marker`: when the committed marker's rename lands and the directory sync
  behind it fails, Open rolls back under a marker that says committed
  (`snapshot_admission.go:246`); a crash in the middle makes the next boot delete the
  WAL frames the rollback still needs.
- `throttles_rewrite`: a superseded write lands last and its repeat fails; the older
  policy stays stored under a generation recorded as saved (`proxy/throttle.go:404`).
- `translation_reasoning`: a reasoning item with a summary and content parts reaches
  the client without its content (`format/responses_apply.go:242`).

Noticed while modelling, without a run of their own:

- A drain during a quality re-send leaves the record at status 200 while the client
  gets a 503 (`proxy/queue.go`, `absorbResend`).
- The Cursor ladder ends every owned send with `EndSend(key, false)`
  (`cursor_bidi.go:544`), so a send that retried and then succeeded restores full
  concurrency at once; the scheduler's package comment reserves that for "a clean
  first-attempt success". A probe that ends without a verdict does the same.
- In the second select of `acquire` a grant and a drain can both be ready and Go picks
  either (`scheduler_admission.go:332`); the comment at `:258` says the drain wins.
- `removeWaiter` skips the drain for a waiter that is not the head
  (`scheduler_admission.go:763`); behind a held head the next waiter may fit the
  bucket now and waits for the timer set for the larger one. `NoLostWakeup` without
  its last disjunct is false for that reason: with one key, a bucket of two, one token
  left, a held head and an aborted waiter of two tokens behind it, the third, who
  needs one, sleeps a tick longer than it has to.
- An `Acquire` that raises its group's cap (`scheduler_groups.go:177-181`) and is then
  refused for a full queue (`scheduler_admission.go:197-199`, `:211-213`) runs no drain:
  waiters that now fit sleep until the next release.
- A reload that lowers `MaxQueue` (`storm.go:97-110`) keeps those queued; one that wakes
  and parks again is turned away with a full queue (`:324`).
- Any edit of a provider's policy, even of its concurrency alone, resets the request
  window (`throttle.go:369-375`, `:535`), so an edit in the middle of a window lets more
  than `Count` through it, although "No window of the configured length ever contains
  more than Count admits" (`:97-99`). `BudgetKept` speaks of one installed policy.
- "OnHold still fires exactly once per waiter" (`hold.go:537-540`) is not so: an adoption
  under a hold that has just left the policy spends the edge, and the row is not told of
  the hold that replaced it.
- The timers of pauses, debug sessions and quota pauses and the writer's ticker write to
  the store behind no fence (`pause.go:871`, `debug.go:409`, `quotapause.go:114`,
  `store_record.go:225-229`), also while the child opens it, although
  `cmd/proxy/restart.go:39-40` says "no concurrent-writer window exists" and `:451` "without
  overlapping predecessor writes". A restart whose listener cannot be reopened ends the
  process (`:605-609`) with whoever waits in the backlog.
- A rollback sidecar that could not be removed is only logged
  (`snapshot_recover.go:298-302`). When the next restore has moved its main aside and
  crashes, recovery puts the old sidecar beside that main.
- A capture's INSERT and the sweep's DELETE run under a deadline and may land and answer
  an error (`storage/debug.go:86-91`). The cached byte count is then off, which the code
  is careful about for COMMIT (`:336-339`).
- Refreshes are shared "for the same provider + refresh token" (`tokenrefresh.go:83-84`);
  the key has the format and the base URL (`:117-120`), so one token over two base URLs
  is exchanged twice at once.
- An attempt that breaks off inside a line of a buffered event has that fragment written
  (`relay_stream.go:360`, `:630-640`); the boundary's one newline (`:193`) ends the line and
  not the event, so the next attempt's lines join it. `:171-178` says the partial line is
  dropped and "the next data line cannot join an existing payload".
- A body that ends with an event name behind its data leaves that event undispatched,
  although a healthy turn "must still close the client's SSE event at EOF"
  (`relay_stream.go:306-309`).
- A reasoning summary's parts have no channel of their own and read as text, so an
  item without an id that follows at the announced position is taken for emitted, which
  `responses_channels.go:306-309` is to prevent; items without ids that the terminal
  document renumbers are told again.
- The Responses encoder puts off a message's done frame until its next block
  (`responses_encoder.go:294-304`) and writes an error before it (`:321`, `:427`),
  although "a target client must never receive an error or terminal frame for a block
  that is still open" (`translate.go:403-405`, `responses_keys.go:271-273`).
- A fold can count a record twice when it is written between the fold's two reads
  (`store_record.go:286`); `docs/architecture.md:373` says "never double counting".
- `addQuotaHold` does not go through `syncNamePins`, so the pins may miss a quota hold.
- A run whose stream ends while it is parked queues its end before it is closed; a
  resume then ends as an empty "stop".

## 8. What is not modelled

- The anti-burst ramp of a provider gate, and the request window as part of Admission's
  gate; the history of eight drain tickets; a reload that lowers the longest backoff and
  shrinks a streak with it; a timer's own generation counter, which is part of the choice
  between a current and a late callback.
- The throttles restored at startup are an initial state of Admission (`FirstLimit`),
  not an action; their restoration is in Throttles.
- The idle reader of a plain body, over-long line fragments of a stream, documents
  printed over more than two data lines, token counts and timings.
- Blob budgets and usage counters of Cursor runs; identities, citations, signatures
  and usage numbers of translated streams; what a capture or a snapshot holds; the
  enrichment of model entries.
- A COMMIT that lands and answers an error, in Recording; rows the page itself drops
  beyond its history; a server that fails in the middle of its life.
- The ladder of bucket steps of a chart, for which one step stands; reasoning summaries
  over several lines, which only a larger instance than the run's would tell apart.
- The dashboard's other surfaces, which read the way the explorer and the chart do,
  and rows deleted by another process.
- Statistics snapshots read state and change none.
- Parsers, overrides, document codecs, configuration, archives, SQL, the dashboard
  page, clients and tools are sequential transformations of data or I/O; their
  difficulty is in grammars and layouts, not in orders of steps.
