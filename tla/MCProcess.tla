--------------------------- MODULE MCProcess ---------------------------
(***************************************************************************)
(* Small instances of the parts beside the gates and the wire: database    *)
(* replacement, operator state, tables, debug captures, discovery and the  *)
(* dashboard.  The parts do not meet here: a behaviour runs the one that   *)
(* part names.  Replacement is extended; the others share registers: x1,   *)
(* x2, ... stand for the variables of that part in the order its module    *)
(* declares them.                                                          *)
(***************************************************************************)
EXTENDS Replacement, FiniteSets

CONSTANT Parts    \* the parts a run takes up

VARIABLES part, x1, x2, x3, x4, x5, x6, x7, x8, x9, x10, x11, x12, x13, x14, x15, x16, x17,
          x18, x19, x20, x21, x22, x23, x24, x25, x26
registers == <<x1, x2, x3, x4, x5, x6, x7, x8, x9, x10, x11, x12, x13, x14, x15, x16, x17,
                x18, x19, x20, x21, x22, x23, x24, x25, x26>>


Unused == 0

---------------------------------------------------------------------------
(* What operators, clients and upstreams may send.                         *)

\* A hold of everybody (scope left out), of new names or of one client.
Hold(new, clients, stated, dur) ==
    [all |-> FALSE, new |-> new, clients |-> clients, providers |-> {}, stated |-> stated, dur |-> dur]
HoldBodies ==
    {Hold(FALSE, {}, TRUE, 0), Hold(FALSE, {}, TRUE, 1), Hold(TRUE, {}, FALSE, 0),
     Hold(FALSE, {{"c1"}}, FALSE, 0)}

\* Throttle edits, by the fields they state.
Edit(has, conc, count, window) ==
    [has |-> has, conc |-> conc, count |-> count, window |-> window, anti |-> FALSE, ramp |-> 0]
Patches == {Edit({"conc"}, 1, 0, 0), Edit({"rate"}, 0, 1, 1), Edit({"rate"}, 0, 0, 0)}
Posts == {Edit({"clear"}, 0, 0, 0), Edit({"conc"}, 1, 0, 0), Edit({"window"}, 0, 0, 2),
          Edit({"count", "window"}, 0, 1, 1), [Edit({"anti"}, 0, 0, 0) EXCEPT !.anti = TRUE]}

\* Debug sessions over clients and models; m-fast is a spelling of m.
Session(client, model, stated, dur) ==
    [scope |-> [client |-> client, provider |-> {}, model |-> model], stated |-> stated, dur |-> dur]
SessionBodies ==
    {Session({}, {}, FALSE, 0), Session({{"a"}}, {}, TRUE, 1), Session({{"a", "b"}}, {}, TRUE, 2),
     Session({}, {{"m-fast"}}, FALSE, 0), Session({{}}, {{"m"}}, TRUE, 1)}

\* Pages of a model list: a last page, pages with a cursor, other documents.
Page(kind, n, size, declared, next) ==
    [kind |-> kind, n |-> n, members |-> <<>>, size |-> size, declared |-> declared, next |-> next]
Member(key, holds, n) == [key |-> key, holds |-> holds, n |-> n]
Envelope(members) == [Page("envelope", 0, 1, TRUE, "none") EXCEPT !.members = members]
Pages == {Page("list", 1, 1, TRUE, "none"), Page("list", 1, 1, FALSE, "c1"), Page("list", 2, 2, TRUE, "c2"),
          Page("foreign", 0, 1, TRUE, "none"), Page("status", 0, 1, FALSE, "none"),
          Page("list", 1, 3, FALSE, "none"),
          Envelope(<<Member("data", "other", 0), Member("data", "array", 1)>>),
          Envelope(<<Member("data", "null", 0), Member("models", "array", 2)>>),
          Envelope(<<Member("models", "other", 0), Member("data", "array", 1)>>)}

\* Rows of the conversation graph, in two scopes.
Row(scope, conv, parent) == [scope |-> scope, conv |-> conv, parent |-> parent]
LineageRows == {Row("s", c, p) : c \in {"x", "y", "z"}, p \in {"x", "y", "none"}}
                 \union {Row("t", "x", "y")}

\* Requests to file: automatic ones of two credentials, declared and tracked ones.
Call(key, turns) == [part |-> key, sessions |-> <<>>, parents |-> <<>>, declared |-> FALSE,
                     members |-> <<>>, turns |-> turns]
Calls == {Call("p", 1), Call("p", 2), Call("q", 1),
          [Call("p", 1) EXCEPT !.sessions = <<"a">>],
          [Call("p", 1) EXCEPT !.sessions = <<"a">>, !.parents = <<"a">>, !.declared = TRUE],
          [Call("p", 1) EXCEPT !.members = [x |-> "other", y |-> "a"]],
          [Call("p", 2) EXCEPT !.members = [x |-> "twice", y |-> "a"]]}

---------------------------------------------------------------------------

(* Registers past the k-th that a part does not use. *)
Blank21 == x22 = Unused /\ x23 = Unused /\ x24 = Unused /\ x25 = Unused /\ x26 = Unused
Rest21 == <<x22, x23, x24, x25, x26>>
Blank16 == x17 = Unused /\ x18 = Unused /\ x19 = Unused /\ x20 = Unused /\ x21 = Unused
           /\ Blank21
Rest16 == <<x17, x18, x19, x20, x21, Rest21>>
Blank13 == x14 = Unused /\ x15 = Unused /\ x16 = Unused /\ Blank16
Rest13 == <<x14, x15, x16, Rest16>>
Blank9 == x10 = Unused /\ x11 = Unused /\ x12 = Unused /\ x13 = Unused /\ Blank13
Rest9 == <<x10, x11, x12, x13, Rest13>>
Blank5 == x6 = Unused /\ x7 = Unused /\ x8 = Unused /\ x9 = Unused /\ Blank9
Rest5 == <<x6, x7, x8, x9, Rest9>>
Blank4 == x5 = Unused /\ Blank5
Rest4 == <<x5, Rest5>>
Blank1 == x2 = Unused /\ x3 = Unused /\ x4 = Unused /\ Blank4
Rest1 == <<x2, x3, x4, Rest4>>

\* Three names for a set of two.
Naming == INSTANCE NameSet WITH
    Names <- {1, 2, 3}, Families <- {"pause", "debug"}, NameSetMax <- 2, Slack <- 0,
    MaxBumps <- 6,
    set <- x1
\* Two hold ids, a failing write and a restart.
Pausing == INSTANCE Pauses WITH
    Clients <- {"c1"}, Providers <- {"p"}, Ids <- {"x", "y"}, Bodies <- HoldBodies,
    MaxClock <- 2, MaxEdits <- 2, MaxFaults <- 1, MaxRestarts <- 1,
    clock <- x1, known <- x2, holds <- x3, policy <- x4, timers <- x5, firing <- x6,
    gen <- x7, savers <- x8, pins <- x9, doc <- x10, resumed <- x11, lost <- x12,
    deadline <- x13, used <- x14, faults <- x15, restarts <- x16
\* One operator and one header on one provider.
Throttling == INSTANCE Throttles WITH
    Providers <- {"p"}, MaxGates <- 1, Operators <- {"o"}, Headers <- {"h"}, Posts <- Posts,
    Patches <- Patches, Windows <- {1, 2}, RewriteFails <- FALSE, MaxEdits <- 2,
    MaxFaults <- 1, MaxRestarts <- 1,
    policy <- x1, gen <- x2, saved <- x3, started <- x4, closed <- x5, wake <- x6,
    procs <- x7, doc <- x8, sealed <- x9, owed <- x10, edits <- x11, faults <- x12,
    restarts <- x13
\* Budgets off, of one and three stamps, and evenly spaced.
Budgeting == INSTANCE StrictWindow WITH
    Budgets <- {<<0, 1>>, <<1, 2>>, <<2, 3>>, <<3, 5>>}, MaxSlots <- 2, MaxTime <- 14,
    MaxResets <- 2,
    now <- x1, w <- x2, log <- x3, resets <- x4
\* Two keys for a table of one group.
Grouping == INSTANCE GroupTable WITH
    Requests <- {"r1", "r2", "r3"}, Keys <- {"k1", "k2"},
    KeyOf <- [r1 |-> "k1", r2 |-> "k2", r3 |-> "k1"],
    ProviderOf <- [r1 |-> "p1", r2 |-> "p1", r3 |-> "none"], GroupCap <- 1, PacingCap <- 1,
    CapOf <- [r1 |-> 1, r2 |-> 1, r3 |-> 2], MaxGroups <- 4, MaxPace <- 1,
    groups <- x1, obj <- x2, made <- x3, idle <- x4, pacing <- x5, linked <- x6,
    fairQueued <- x7, smu <- x8, cand <- x9, pc <- x10, at <- x11, paced <- x12,
    forgotten <- x13
\* Two session ids, a failing write and a restart.
Debugging == INSTANCE DebugSessions WITH
    Requests <- [client : {"a", "b"}, provider : {"p"}, model : {"m", "m-fast"}],
    Canon <- [m \in {"m", "m-fast"} |-> "m"], Ids <- {"x", "y"}, Bodies <- SessionBodies,
    MaxClock <- 3, MaxEdits <- 2, MaxFaults <- 1, MaxRestarts <- 1,
    clock <- x1, sessions <- x2, timers <- x3, firing <- x4, gen <- x5, savers <- x6,
    doc <- x7, stopped <- x8, lost <- x9, deadline <- x10, used <- x11, faults <- x12,
    restarts <- x13
\* Two captures and a merged one under a cap of two, too young to expire.
Capturing == INSTANCE Captures WITH
    Requests <- {"a", "b"}, Watched <- {"a"}, Incoming <- {"i"},
    Size <- [i \in {"a", "b", "i"} |-> IF i = "b" THEN 2 ELSE 1], Forever <- {}, Cap <- 2,
    TTL <- 1, ExpireBatch <- 1, BatchesPerSweep <- 1, MaxClock <- 2, MaxFaults <- 1,
    MaxPurges <- 1, MaxMerges <- 1, MaxRestarts <- 1,
    clock <- x1, req <- x2, marker <- x3, rows <- x4, sidecar <- x5, bytes <- x6,
    seeded <- x7, more <- x8, sweeper <- x9, conn <- x10, mu <- x11, tx <- x12, due <- x13,
    drawer <- x14, failed <- x15, purged <- x16, doubt <- x17, faults <- x18, purges <- x19,
    merges <- x20, restarts <- x21
\* Two captures that may expire.
Sweeping == INSTANCE Captures WITH
    Requests <- {"a", "b"}, Watched <- {"a"}, Incoming <- {},
    Size <- [i \in {"a", "b", "i"} |-> IF i = "b" THEN 2 ELSE 1], Forever <- {}, Cap <- 2,
    TTL <- 1, ExpireBatch <- 1, BatchesPerSweep <- 1, MaxClock <- 3, MaxFaults <- 1,
    MaxPurges <- 0, MaxMerges <- 0, MaxRestarts <- 1,
    clock <- x1, req <- x2, marker <- x3, rows <- x4, sidecar <- x5, bytes <- x6,
    seeded <- x7, more <- x8, sweeper <- x9, conn <- x10, mu <- x11, tx <- x12, due <- x13,
    drawer <- x14, failed <- x15, purged <- x16, doubt <- x17, faults <- x18, purges <- x19,
    merges <- x20, restarts <- x21
\* An inference request and two discoveries on one refresh token, over two base URLs.
Renewing == INSTANCE Discovery WITH
    Requests <- {"i", "d1", "d2"}, Inference <- {"i"},
    Refreshes <- [r \in {"i", "d1", "d2"} |-> "t"], None <- "none", Tokens <- {"t"},
    Expiring <- {"i", "d1", "d2"}, Format <- [r \in {"i", "d1", "d2"} |-> "cursor"],
    BaseURL <- [i |-> "u", d1 |-> "u", d2 |-> "v"], Enriched <- FALSE,
    Answers <- {Page("list", 1, 1, TRUE, "none")}, PagesMax <- 1, BytesMax <- 2,
    EntriesMax <- 2, ResponseLimit <- 3, MaxExchanges <- 3,
    req <- x1, flights <- x2, current <- x3, good <- x4, bytes <- x5
\* Two discoveries under one budget.
Discovering == INSTANCE Discovery WITH
    Requests <- {"d1", "d2"}, Inference <- {}, Refreshes <- [r \in {"d1", "d2"} |-> "none"],
    None <- "none", Tokens <- {}, Expiring <- {},
    Format <- [d1 |-> "anthropic", d2 |-> "openai"],
    BaseURL <- [r \in {"d1", "d2"} |-> "u"], Enriched <- TRUE, Answers <- Pages,
    PagesMax <- 2, BytesMax <- 3, EntriesMax <- 2, ResponseLimit <- 4, MaxExchanges <- 0,
    req <- x1, flights <- x2, current <- x3, good <- x4, bytes <- x5
\* One reader against commits, a purge, a new vocabulary and a failure.
Viewing == INSTANCE Dashboard WITH
    Requests <- {"a"}, Foreign <- {}, Readers <- {"q"}, Views <- {"explorer"}, Window <- 1,
    Step <- 1, RangeStart <- 1, RangeEnd <- 2, RingCap <- 1, MaxClock <- 0, MaxAsks <- 2,
    MaxPurges <- 1, MaxInstalls <- 1, MaxFaults <- 1,
    clock <- x1, start <- x2, pend <- x3, pendingRevision <- x4, ring <- x5,
    finalRevision <- x6, queue <- x7, accounting <- x8, rows <- x9, epoch <- x10,
    version <- x11, written <- x12, vocabulary <- x13, classRevision <- x14,
    installing <- x15, data <- x16, building <- x17, memo <- x18, reader <- x19,
    purging <- x20, throughout <- x21, ever <- x22, asks <- x23, purges <- x24,
    installs <- x25, faults <- x26
\* One reader, two requests and a ring of one place.
Evicting == INSTANCE Dashboard WITH
    Requests <- {"a", "b"}, Foreign <- {}, Readers <- {"q"}, Views <- {"explorer"},
    Window <- 1, Step <- 1, RangeStart <- 1, RangeEnd <- 2, RingCap <- 1, MaxClock <- 0,
    MaxAsks <- 1, MaxPurges <- 0, MaxInstalls <- 0, MaxFaults <- 0,
    clock <- x1, start <- x2, pend <- x3, pendingRevision <- x4, ring <- x5,
    finalRevision <- x6, queue <- x7, accounting <- x8, rows <- x9, epoch <- x10,
    version <- x11, written <- x12, vocabulary <- x13, classRevision <- x14,
    installing <- x15, data <- x16, building <- x17, memo <- x18, reader <- x19,
    purging <- x20, throughout <- x21, ever <- x22, asks <- x23, purges <- x24,
    installs <- x25, faults <- x26
\* One reader against a commit of another process and a purge.
Merging == INSTANCE Dashboard WITH
    Requests <- {"a"}, Foreign <- {"f"}, Readers <- {"q"}, Views <- {"explorer"},
    Window <- 1, Step <- 1, RangeStart <- 1, RangeEnd <- 2, RingCap <- 1, MaxClock <- 0,
    MaxAsks <- 2, MaxPurges <- 1, MaxInstalls <- 0, MaxFaults <- 0,
    clock <- x1, start <- x2, pend <- x3, pendingRevision <- x4, ring <- x5,
    finalRevision <- x6, queue <- x7, accounting <- x8, rows <- x9, epoch <- x10,
    version <- x11, written <- x12, vocabulary <- x13, classRevision <- x14,
    installing <- x15, data <- x16, building <- x17, memo <- x18, reader <- x19,
    purging <- x20, throughout <- x21, ever <- x22, asks <- x23, purges <- x24,
    installs <- x25, faults <- x26
\* A window that moves with the clock and a range that ends at it, on buckets of two.
Charting == INSTANCE Dashboard WITH
    Requests <- {"a"}, Foreign <- {}, Readers <- {"q"}, Views <- {"chart", "range"},
    Window <- 1, Step <- 2, RangeStart <- 3, RangeEnd <- 5, RingCap <- 1, MaxClock <- 5,
    MaxAsks <- 2, MaxPurges <- 0, MaxInstalls <- 0, MaxFaults <- 0,
    clock <- x1, start <- x2, pend <- x3, pendingRevision <- x4, ring <- x5,
    finalRevision <- x6, queue <- x7, accounting <- x8, rows <- x9, epoch <- x10,
    version <- x11, written <- x12, vocabulary <- x13, classRevision <- x14,
    installing <- x15, data <- x16, building <- x17, memo <- x18, reader <- x19,
    purging <- x20, throughout <- x21, ever <- x22, asks <- x23, purges <- x24,
    installs <- x25, faults <- x26
\* A chart of all history, on buckets of two.
Recalling == INSTANCE Dashboard WITH
    Requests <- {"a"}, Foreign <- {"f"}, Readers <- {"q"}, Views <- {"all"}, Window <- 1,
    Step <- 2, RangeStart <- 1, RangeEnd <- 2, RingCap <- 1, MaxClock <- 3, MaxAsks <- 2,
    MaxPurges <- 0, MaxInstalls <- 0, MaxFaults <- 0,
    clock <- x1, start <- x2, pend <- x3, pendingRevision <- x4, ring <- x5,
    finalRevision <- x6, queue <- x7, accounting <- x8, rows <- x9, epoch <- x10,
    version <- x11, written <- x12, vocabulary <- x13, classRevision <- x14,
    installing <- x15, data <- x16, building <- x17, memo <- x18, reader <- x19,
    purging <- x20, throughout <- x21, ever <- x22, asks <- x23, purges <- x24,
    installs <- x25, faults <- x26
\* Two readers of one key.
Sharing == INSTANCE Dashboard WITH
    Requests <- {"a"}, Foreign <- {}, Readers <- {"q", "s"}, Views <- {"explorer"},
    Window <- 1, Step <- 1, RangeStart <- 1, RangeEnd <- 2, RingCap <- 1, MaxClock <- 1,
    MaxAsks <- 2, MaxPurges <- 0, MaxInstalls <- 0, MaxFaults <- 1,
    clock <- x1, start <- x2, pend <- x3, pendingRevision <- x4, ring <- x5,
    finalRevision <- x6, queue <- x7, accounting <- x8, rows <- x9, epoch <- x10,
    version <- x11, written <- x12, vocabulary <- x13, classRevision <- x14,
    installing <- x15, data <- x16, building <- x17, memo <- x18, reader <- x19,
    purging <- x20, throughout <- x21, ever <- x22, asks <- x23, purges <- x24,
    installs <- x25, faults <- x26
\* Two projected rows and two of the ring.
Tracing == INSTANCE Lineage WITH
    Rows <- LineageRows, None <- "none", MaxBase <- 2, MaxView <- 2,
    topo <- x1, view <- x2, seen <- x3, payload <- x4
\* Three requests for one partition.
Filing == INSTANCE Conversations WITH
    Requests <- {1, 2, 3}, Calls <- Calls, Params <- <<"x", "y">>, Valid <- {"a"},
    None <- "none", Limits <- {[gap |-> 1, open |-> 1], [gap |-> 1, open |-> 2]},
    PartitionsMax <- 1, MaxClock <- 2, MaxReloads <- 1,
    clock <- x1, parts <- x2, order <- x3, sequence <- x4, limits <- x5, lastSweep <- x6,
    req <- x7, reloads <- x8, given <- x9

\* The files of a deployment nobody has started, while another part runs.
Idle == Init /\ truth = None

PartInit ==
    /\ part \in Parts
    /\ \/ part = "replacement" /\ Init /\ x1 = Unused /\ Blank1
       \/ part = "names" /\ Naming!Init /\ Blank1 /\ Idle
       \/ part = "pauses" /\ Pausing!Init /\ Blank16 /\ Idle
       \/ part = "throttles" /\ Throttling!Init /\ Blank13 /\ Idle
       \/ part = "budgets" /\ Budgeting!Init /\ Blank4 /\ Idle
       \/ part = "groups" /\ Grouping!Init /\ Blank13 /\ Idle
       \/ part = "sessions" /\ Debugging!Init /\ Blank13 /\ Idle
       \/ part = "captures" /\ Capturing!Init /\ Blank21 /\ Idle
       \/ part = "expiry" /\ Sweeping!Init /\ Blank21 /\ Idle
       \/ part = "refresh" /\ Renewing!Init /\ Blank5 /\ Idle
       \/ part = "discovery" /\ Discovering!Init /\ Blank5 /\ Idle
       \/ part = "explorer" /\ Viewing!Init /\ Idle
       \/ part = "ring" /\ Evicting!Init /\ Idle
       \/ part = "merged" /\ Merging!Init /\ Idle
       \/ part = "chart" /\ Charting!Init /\ Idle
       \/ part = "history" /\ Recalling!Init /\ Idle
       \/ part = "readers" /\ Sharing!Init /\ Idle
       \/ part = "lineage" /\ Tracing!Init /\ Blank4 /\ Idle
       \/ part = "conversations" /\ Filing!Init /\ Blank9 /\ Idle

PartNext ==
    /\ UNCHANGED part
    /\ \/ part = "replacement" /\ Next /\ UNCHANGED registers
       \/ part = "names" /\ Naming!Next /\ UNCHANGED <<Rest1, vars>>
       \/ part = "pauses" /\ Pausing!Next /\ UNCHANGED <<Rest16, vars>>
       \/ part = "throttles" /\ Throttling!Next /\ UNCHANGED <<Rest13, vars>>
       \/ part = "budgets" /\ Budgeting!Next /\ UNCHANGED <<Rest4, vars>>
       \/ part = "groups" /\ Grouping!Next /\ UNCHANGED <<Rest13, vars>>
       \/ part = "sessions" /\ Debugging!Next /\ UNCHANGED <<Rest13, vars>>
       \/ part = "captures" /\ Capturing!Next /\ UNCHANGED <<Rest21, vars>>
       \/ part = "expiry" /\ Sweeping!Next /\ UNCHANGED <<Rest21, vars>>
       \/ part = "refresh" /\ Renewing!Next /\ UNCHANGED <<Rest5, vars>>
       \/ part = "discovery" /\ Discovering!Next /\ UNCHANGED <<Rest5, vars>>
       \/ part = "explorer" /\ Viewing!Next /\ UNCHANGED vars
       \/ part = "ring" /\ Evicting!Next /\ UNCHANGED vars
       \/ part = "merged" /\ Merging!Next /\ UNCHANGED vars
       \/ part = "chart" /\ Charting!Next /\ UNCHANGED vars
       \/ part = "history" /\ Recalling!Next /\ UNCHANGED vars
       \/ part = "readers" /\ Sharing!Next /\ UNCHANGED vars
       \/ part = "lineage" /\ Tracing!Next /\ UNCHANGED <<Rest4, vars>>
       \/ part = "conversations" /\ Filing!Next /\ UNCHANGED <<Rest9, vars>>

everything == <<part, registers, vars>>
PartSpec == PartInit /\ [][PartNext]_everything

---------------------------------------------------------------------------
\* Bounded tables never forget what is still in use: the names an operator may pick
\* (nameset.go) and the groups with work and their pacing (scheduler_groups.go).
TablesSound ==
    /\ part = "names" => Naming!VocabularyKept
    /\ part = "groups" => Grouping!TableSound

\* Holds park a request once, end only when they should and are durable or reported
\* (pause.go, operator_state.go).
PausesSound == part = "pauses" => Pausing!HoldsSound

\* A throttle policy recorded as durable is (throttle.go).
ThrottlesDurable == part = "throttles" => Throttling!ThrottlesDurable

\* No trailing window holds more admits than a provider's request budget, and a refused
\* request waits as long as it must (throttle.go).
BudgetKept == part = "budgets" => Budgeting!BudgetKept

\* Debug sessions partition what they capture and end only when they should (debug.go).
SessionsSound == part = "sessions" => Debugging!SessionsSound

\* Capture bytes are counted exactly, and a capture being saved is not missed (debug.go).
CapturesSound ==
    /\ part = "captures" => Capturing!CapturesSound
    /\ part = "expiry" => Sweeping!CapturesSound

\* One exchange of a refresh token to a base URL at a time, exact reservations, whole lists
\* (tokenrefresh.go, models.go).
DiscoverySound ==
    /\ part = "refresh" => Renewing!DiscoverySound
    /\ part = "discovery" => Discovering!DiscoverySound

\* A dashboard answer counts every request once and as of its own time, memoized or
\* not (aggregate.go, aggregate_cache.go, aggregate_projection.go).
DashboardSound ==
    /\ part = "explorer" => Viewing!DashboardSound
    /\ part = "ring" => Evicting!DashboardSound
    /\ part = "merged" => Merging!DashboardSound
    /\ part = "chart" => Charting!DashboardSound
    /\ part = "history" => Recalling!DashboardSound
    /\ part = "readers" => Sharing!DashboardSound

\* The overlaid conversation graph says what the declarations say (conversation_lineage.go).
LineageExact == part = "lineage" => Tracing!LineageExact

\* Automatic conversations stay apart, ordered and bounded (conversation.go).
TrackerSound == part = "conversations" => Filing!TrackerSound

=============================================================================
