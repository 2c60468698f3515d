--------------------------- MODULE MCLive ---------------------------
(***************************************************************************)
(* What must eventually happen, on small instances of nine parts, and what *)
(* a restart must never lose.  A behaviour runs the one part that part     *)
(* names.  Handoff is extended; the others share registers: x1, x2, ...    *)
(* stand for the variables of that part in the order its module declares   *)
(* them.                                                                   *)
(***************************************************************************)
EXTENDS Handoff, Sequences

CONSTANT Parts    \* the parts a run takes up

VARIABLES part, x1, x2, x3, x4, x5, x6, x7, x8, x9, x10, x11, x12, x13, x14, x15, x16, x17,
          x18, x19, x20, x21, x22, x23, x24, x25, x26, x27, x28, x29, x30, x31, x32, x33,
          x34, x35
registers == <<x1, x2, x3, x4, x5, x6, x7, x8, x9, x10, x11, x12, x13, x14, x15, x16, x17,
                x18, x19, x20, x21, x22, x23, x24, x25, x26, x27, x28, x29, x30, x31, x32,
                x33, x34, x35>>


Unused == 0

Armed == [enabled |-> TRUE, provider |-> TRUE, model |-> TRUE, quota |-> TRUE,
          maxQueue |-> 2, maxScopes |-> 2]
QuotaOnly == [Armed EXCEPT !.enabled = FALSE]
Policies == {Armed, [Armed EXCEPT !.provider = FALSE, !.quota = FALSE], QuotaOnly,
             [QuotaOnly EXCEPT !.quota = FALSE], [Armed EXCEPT !.maxQueue = 1]}
OneSlot == [concurrency |-> 1, tokens |-> 0]

Edit(has, conc, count, window) ==
    [has |-> has, conc |-> conc, count |-> count, window |-> window, anti |-> FALSE, ramp |-> 0]
Patches == {Edit({"conc"}, 1, 0, 0), Edit({"rate"}, 0, 1, 1)}
Posts == {Edit({"clear"}, 0, 0, 0), Edit({"conc"}, 1, 0, 0), Edit({"window"}, 0, 0, 2)}

Answer(status, sse, body) == [status |-> status, sse |-> sse, body |-> body]
Answers == {Answer("200", TRUE, "healthy"), Answer("error", FALSE, "healthy"),
            Answer("200", FALSE, "healthy"), Answer("200", FALSE, "void")}

(* Registers past the k-th that a part does not use. *)
Blank29 == x30 = Unused /\ x31 = Unused /\ x32 = Unused /\ x33 = Unused /\ x34 = Unused
           /\ x35 = Unused
Rest29 == <<x30, x31, x32, x33, x34, x35>>
Blank27 == x28 = Unused /\ x29 = Unused /\ Blank29
Rest27 == <<x28, x29, Rest29>>
Blank17 == x18 = Unused /\ x19 = Unused /\ x20 = Unused /\ x21 = Unused /\ x22 = Unused
           /\ x23 = Unused /\ x24 = Unused /\ x25 = Unused /\ x26 = Unused /\ x27 = Unused
           /\ Blank27
Rest17 == <<x18, x19, x20, x21, x22, x23, x24, x25, x26, x27, Rest27>>
Blank14 == x15 = Unused /\ x16 = Unused /\ x17 = Unused /\ Blank17
Rest14 == <<x15, x16, x17, Rest17>>
Blank13 == x14 = Unused /\ Blank14
Rest13 == <<x14, Rest14>>
Blank11 == x12 = Unused /\ x13 = Unused /\ Blank13
Rest11 == <<x12, x13, Rest13>>
Blank4 == x5 = Unused /\ x6 = Unused /\ x7 = Unused /\ x8 = Unused /\ x9 = Unused
           /\ x10 = Unused /\ x11 = Unused /\ Blank11
Rest4 == <<x5, x6, x7, x8, x9, x10, x11, Rest11>>

\* Three clients, one of them coming back, two keys and one slot.
Admitting == INSTANCE Admission WITH
    Requests <- {"r1", "r2", "r3"}, Returning <- {"r1"}, Groups <- {"k1", "k2"},
    GroupOf <- [r1 |-> "k1", r2 |-> "k2", r3 |-> "k1"], FirstCap <- [k1 |-> 0, k2 |-> 0],
    Caps <- {0}, MaxQueueSize <- 0, Est <- [r1 |-> 0, r2 |-> 0, r3 |-> 0], Actual <- {0},
    HoldScope <- {}, Limits <- {OneSlot}, Background <- {}, Interventions <- {},
    MaxInterventions <- 1,
    inFlight <- x1, queued <- x2, ahead <- x3, granted <- x4, limit <- x5, gateGen <- x6,
    tokGen <- x7, gateInFlight <- x8, tokens <- x9, wake <- x10, leaseGen <- x11,
    reserved <- x12, leaseTok <- x13, fair <- x14, cursor <- x15, paced <- x16, due <- x17,
    cap <- x18, raised <- x19, hold <- x20, drained <- x21, owed <- x22,
    interventions <- x23, current <- x24, sendCurrent <- x25, timed <- x26,
    cancelled <- x27, pc <- x28, job <- x29, tomark <- x30, found <- x31, round <- x32,
    at <- x33, productive <- x34, served <- x35
\* Reloads under parked requests; the scope map holds the provider and one model.
Storming == INSTANCE StormGate WITH
    Requests <- {"r1", "r2"}, Models <- {"m1", "m2"}, ModelOf <- [r1 |-> "m1", r2 |-> "m2"],
    Provider <- "p", Policies <- Policies, MinSamples <- 1, ErrorPercent <- 100,
    InitialBackoff <- 1, MaxBackoff <- 2, BackoffMultiplier <- 2, JitterPercent <- 50,
    Hints <- {0}, RecoverySuccesses <- 1, QuotaRecoverySuccesses <- 1, MaxAttempts <- 1,
    MaxGenerations <- 2, MaxReleases <- 0,
    opts <- x1, generation <- x2, lowered <- x3, scopes <- x4, active <- x5, quota <- x6,
    probing <- x7, epoch <- x8, recovered <- x9, backoff <- x10, cooldown <- x11,
    timer <- x12, samples <- x13, failures <- x14, recent <- x15, refs <- x16,
    waiters <- x17, queued <- x18, current <- x19, pc <- x20, claimed <- x21, probes <- x22,
    seen <- x23, permitGen <- x24, outdated <- x25, attempts <- x26, releases <- x27
\* A purge, a failure and a stop.
Storing == INSTANCE Recording WITH
    Records <- {"a", "b"}, Incoming <- {"x"}, Foreign <- {}, Matching <- {"a"},
    ChanCap <- 2, BatchCap <- 2, RingCap <- 2, MaxPurges <- 1, MaxMerges <- 0,
    MaxFailures <- 1, MaxStops <- 1, MaxReads <- 0,
    ring <- x1, queue <- x2, accepted <- x3, shut <- x4, dropped <- x5, w <- x6,
    batch <- x7, consumed <- x8, pending <- x9, wake <- x10, admin <- x11, flushing <- x12,
    conn <- x13, rows <- x14, epoch <- x15, doc <- x16, mem <- x17, written <- x18,
    committed <- x19, reader <- x20, up <- x21, purged <- x22, lost <- x23, foreign <- x24,
    stops <- x25, purges <- x26, merges <- x27, failures <- x28, reads <- x29
\* A page and a subscriber of one place.
Feeding == INSTANCE Feed WITH
    Requests <- {"a"}, RingCap <- 1, SubCap <- 1, SnapLimit <- 0, MaxFaults <- 2,
    ring <- x1, nextSeq <- x2, feedID <- x3, pend <- x4, revision <- x5, pub <- x6,
    srv <- x7, wire <- x8, page <- x9, source <- x10, boot <- x11, finished <- x12,
    gone <- x13, faults <- x14
\* A good snapshot and a bad one, crashes and failures.
Replacing == INSTANCE Replacement WITH
    Snapshots <- {"a", "b"}, Valid <- {"a"}, MaxCrashes <- 2, MaxFaults <- 1,
    MaxRestores <- 1, MaxStops <- 1,
    main <- x1, side <- x2, marker <- x3, pc <- x4, todo <- x5, flags <- x6,
    restoring <- x7, config <- x8, frames <- x9, truth <- x10, slot <- x11, mixed <- x12,
    lapses <- x13, crashes <- x14, faults <- x15, restores <- x16, stops <- x17
\* An operator and a header.
Throttling == INSTANCE Throttles WITH
    Providers <- {"p"}, MaxGates <- 1, Operators <- {"o"}, Headers <- {"h"}, Posts <- Posts,
    Patches <- Patches, Windows <- {1, 2}, RewriteFails <- FALSE, MaxEdits <- 2,
    MaxFaults <- 1, MaxRestarts <- 1,
    policy <- x1, gen <- x2, saved <- x3, started <- x4, closed <- x5, wake <- x6,
    procs <- x7, doc <- x8, sealed <- x9, owed <- x10, edits <- x11, faults <- x12,
    restarts <- x13
\* One run.
Running == INSTANCE CursorRuns WITH
    Clients <- {"c1"}, Scopes <- {"s"}, ScopeOf <- [c1 |-> "s"], Runs <- {"r1"},
    CallIds <- {"a"}, NoRun <- "none", RunMax <- 1, ParkedLimit <- 1, EventBuf <- 1,
    TTLs <- {1, 2}, QualityRetries <- TRUE, MaxFrames <- 2, MaxIds <- 1,
    run <- x1, entries <- x2, byCall <- x3, streamBytes <- x4, ttl <- x5, timer <- x6,
    callbacks <- x7, closing <- x8, pc <- x9, req <- x10, gone <- x11
\* One request.
Serving == INSTANCE Request WITH
    Requests <- {"r"}, Kinds <- [stream : BOOLEAN, translate : BOOLEAN], Answers <- Answers,
    RequestLimit <- 1, BodyLimit <- 1, ResponseLimit <- 1, QualityRetries <- 1,
    ThinkingRetries <- 1, MaxReads <- 1,
    cur <- x1, bytes <- x2, resp <- x3, req <- x4

PartInit ==
    /\ part \in Parts
    /\ \/ part = "handoff" /\ Init /\ x1 = Unused /\ x2 = Unused /\ x3 = Unused /\ x4 = Unused /\ Blank4
       \/ part = "admission" /\ Admitting!Init /\ Init
       \/ part = "storm" /\ Storming!Init /\ Blank27 /\ Init
       \/ part = "recording" /\ Storing!Init /\ Blank29 /\ Init
       \/ part = "feed" /\ Feeding!Init /\ Blank14 /\ Init
       \/ part = "replacement" /\ Replacing!Init /\ Blank17 /\ Init
       \/ part = "throttles" /\ Throttling!Init /\ Blank13 /\ Init
       \/ part = "runs" /\ Running!Init /\ Blank11 /\ Init
       \/ part = "request" /\ Serving!Init /\ Blank4 /\ Init

PartNext ==
    /\ UNCHANGED part
    /\ \/ part = "handoff" /\ Next /\ UNCHANGED registers
       \/ part = "admission" /\ Admitting!Next /\ UNCHANGED vars
       \/ part = "storm" /\ Storming!Next /\ UNCHANGED <<Rest27, vars>>
       \/ part = "recording" /\ Storing!Next /\ UNCHANGED <<Rest29, vars>>
       \/ part = "feed" /\ Feeding!Next /\ UNCHANGED <<Rest14, vars>>
       \/ part = "replacement" /\ Replacing!Next /\ UNCHANGED <<Rest17, vars>>
       \/ part = "throttles" /\ Throttling!Next /\ UNCHANGED <<Rest13, vars>>
       \/ part = "runs" /\ Running!Next /\ UNCHANGED <<Rest11, vars>>
       \/ part = "request" /\ Serving!Next /\ UNCHANGED <<Rest4, vars>>

everything == <<part, registers, vars>>
PartSpec == PartInit /\ [][PartNext]_everything

\* The fairness of each part, on its own steps.
Only(p) == part = p /\ UNCHANGED <<part, vars>>
Handed == part = "handoff" /\ UNCHANGED <<part, registers>>
FairSpec ==
    /\ PartSpec
    /\ \A r \in {"r1", "r2", "r3"} : WF_registers(Only("admission") /\ Admitting!RequestStep(r))
    /\ \A d \in Admitting!Drainers : WF_registers(Only("admission") /\ Admitting!DrainStep(d))
    /\ WF_registers(Only("admission") /\ Admitting!Tick)
    /\ WF_registers(Only("admission") /\ \E d \in Admitting!Drainers : Admitting!GateWakes(d))
    /\ \A g \in {"k1", "k2"} :
         /\ WF_registers(Only("admission") /\ Admitting!PaceEnds(g))
         /\ WF_registers(Only("admission") /\ \E d \in Admitting!Drainers : Admitting!PacerFires(d, g))
    /\ \A r \in {"r1", "r2"} : /\ WF_registers(Only("storm") /\ Storming!Waits(r) /\ UNCHANGED Rest27)
                               /\ WF_registers(Only("storm") /\ Storming!Settles(r) /\ UNCHANGED Rest27)
    /\ \A s \in Storming!Scopes : WF_registers(Only("storm") /\ Storming!TimerFires(s) /\ UNCHANGED Rest27)
    /\ WF_registers(Only("storm") /\ Storming!Tick /\ UNCHANGED Rest27)
    /\ WF_registers(Only("recording") /\ Storing!WriterStep /\ UNCHANGED Rest29)
    /\ WF_registers(Only("recording") /\ Storing!MergeStep /\ UNCHANGED Rest29)
    /\ WF_registers(Only("recording") /\ Storing!ClearReturns /\ UNCHANGED Rest29)
    /\ WF_registers(Only("feed") /\ Feeding!ServerStep /\ UNCHANGED Rest14)
    /\ WF_registers(Only("feed") /\ Feeding!PageStep /\ UNCHANGED Rest14)
    /\ WF_registers(Only("replacement") /\ Replacing!Step /\ UNCHANGED Rest17)
    /\ WF_vars(Handed /\ RestarterStep)
    /\ WF_vars(Handed /\ MainStep)
    /\ WF_vars(Handed /\ ReloadStep)
    /\ WF_vars(Handed /\ ChildStep)
    /\ \A c \in Clients : /\ WF_vars(Handed /\ Accept(c))
                          /\ WF_vars(Handed /\ FinishRequest(c))
    /\ \A x \in Throttling!Loops \union {"flush"} :
         WF_registers(Only("throttles") /\ Throttling!PersistStep(x) /\ UNCHANGED Rest13)
    /\ WF_registers(Only("throttles") /\ Throttling!markThrottleDirty("h") /\ UNCHANGED Rest13)
    /\ WF_registers(Only("throttles") /\ Throttling!persistThrottleSync("o") /\ UNCHANGED Rest13)
    /\ WF_registers(Only("throttles") /\ Throttling!runThrottlePersister /\ UNCHANGED Rest13)
    /\ WF_registers(Only("throttles") /\ Throttling!waitThrottleRetry /\ UNCHANGED Rest13)
    /\ WF_registers(Only("throttles") /\ Throttling!WriterStops /\ UNCHANGED Rest13)
    /\ WF_registers(Only("throttles") /\ Throttling!CloseThrottlePersist /\ UNCHANGED Rest13)
    /\ WF_registers(Only("runs") /\ Running!Turn("c1") /\ UNCHANGED Rest11)
    /\ WF_registers(Only("runs") /\ Running!Pump("r1") /\ UNCHANGED Rest11)
    /\ WF_registers(Only("runs") /\ Running!CloseSwept("r1") /\ UNCHANGED Rest11)
    /\ WF_registers(Only("runs") /\ Running!IdleTimeout("r1") /\ UNCHANGED Rest11)
    /\ WF_registers(Only("runs") /\ Running!ReadCut("r1") /\ UNCHANGED Rest11)
    /\ WF_registers(Only("runs") /\ Running!Tick /\ UNCHANGED Rest11)
    /\ WF_registers(Only("runs") /\ Running!TimerFires /\ UNCHANGED Rest11)
    /\ WF_registers(Only("runs") /\ Running!TimerCallback /\ UNCHANGED Rest11)
    /\ WF_registers(Only("request") /\ (Serving!Canceled("r") \/ Serving!Unwind("r") \/ Serving!Record("r") \/ Serving!release("r")) /\ UNCHANGED Rest4)
    /\ WF_registers(Only("request") /\ (Serving!Tick("r") \/ Serving!Comment("r") \/ Serving!LoopEnds("r")) /\ UNCHANGED Rest4)
    /\ WF_registers(Only("request") /\ Serving!Notice("r") /\ UNCHANGED Rest4)
---------------------------------------------------------------------------
\* No client is queued for good, however many others keep coming back, and no storm or
\* quota gate keeps a request for good (scheduler.go, storm.go).
GatesLive ==
    /\ \A r \in {"r1", "r2", "r3"} : []<>(part = "admission" => Admitting!Served(r))
    /\ \A r \in {"r1", "r2"} : []<>(part = "storm" => Storming!OffTheGate(r))

\* A published purge is answered, and a page settles (purge.go, http.go).
RecordingLive ==
    /\ []<>(part = "recording" => Storing!Answered)
    /\ []<>(part = "feed" => Feeding!Settled)

\* The process serves again after every crash, a restart serves every client and lets go
\* of its lock, a header's cap is saved, a turn ends and a parked run leaves, and a parked
\* request that nobody hears gives up its place (snapshot_recover.go, restart.go,
\* throttle.go, cursor_store.go, sse_keepalive.go).
ServingLive ==
    /\ []<>(part = "replacement" => Replacing!Serves)
    /\ \A c \in Clients : []<>(part = "handoff" => Served(c))
    /\ []<>(part = "handoff" => Unlocked)
    /\ []<>(part = "throttles" => Throttling!Saved)
    /\ []<>(part = "runs" => Running!Ended("c1"))
    /\ []<>(part = "runs" => Running!Unparked("r1"))
    /\ []<>(part = "request" => Serving!NotParkedUnheard("r"))
=============================================================================
