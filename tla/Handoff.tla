------------------------------ MODULE Handoff ------------------------------
(***************************************************************************)
(* The restart handoff and the process life around it: the restarter's     *)
(* goroutine, the main loop with its signals and its shutdown, the lock    *)
(* that reloads share, and the child process that inherits the socket      *)
(* (cmd/proxy/restart.go, main.go).                                        *)
(*                                                                         *)
(* A client connects into the backlog of the listening socket, which lives *)
(* while any descriptor of it is open, and is accepted by the server that  *)
(* listens.  Serving it leaves one record in the store's queue.            *)
(***************************************************************************)
EXTENDS Naturals, FiniteSets

CONSTANTS
    Clients,
    DrainBounded,       \* restart_drain_timeout is set
    MaxRestarts, MaxReloads, MaxSignals

VARIABLES
    phase,              \* restarter.phase
    inHandoff,          \* restarter.inHandoff, the commit point
    resumes,            \* how often resumed was closed
    server,             \* the serving server; 0 is the one main started
    retired,            \* restarter.retired
    shut,               \* servers whose Shutdown was called
    socket,             \* open descriptors: "listener", "dup", "child"
    at,                 \* per client
    unwritten,          \* finalized records the store has not committed
    reload,             \* reloadMu: "free", "reload", "handoff", "release"
    child,              \* "none", "boot", "open", "ready", "serving"
    loop,               \* main: its select loop, or how far its shutdown is
    waits,              \* the run the loop waits for
    serveErr,           \* Serve of server 0 returned
    signals,            \* SIGTERMs sent
    pendingSig,         \* one is in sigc
    restarts, reloads,
    \* What happened, for the properties only.
    asked,              \* a SIGTERM began the shutdown
    lateKill,           \* the child was killed after it had signalled readiness
    fatal,              \* serving could not be resumed: the process died
    overlap             \* who wrote the store while the child had it open

restarter == <<phase, inHandoff, resumes, server, retired>>
counters == <<signals, restarts, reloads>>
history == <<asked, lateKill, fatal, overlap>>
vars == <<restarter, shut, socket, at, unwritten, reload, child, loop, waits, serveErr,
          pendingSig, counters, history>>

On(s) == [state |-> "active", server |-> s]
Waiting == [state |-> "backlog"]
Unconnected == [state |-> "new"]
Answered == [state |-> "answered"]
Lost == [state |-> "lost"]
Child == MaxRestarts + 1        \* the child's server

Init ==
    /\ phase = "idle" /\ inHandoff = FALSE /\ resumes = 0 /\ server = 0 /\ retired = {}
    /\ shut = {} /\ socket = {"listener"} /\ at = [c \in Clients |-> Unconnected]
    /\ unwritten = {} /\ reload = "free" /\ child = "none"
    /\ loop = "select" /\ waits = 0 /\ serveErr = FALSE /\ pendingSig = FALSE
    /\ signals = 0 /\ restarts = 0 /\ reloads = 0
    /\ asked = FALSE /\ lateKill = FALSE /\ fatal = FALSE /\ overlap = {}

Alive == loop # "gone"
Active(servers) == {c \in Clients : at[c] \in {On(s) : s \in servers}}

\* What the store commits while the child has it open overlaps.
Writes(who) ==
    overlap' = IF child \in {"open", "ready", "serving"} THEN overlap \union {who} ELSE overlap

---------------------------------------------------------------------------
(* Clients.                                                                *)

Connect(c) ==
    /\ at[c] = Unconnected /\ socket # {}
    /\ at' = [at EXCEPT ![c] = Waiting]
    /\ UNCHANGED <<restarter, shut, socket, unwritten, reload, child, loop, waits, serveErr, pendingSig,
                   counters, history>>

Accept(c) ==
    /\ at[c] = Waiting
    /\ \/ Alive /\ server \notin shut /\ at' = [at EXCEPT ![c] = On(server)]
       \/ child = "serving" /\ at' = [at EXCEPT ![c] = On(Child)]
    /\ UNCHANGED <<restarter, shut, socket, unwritten, reload, child, loop, waits, serveErr, pendingSig,
                   counters, history>>

\* The handler returns; its record is queued.
FinishRequest(c) ==
    /\ at[c].state = "active"
    /\ at' = [at EXCEPT ![c] = Answered]
    /\ unwritten' = IF at[c] = On(Child) THEN unwritten ELSE unwritten \union {c}
    /\ UNCHANGED <<restarter, shut, socket, reload, child, loop, waits, serveErr, pendingSig, counters,
                   history>>

WriterCommits ==
    /\ Alive /\ unwritten # {} /\ Writes("record")
    /\ unwritten' = {}
    /\ UNCHANGED <<restarter, shut, socket, at, reload, child, loop, waits, serveErr, pendingSig,
                   counters, asked, lateKill, fatal>>

\* Timers and goroutines that no handoff waits for write what they keep: a pause or a
\* debug session that expires, a quota pause, the debug captures the writer's ticker
\* expires.
TimerWrites ==
    /\ loop \notin {"closed", "gone"} /\ Writes("timer")
    /\ UNCHANGED <<restarter, shut, socket, at, unwritten, reload, child, loop, waits, serveErr,
                   pendingSig, counters, asked, lateKill, fatal>>

---------------------------------------------------------------------------
(* The restarter.                                                          *)

\* One at a time.
request ==
    /\ phase = "idle" /\ loop = "select" /\ restarts < MaxRestarts
    /\ restarts' = restarts + 1
    /\ phase' = "building"
    /\ UNCHANGED <<inHandoff, resumes, server, retired, shut, socket, at, unwritten, reload,
                   child, loop, waits, serveErr, pendingSig, signals, reloads, history>>

\* MutantKeepsFence: the run ends and the reload fence is never told.
MutantKeepsFence ==
    /\ inHandoff' = FALSE /\ phase' = "idle"
    /\ UNCHANGED <<resumes, reload>>

\* Back to idle, and everyone who waits for this run is released.
finishFailure ==
    /\ inHandoff' = FALSE /\ phase' = "idle" /\ resumes' = resumes + 1
    /\ reload' = IF reload = "handoff" THEN "release" ELSE reload

buildFails ==
    /\ phase = "building" /\ Alive
    /\ finishFailure
    /\ UNCHANGED <<server, retired, shut, socket, at, unwritten, child, loop, waits, serveErr,
                   pendingSig, counters, history>>

Commit ==
    /\ phase = "building" /\ Alive
    /\ inHandoff' = TRUE /\ phase' = "committed"
    /\ UNCHANGED <<resumes, server, retired, shut, socket, at, unwritten, reload, child, loop, waits,
                   serveErr, pendingSig, counters, history>>

\* A shutdown may have closed the listener already; then there is nothing to resume on.
DupListener ==
    /\ phase = "committed" /\ Alive
    /\ IF "listener" \in socket
         THEN /\ phase' = "draining" /\ socket' = socket \union {"dup"}
              /\ UNCHANGED <<inHandoff, resumes, reload>>
         ELSE finishFailure /\ UNCHANGED socket
    /\ UNCHANGED <<server, retired, shut, at, unwritten, child, loop, waits, serveErr, pendingSig,
                   counters, history>>

\* The listener cannot be duplicated: it has not been closed, and serves on.
DupFails ==
    /\ phase = "committed" /\ Alive
    /\ finishFailure
    /\ UNCHANGED <<server, retired, shut, socket, at, unwritten, child, loop, waits, serveErr,
                   pendingSig, counters, history>>

\* Shutdown of the serving server closes its listener; Serve of server 0 returns.
Shutdown ==
    /\ shut' = shut \union {server}
    /\ socket' = socket \ {"listener"}
    /\ serveErr' = (serveErr \/ server = 0)

closeFeeds ==
    /\ phase = "draining" /\ Alive /\ server \notin shut
    /\ Shutdown
    /\ UNCHANGED <<restarter, at, unwritten, reload, child, loop, waits, pendingSig, counters, history>>

\* MutantForgetsRetired: only the serving server is waited for.
MutantForgetsRetired ==
    /\ server \in shut /\ Active({server}) = {}
    /\ retired' = {}

\* The serving server and every one an earlier failed drain left behind.
drain ==
    /\ server \in shut /\ Active({server} \union retired) = {}
    /\ retired' = {}

Drained ==
    /\ phase = "draining" /\ Alive
    /\ drain
    /\ phase' = "flushing"
    /\ UNCHANGED <<inHandoff, resumes, server, shut, socket, at, unwritten, reload, child, loop, waits,
                   serveErr, pendingSig, counters, history>>

\* log.Fatalf: no handler ends, no record is flushed, and nobody holds the socket.
Dies ==
    /\ loop' = "gone" /\ fatal' = TRUE /\ socket' = {} /\ child' = "none"
    /\ at' = [c \in Clients |-> IF at[c] \in {Unconnected, Answered} THEN at[c] ELSE Lost]
    /\ UNCHANGED <<restarter, reload>>

\* A clone serves the duplicated socket; the old server may still have handlers.
Resumes(clients) ==
    /\ retired' = retired \union {server}
    /\ server' = server + 1
    /\ socket' = (socket \ {"dup", "child"}) \union {"listener"}
    /\ child' = "none" /\ at' = clients
    /\ finishFailure
    /\ UNCHANGED <<loop, fatal>>

\* The child is dead, if there was one.  A listener that cannot be made of the
\* duplicated socket is the end.
failAndResume(clients) == Resumes(clients) \/ Dies

\* The resumed server is the process's only listener: when it fails the process dies.
ResumedServeFails ==
    /\ Alive /\ server # 0 /\ server \notin shut
    /\ Dies
    /\ UNCHANGED <<shut, unwritten, waits, serveErr, pendingSig, counters, asked, lateKill, overlap>>

DrainTimesOut ==
    /\ phase = "draining" /\ DrainBounded /\ Alive /\ server \in shut
    /\ failAndResume(at)
    /\ UNCHANGED <<shut, unwritten, waits, serveErr, pendingSig, counters, asked, lateKill, overlap>>

\* fenceReloadsForHandoff
Fence ==
    /\ phase = "flushing" /\ reload = "free" /\ Alive
    /\ reload' = "handoff"
    /\ UNCHANGED <<restarter, shut, socket, at, unwritten, child, loop, waits, serveErr, pendingSig,
                   counters, history>>

\* MutantSkipsFlush: the queue is left to the writer.
MutantSkipsFlush ==
    /\ phase = "flushing" /\ reload = "handoff" /\ Alive
    /\ phase' = "handing_off"
    /\ UNCHANGED <<inHandoff, resumes, server, retired, shut, socket, at, unwritten, reload,
                   child, loop, waits, serveErr, pendingSig, counters, history>>

\* Throttle edits, then every queued record.
flushStore ==
    /\ phase = "flushing" /\ reload = "handoff" /\ loop \notin {"closed", "gone"}
    /\ phase' = "handing_off" /\ unwritten' = {}
    /\ UNCHANGED <<inHandoff, resumes, server, retired, shut, socket, at, reload, child, loop, waits,
                   serveErr, pendingSig, counters, history>>

\* Also when a shutdown has closed the store.
flushFails ==
    /\ phase = "flushing" /\ reload = "handoff" /\ Alive
    /\ failAndResume(at)
    /\ UNCHANGED <<shut, unwritten, waits, serveErr, pendingSig, counters, asked, lateKill, overlap>>

spawn ==
    /\ phase = "handing_off" /\ child = "none" /\ Alive
    /\ child' = "boot" /\ socket' = socket \union {"child"}
    /\ UNCHANGED <<restarter, shut, at, unwritten, reload, loop, waits, serveErr, pendingSig, counters,
                   history>>

spawnFails ==
    /\ phase = "handing_off" /\ child = "none" /\ Alive
    /\ failAndResume(at)
    /\ UNCHANGED <<shut, unwritten, waits, serveErr, pendingSig, counters, asked, lateKill, overlap>>

\* The child: configuration, store and history; then readiness; then the inherited
\* listener.
ChildBecomes(from, to) ==
    /\ child = from /\ child' = to
    /\ UNCHANGED <<restarter, shut, socket, at, unwritten, reload, loop, waits, serveErr,
                   pendingSig, counters, history>>

ChildOpens == ChildBecomes("boot", "open")
signalReady == ChildBecomes("open", "ready")
ChildServes == ChildBecomes("ready", "serving")
ChildStep == ChildOpens \/ signalReady \/ ChildServes

\* Sockets and handlers of a process that is gone.
Gone(servers) ==
    [c \in Clients |-> IF c \in Active(servers) THEN Lost ELSE at[c]]

\* A boot that dies closes the pipe; one that hangs, or is a moment late, is killed.
awaitReadyFails ==
    /\ phase = "handing_off" /\ child # "none" /\ Alive
    /\ lateKill' = (lateKill \/ child \in {"ready", "serving"})
    /\ failAndResume(Gone({Child}))
    /\ UNCHANGED <<shut, unwritten, waits, serveErr, pendingSig, counters, asked, overlap>>

Exit ==
    /\ loop' = "gone" /\ socket' = socket \ {"listener", "dup"}
    /\ at' = [c \in Clients |->
                IF c \in Active(0..MaxRestarts) THEN Lost
                ELSE IF at[c] = Waiting /\ socket \subseteq {"listener", "dup"} THEN Lost
                ELSE at[c]]

awaitReady ==
    /\ phase = "handing_off" /\ child \in {"ready", "serving"} /\ Alive
    /\ Exit
    /\ UNCHANGED <<restarter, shut, unwritten, reload, child, waits, serveErr, pendingSig, counters,
                   history>>

---------------------------------------------------------------------------
(* Reloads.                                                                *)

\* A reload with changed aliases rewrites stored history under the lock; a SIGHUP only
\* tries the lock, which is the same step.
reloadConfig ==
    /\ Alive /\ reload = "free" /\ reloads < MaxReloads
    /\ reloads' = reloads + 1
    /\ reload' = "reload"
    /\ UNCHANGED <<restarter, shut, socket, at, unwritten, child, loop, waits, serveErr, pendingSig,
                   signals, restarts, history>>

reloadConfigLocked ==
    /\ Alive /\ reload = "reload" /\ Writes("reload")
    /\ reload' = "free"
    /\ UNCHANGED <<restarter, shut, socket, at, unwritten, child, loop, waits, serveErr, pendingSig,
                   counters, asked, lateKill, fatal>>

\* The watcher saw the run end.
fenceReloadsForHandoff ==
    /\ reload = "release"
    /\ reload' = "free"
    /\ UNCHANGED <<restarter, shut, socket, at, unwritten, child, loop, waits, serveErr, pendingSig,
                   counters, history>>

---------------------------------------------------------------------------
(* The main loop.                                                          *)

Signal ==
    /\ Alive /\ signals < MaxSignals
    /\ signals' = signals + 1
    /\ pendingSig' = TRUE
    /\ UNCHANGED <<restarter, shut, socket, at, unwritten, reload, child, loop, waits, serveErr,
                   restarts, reloads, history>>

\* MutantExitsOnClose: a closed listener ends the process.
MutantExitsOnClose ==
    /\ loop = "select" /\ serveErr
    /\ serveErr' = FALSE
    /\ loop' = IF inHandoff THEN "select" ELSE "closing"
    /\ UNCHANGED <<restarter, shut, socket, at, unwritten, reload, child, waits, pendingSig, counters,
                   history>>

\* Serve returned: expected during a handoff, and after one that failed.
ServeReturned ==
    /\ loop = "select" /\ serveErr
    /\ serveErr' = FALSE
    /\ loop' = IF inHandoff \/ server # 0 THEN "select" ELSE "closing"
    /\ UNCHANGED <<restarter, shut, socket, at, unwritten, reload, child, waits, pendingSig, counters,
                   history>>

\* A committed handoff owns the shutdown and is waited for.
HandleSignal ==
    /\ loop = "select" /\ pendingSig
    /\ pendingSig' = FALSE
    /\ IF inHandoff THEN loop' = "waiting" /\ waits' = resumes /\ UNCHANGED asked
       ELSE loop' = "stopping" /\ asked' = TRUE /\ UNCHANGED waits
    /\ UNCHANGED <<restarter, shut, socket, at, unwritten, reload, child, serveErr, counters,
                   lateKill, fatal, overlap>>

HandoffDone ==
    /\ loop = "waiting" /\ resumes > waits
    /\ loop' = "select"
    /\ UNCHANGED <<restarter, shut, socket, at, unwritten, reload, child, waits, serveErr,
                   pendingSig, counters, history>>

\* stopServing cancels every request, then the servers are shut down.
StopServing ==
    /\ loop = "stopping"
    /\ loop' = "draining"
    /\ at' = Gone(0..MaxRestarts)
    /\ Shutdown
    /\ UNCHANGED <<restarter, unwritten, reload, child, waits, pendingSig, counters, history>>

\* Drained, or shutdown_timeout is over.
ShutdownReturns ==
    /\ loop = "draining"
    /\ loop' = "closing"
    /\ drain \/ UNCHANGED retired
    /\ UNCHANGED <<phase, inHandoff, resumes, server, shut, socket, at, unwritten, reload, child,
                   waits, serveErr, pendingSig, counters, history>>

\* Throttles and records are written, then the store is closed.
drainStore ==
    /\ loop = "closing"
    /\ loop' = "closed" /\ unwritten' = {} /\ Writes("drain")
    /\ UNCHANGED <<restarter, shut, socket, at, reload, child, waits, serveErr, pendingSig,
                   counters, asked, lateKill, fatal>>

MainReturns ==
    /\ loop = "closed"
    /\ Exit
    /\ UNCHANGED <<restarter, shut, unwritten, reload, child, waits, serveErr, pendingSig,
                   counters, history>>

RestarterStep ==
    \/ Commit \/ DupListener \/ closeFeeds \/ Drained \/ Fence \/ flushStore \/ spawn
    \/ awaitReady
MainStep ==
    \/ ServeReturned \/ HandleSignal \/ HandoffDone \/ StopServing \/ ShutdownReturns
    \/ drainStore \/ MainReturns
ReloadStep == reloadConfigLocked \/ fenceReloadsForHandoff
Failures ==
    \/ buildFails \/ DupFails \/ DrainTimesOut \/ flushFails \/ spawnFails \/ awaitReadyFails
    \/ ResumedServeFails

Next ==
    \/ \E c \in Clients : Connect(c) \/ Accept(c) \/ FinishRequest(c)
    \/ WriterCommits \/ TimerWrites \/ request \/ RestarterStep \/ Failures \/ ChildStep
    \/ reloadConfig \/ ReloadStep \/ Signal \/ MainStep

Spec == Init /\ [][Next]_vars

\* Goroutines run, handlers end, and a child boots or its parent gives up on it.
Fairness ==
    /\ WF_vars(RestarterStep) /\ WF_vars(MainStep) /\ WF_vars(ReloadStep)
    /\ WF_vars(ChildStep)
    /\ \A c \in Clients : WF_vars(Accept(c)) /\ WF_vars(FinishRequest(c))

---------------------------------------------------------------------------
(* Properties.                                                             *)

\* restart.go: every finalized record is durable before the child opens the database,
\* and from then on no record, no reload's rewrite of history and no final drain of the
\* old process is written, unless a shutdown was asked for.  What its timers keep is
\* written all the same.
ChildOpensQuiescent ==
    child \in {"open", "ready", "serving"} /\ ~asked =>
        unwritten = {} /\ overlap \subseteq {"timer"}

\* restart.go: a restart loses no request, whether it succeeds, fails or is repeated.
\* A signalled shutdown cuts streams, so does killing a child that was a moment late
\* with its readiness, and a process that cannot serve again dies with its requests.
NoRequestLost ==
    ~asked /\ ~lateKill /\ ~fatal => \A c \in Clients : at[c] # Lost

\* The promises of a restart together: every record written before the child reads and
\* none after, and no request lost to the change of process.
HandoffSound == ChildOpensQuiescent /\ NoRequestLost

\* restart.go: the signal handler never runs a second shutdown beside a handoff.
SignalNeverRacesHandoff == ~(inHandoff /\ loop \in {"stopping", "draining", "closing"})

\* Whatever fails, every client that connects is answered, unless the process was told
\* to stop; and the reload lock is released.
Served(c) == at[c] \in {Unconnected, Answered, Lost} \/ asked
Unlocked == reload = "free" \/ loop = "gone"
ClientsServed == (\A c \in Clients : []<>Served(c)) /\ []<>Unlocked
=============================================================================
