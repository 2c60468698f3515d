---------------------------- MODULE HandoffProofs ----------------------------
(***************************************************************************)
(* Proofs about Handoff for every set of clients and every number of       *)
(* restarts, reloads and signals: the new process opens a quiescent store, *)
(* and a restart loses no request.                                         *)
(***************************************************************************)
EXTENDS Handoff, TLAPS

Committed == {"committed", "draining", "flushing", "handing_off"}
States == {Unconnected, Waiting, Answered, Lost} \cup {On(s) : s \in Nat}

Typed ==
  /\ phase \in {"idle", "building"} \cup Committed
  /\ server \in Nat /\ restarts \in Nat /\ restarts <= MaxRestarts
  /\ shut \subseteq 0 .. server
  /\ at \in [Clients -> States]
  /\ child \in {"none", "boot", "open", "ready", "serving"}
  /\ asked \in BOOLEAN /\ lateKill \in BOOLEAN /\ fatal \in BOOLEAN
  /\ serveErr \in BOOLEAN

\* Every restart makes at most one new server, so the child's is never taken.
ServersNumbered ==
  /\ server <= restarts
  /\ phase # "idle" => server < restarts

\* A request is served by the child that serves, by the serving server, or by one
\* that a failed drain left behind.
ClientsPlaced ==
  \A c \in Clients, s \in Nat :
    at[c] = On(s) => IF s = Child THEN child = "serving"
                                  ELSE s = server \/ s \in retired

\* The commit point, the child and the reload fence follow the phase; a process that
\* died left no child and no socket.
PhaseKept ==
  /\ (inHandoff <=> phase \in Committed)
  /\ child # "none" => "child" \in socket /\ phase = "handing_off"
  /\ phase = "handing_off" => reload = "handoff"
  /\ fatal => child = "none" /\ loop = "gone" /\ socket = {}

\* Until a signal asks for a shutdown or the process dies, main leaves its loop only
\* for a child that is ready; the serving server listens up to the drain, and after it the old
\* process has neither a handler nor an unwritten record left.
Unasked ==
  /\ loop \in {"select", "waiting", "gone"}
  /\ loop = "gone" => child \in {"ready", "serving"}
  /\ overlap \subseteq {"timer"}
  /\ serveErr => inHandoff \/ server # 0
  /\ phase \in {"idle", "building", "committed"} =>
       /\ server \notin shut /\ "listener" \in socket
       /\ serveErr => server # 0
  /\ phase \in {"flushing", "handing_off"} =>
       /\ server \in shut
       /\ \A c \in Clients, s \in Nat : at[c] = On(s) => s = Child
  /\ phase = "handing_off" => unwritten = {}

HandoffInv ==
  /\ Typed /\ ServersNumbered /\ ClientsPlaced /\ PhaseKept
  /\ ~asked /\ ~fatal => Unasked
  /\ NoRequestLost

\* The places a client can be in differ, and so do those of two servers.
LEMMA StatesDiffer ==
  /\ \A s \in Nat : On(s) \notin {Unconnected, Waiting, Answered, Lost}
  /\ \A s, t \in Nat : On(s) = On(t) => s = t
  /\ Lost \notin {Unconnected, Waiting, Answered}
<1>1. ASSUME NEW s \in Nat PROVE On(s).state = "active" /\ On(s).server = s
  BY DEF On
<1>2. /\ Unconnected.state = "new" /\ Waiting.state = "backlog"
      /\ Answered.state = "answered" /\ Lost.state = "lost"
  BY DEF Unconnected, Waiting, Answered, Lost
<1>3. ASSUME NEW s \in Nat PROVE On(s) \notin {Unconnected, Waiting, Answered, Lost}
  BY <1>1, <1>2
<1>4. ASSUME NEW s \in Nat, NEW t \in Nat, On(s) = On(t) PROVE s = t
  BY <1>1, <1>4
<1>5. QED
  BY <1>2, <1>3, <1>4

\* Only a served request is in state active.
LEMMA ActiveState ==
  ASSUME NEW a \in States, a.state = "active"
  PROVE  \E s \in Nat : a = On(s)
BY DEF States, Unconnected, Waiting, Answered, Lost

\* Who is served by none of the given servers is not affected when they go.
LEMMA GoneKeepsOthers ==
  ASSUME Typed, NEW servers \in SUBSET Nat, NEW c \in Clients
  PROVE  /\ Gone(servers)[c] \in {at[c], Lost}
         /\ \A s \in Nat : Gone(servers)[c] = On(s) => at[c] = On(s) /\ s \notin servers
         /\ (\A s \in servers : at[c] # On(s)) => Gone(servers)[c] = at[c]
<1>1. Gone(servers)[c] = IF \E s \in servers : at[c] = On(s) THEN Lost ELSE at[c]
  BY DEF Gone, Active
<1>2. QED
  BY <1>1, StatesDiffer

\* The steps of clients.
LEMMA ClientStep ==
  ASSUME MaxRestarts \in Nat, HandoffInv, NEW c \in Clients,
         Connect(c) \/ Accept(c) \/ FinishRequest(c)
  PROVE  HandoffInv'
<1> USE DEF HandoffInv, Typed
<1>0. /\ UNCHANGED <<restarter, shut, socket, reload, child, loop, serveErr, counters, history>>
      /\ UNCHANGED <<phase, inHandoff, server, retired, restarts, asked, lateKill, fatal, overlap>>
  BY DEF Connect, Accept, FinishRequest, restarter, counters, history
<1>1. CASE Connect(c)
  <2>1. at' = [at EXCEPT ![c] = Waiting] /\ unwritten' = unwritten
    BY <1>1 DEF Connect
  <2>2. at' \in [Clients -> States]
    BY <2>1 DEF States
  <2>3. \A d \in Clients, s \in Nat : at'[d] = On(s) => at[d] = On(s)
    BY <2>1, StatesDiffer
  <2>4. \A d \in Clients : at'[d] = Lost => at[d] = Lost
    BY <2>1, StatesDiffer
  <2>5. ClientsPlaced'
    BY <1>0, <2>3 DEF ClientsPlaced, Child
  <2>6. Unasked => Unasked'
    BY <1>0, <2>1, <2>3 DEF Unasked, Child
  <2>7. QED
    BY <1>0, <2>2, <2>4, <2>5, <2>6 DEF ServersNumbered, PhaseKept, NoRequestLost
<1>2. CASE Accept(c)
  <2>1. unwritten' = unwritten
    BY <1>2 DEF Accept
  <2>2. PICK n \in Nat : /\ at' = [at EXCEPT ![c] = On(n)]
                         /\ \/ n = server /\ Alive /\ server \notin shut
                            \/ n = Child /\ child = "serving"
    BY <1>2 DEF Accept, Child
  <2>3. at' \in [Clients -> States]
    BY <2>2 DEF States
  <2>4. \A d \in Clients, s \in Nat : at'[d] = On(s) => at[d] = On(s) \/ (d = c /\ s = n)
    BY <2>2, StatesDiffer
  <2>5. \A d \in Clients : at'[d] = Lost => at[d] = Lost
    BY <2>2, StatesDiffer
  <2>6. server # Child
    BY DEF ServersNumbered, Child
  <2>7. ClientsPlaced'
    BY <1>0, <2>2, <2>4, <2>6 DEF ClientsPlaced, Child
  <2>8. Unasked => Unasked'
    BY <1>0, <2>1, <2>2, <2>4 DEF Unasked, Child, PhaseKept
  <2>9. QED
    BY <1>0, <2>3, <2>5, <2>7, <2>8 DEF ServersNumbered, PhaseKept, NoRequestLost
<1>3. CASE FinishRequest(c)
  <2>1. at' = [at EXCEPT ![c] = Answered]
    BY <1>3 DEF FinishRequest
  <2>2. at' \in [Clients -> States]
    BY <2>1 DEF States
  <2>3. \A d \in Clients, s \in Nat : at'[d] = On(s) => at[d] = On(s)
    BY <2>1, StatesDiffer
  <2>4. \A d \in Clients : at'[d] = Lost => at[d] = Lost
    BY <2>1, StatesDiffer
  <2>5. ClientsPlaced'
    BY <1>0, <2>3 DEF ClientsPlaced, Child
  <2>6. PICK n \in Nat : at[c] = On(n)
    BY <1>3, ActiveState DEF FinishRequest
  <2>7. unwritten' = unwritten \/ n # Child
    BY <1>3, <2>6 DEF FinishRequest
  <2>8. Unasked => Unasked'
    BY <1>0, <2>3, <2>6, <2>7 DEF Unasked, Child
  <2>9. QED
    BY <1>0, <2>2, <2>4, <2>5, <2>8 DEF ServersNumbered, PhaseKept, NoRequestLost
<1>4. QED
  BY <1>1, <1>2, <1>3


\* A step that moves no client and no server keeps every client's place.
LEMMA SamePlaces ==
  ASSUME ClientsPlaced, UNCHANGED <<at, child, server, retired>>
  PROVE  ClientsPlaced'
BY DEF ClientsPlaced, Child

\* The steps of a restart up to the drain, and the ends of one that found nothing
\* to resume on.
LEMMA BuildStep ==
  ASSUME MaxRestarts \in Nat, HandoffInv,
         request \/ buildFails \/ Commit \/ DupListener \/ DupFails
  PROVE  HandoffInv'
<1> USE DEF HandoffInv
<1>1. UNCHANGED <<at, child, server, retired, shut, unwritten, loop, serveErr,
                  asked, lateKill, fatal, overlap>>
  BY DEF request, buildFails, Commit, DupListener, DupFails, counters, history
<1>2. ClientsPlaced' /\ NoRequestLost'
  BY <1>1, SamePlaces DEF NoRequestLost
<1>3. /\ phase' \in {"idle", "building"} \cup Committed
      /\ (inHandoff' <=> phase' \in Committed)
      /\ phase' \notin {"flushing", "handing_off"}
      /\ phase \notin {"flushing", "handing_off"}
  BY DEF request, buildFails, Commit, DupListener, DupFails, finishFailure, Committed,
    PhaseKept
<1>4. /\ restarts' \in Nat /\ restarts' <= MaxRestarts /\ restarts <= restarts'
      /\ phase' # "idle" => server < restarts'
  BY DEF request, buildFails, Commit, DupListener, DupFails, finishFailure, Typed,
    ServersNumbered, counters
<1>5. Typed'
  BY <1>1, <1>3, <1>4 DEF Typed
<1>6. ServersNumbered'
  BY <1>1, <1>4 DEF Typed, ServersNumbered
<1>7. PhaseKept'
  <2>1. loop # "gone"
    BY DEF request, buildFails, Commit, DupListener, DupFails, Alive
  <2> QED BY <1>1, <1>3, <2>1 DEF PhaseKept
<1>8. ASSUME ~asked, ~fatal PROVE Unasked'
  <2>1. "listener" \in socket /\ server \notin shut
        /\ phase \in {"idle", "building", "committed"}
    BY <1>8 DEF Unasked, request, buildFails, Commit, DupListener, DupFails
  <2>2. "listener" \in socket'
    BY <2>1 DEF request, buildFails, Commit, DupListener, DupFails
  <2>3. QED
    BY <1>1, <1>3, <1>8, <2>1, <2>2 DEF Unasked
<1>9. QED
  BY <1>1, <1>2, <1>5, <1>6, <1>7, <1>8

\* The drain: the server stops listening, and once its handlers and those of the
\* retired servers are through there is no handler left.
LEMMA DrainStep ==
  ASSUME MaxRestarts \in Nat, HandoffInv, closeFeeds \/ Drained
  PROVE  HandoffInv'
<1> USE DEF HandoffInv
<1>1. UNCHANGED <<at, child, server, inHandoff, reload, unwritten, loop, restarts,
                  asked, lateKill, fatal, overlap>>
  BY DEF closeFeeds, Drained, restarter, counters, history
<1>2. phase = "draining" /\ inHandoff
  BY DEF closeFeeds, Drained, PhaseKept, Committed
<1>3. NoRequestLost'
  BY <1>1 DEF NoRequestLost
<1>4. CASE closeFeeds
  <2>1. /\ phase' = phase /\ retired' = retired
        /\ shut' = shut \cup {server} /\ socket' = socket \ {"listener"}
        /\ serveErr' \in BOOLEAN
    BY <1>4 DEF closeFeeds, Shutdown, restarter
  <2>2. Typed' /\ ServersNumbered'
    BY <1>1, <2>1 DEF Typed, ServersNumbered
  <2>3. ClientsPlaced'
    BY <1>1, <2>1, SamePlaces
  <2>4. PhaseKept'
    BY <1>1, <1>2, <2>1 DEF PhaseKept
  <2>5. Unasked => Unasked'
    BY <1>1, <1>2, <2>1 DEF Unasked
  <2>6. QED
    BY <1>1, <1>3, <2>2, <2>3, <2>4, <2>5
<1>5. CASE Drained
  <2>1. /\ phase' = "flushing" /\ retired' = {} /\ server \in shut
        /\ UNCHANGED <<shut, socket, serveErr>>
        /\ Active({server} \cup retired) = {}
    BY <1>5 DEF Drained, drain
  <2>2. Typed' /\ ServersNumbered'
    BY <1>1, <1>2, <2>1 DEF Typed, ServersNumbered, Committed
  <2>3. \A c \in Clients, s \in Nat : at[c] = On(s) => s = Child
    BY <2>1 DEF Active, ClientsPlaced
  <2>4. ClientsPlaced'
    BY <1>1, <2>3 DEF ClientsPlaced, Child
  <2>5. child = "none"
    BY <1>2 DEF PhaseKept
  <2>6. PhaseKept'
    BY <1>1, <1>2, <2>1, <2>5 DEF PhaseKept, Committed
  <2>7. Unasked => Unasked'
    BY <1>1, <1>2, <2>1, <2>3 DEF Unasked, Child
  <2>8. QED
    BY <1>1, <1>3, <2>2, <2>4, <2>6, <2>7
<1>6. QED
  BY <1>4, <1>5

\* The fence, the flush and the child's boot.
LEMMA FlushStep ==
  ASSUME MaxRestarts \in Nat, HandoffInv, Fence \/ flushStore \/ spawn
  PROVE  HandoffInv'
<1> USE DEF HandoffInv
<1>1. UNCHANGED <<at, server, inHandoff, retired, shut, loop, restarts, serveErr,
                  asked, lateKill, fatal, overlap>>
  BY DEF Fence, flushStore, spawn, restarter, counters, history
<1>2. phase \in {"flushing", "handing_off"} /\ phase' \in {"flushing", "handing_off"}
      /\ child' \in {child, "boot"} /\ "serving" \notin {child'} \ {child}
  BY DEF Fence, flushStore, spawn, restarter
<1>3. Typed' /\ ServersNumbered' /\ NoRequestLost'
  BY <1>1, <1>2 DEF Typed, ServersNumbered, NoRequestLost, Committed
<1>4. ClientsPlaced'
  <2>1. child' = child \/ child = "none"
    BY DEF Fence, flushStore, spawn
  <2>2. QED
    BY <1>1, <2>1 DEF ClientsPlaced, Child
<1>5. PhaseKept'
  <2>1. ~fatal
    BY DEF Fence, flushStore, spawn, Alive, PhaseKept
  <2> QED BY <1>1, <1>2, <2>1 DEF PhaseKept, Committed, Fence, flushStore, spawn, restarter
<1>6. ASSUME Unasked PROVE Unasked'
  <2>1. /\ phase' = "handing_off" => unwritten' = {}
        /\ loop = "gone" => FALSE
    BY <1>6 DEF Fence, flushStore, spawn, restarter, Unasked, Alive
  <2>2. QED
    BY <1>1, <1>2, <1>6, <2>1 DEF Unasked, Child
<1>7. QED
  BY <1>1, <1>3, <1>4, <1>5, <1>6

\* The child comes up.
LEMMA ChildComes ==
  ASSUME MaxRestarts \in Nat, HandoffInv, ChildStep
  PROVE  HandoffInv'
<1> USE DEF HandoffInv
<1>1. UNCHANGED <<restarter, shut, socket, at, unwritten, reload, loop, serveErr,
                  counters, history>>
  BY DEF ChildStep, ChildOpens, signalReady, ChildServes, ChildBecomes
<1>2. UNCHANGED <<phase, inHandoff, server, retired, restarts, asked, lateKill, fatal, overlap>>
  BY <1>1 DEF restarter, counters, history
<1>3. /\ child \in {"boot", "open", "ready"}
      /\ child' \in {"open", "ready", "serving"}
      /\ child = "ready" => child' = "serving"
  BY DEF ChildStep, ChildOpens, signalReady, ChildServes, ChildBecomes
<1>4. Typed' /\ ServersNumbered' /\ NoRequestLost'
  BY <1>1, <1>2, <1>3 DEF Typed, ServersNumbered, NoRequestLost
<1>5. ClientsPlaced' /\ PhaseKept'
  BY <1>1, <1>2, <1>3 DEF ClientsPlaced, Child, PhaseKept
<1>6. Unasked => Unasked'
  BY <1>1, <1>2, <1>3 DEF Unasked, Child
<1>7. QED
  BY <1>1, <1>2, <1>4, <1>5, <1>6

\* A process that cannot serve again, or whose resumed server fails.
LEMMA DeathStep ==
  ASSUME MaxRestarts \in Nat, HandoffInv, Dies,
         \/ DrainTimesOut \/ flushFails \/ spawnFails \/ awaitReadyFails
         \/ ResumedServeFails
  PROVE  HandoffInv'
<1> USE DEF HandoffInv
<1>1. /\ loop' = "gone" /\ fatal' = TRUE /\ socket' = {} /\ child' = "none"
      /\ at' = [c \in Clients |-> IF at[c] \in {Unconnected, Answered} THEN at[c] ELSE Lost]
      /\ UNCHANGED <<phase, inHandoff, server, retired, reload>>
  BY DEF Dies, restarter
<1>2. /\ UNCHANGED <<shut, unwritten, serveErr, restarts, asked>>
      /\ lateKill' \in BOOLEAN
  BY DEF DrainTimesOut, flushFails, spawnFails, awaitReadyFails, ResumedServeFails, counters, Typed
<1>3. at' \in [Clients -> States] /\ \A c \in Clients, s \in Nat : at'[c] # On(s)
  BY <1>1, StatesDiffer DEF States
<1>4. Typed' /\ ServersNumbered' /\ ClientsPlaced'
  BY <1>1, <1>2, <1>3 DEF Typed, ServersNumbered, ClientsPlaced
<1>5. PhaseKept' /\ NoRequestLost'
  BY <1>1, <1>2 DEF PhaseKept, NoRequestLost
<1>6. QED
  BY <1>1, <1>4, <1>5

\* A failed handoff resumes on a clone of the serving server.
LEMMA ResumeStep ==
  ASSUME MaxRestarts \in Nat, HandoffInv,
         DrainTimesOut \/ flushFails \/ spawnFails \/ awaitReadyFails
  PROVE  HandoffInv'
<1> USE DEF HandoffInv
<1>0. CASE Dies
  BY <1>0, DeathStep DEF DrainTimesOut, flushFails, spawnFails, awaitReadyFails
<1> SUFFICES ASSUME ~Dies PROVE HandoffInv'
  BY <1>0
<1>1. /\ \E clients \in {at, Gone({Child})} : Resumes(clients)
      /\ Alive
      /\ UNCHANGED <<shut, unwritten, loop, serveErr, restarts, asked, fatal, overlap>>
  BY DEF DrainTimesOut, flushFails, spawnFails, awaitReadyFails, failAndResume, Resumes, counters
<1>2. /\ server' = server + 1 /\ retired' = retired \cup {server}
      /\ socket' = (socket \ {"dup", "child"}) \cup {"listener"}
      /\ child' = "none" /\ phase' = "idle" /\ ~inHandoff'
  BY <1>1 DEF Resumes, finishFailure
<1>3. phase # "idle"
  BY DEF DrainTimesOut, flushFails, spawnFails, awaitReadyFails
<1>4. /\ at' \in [Clients -> States]
      /\ lateKill' \in BOOLEAN /\ (lateKill => lateKill')
      /\ \A c \in Clients : at'[c] \in {at[c], Lost}
      /\ \A c \in Clients, s \in Nat : at'[c] = On(s) => at[c] = On(s) /\ s # Child
      /\ ~lateKill' => \A c \in Clients : at'[c] = at[c]
  <2>1. CASE awaitReadyFails
    <3>1. at' = Gone({Child}) /\ {Child} \in SUBSET Nat
      BY <2>1 DEF awaitReadyFails, failAndResume, Resumes, Child
    <3>2. \A c \in Clients :
            /\ at'[c] \in {at[c], Lost}
            /\ \A s \in Nat : at'[c] = On(s) => at[c] = On(s) /\ s \notin {Child}
            /\ at[c] # On(Child) => at'[c] = at[c]
      BY <3>1, GoneKeepsOthers
    <3>3. at' \in [Clients -> States]
      BY <3>1 DEF Gone, States, Typed
    <3>4. /\ lateKill' \in BOOLEAN /\ (lateKill => lateKill')
          /\ child \in {"ready", "serving"} => lateKill'
      BY <2>1 DEF awaitReadyFails, Typed
    <3>5. child # "serving" => \A c \in Clients : at[c] # On(Child)
      BY DEF ClientsPlaced, Child
    <3>6. QED
      BY <3>2, <3>3, <3>4, <3>5
  <2>2. CASE DrainTimesOut \/ flushFails \/ spawnFails
    <3>1. at' = at /\ lateKill' = lateKill
      BY <2>2 DEF DrainTimesOut, flushFails, spawnFails, failAndResume, Resumes
    <3>2. child = "none"
      BY <2>2 DEF DrainTimesOut, flushFails, spawnFails, PhaseKept
    <3>3. \A c \in Clients, s \in Nat : at[c] = On(s) => s # Child
      BY <3>2 DEF ClientsPlaced
    <3>4. QED
      BY <3>1, <3>3 DEF Typed
  <2>3. QED
    BY <2>1, <2>2
<1>5. Typed'
  BY <1>1, <1>2, <1>4 DEF Typed
<1>6. ServersNumbered'
  BY <1>1, <1>2, <1>3 DEF Typed, ServersNumbered
<1>7. ClientsPlaced'
  <2> SUFFICES ASSUME NEW c \in Clients, NEW s \in Nat, at'[c] = On(s)
               PROVE  s # Child /\ s \in retired'
    BY DEF ClientsPlaced, Child
  <2>1. at[c] = On(s) /\ s # Child
    BY <1>4
  <2>2. QED
    BY <1>2, <2>1 DEF ClientsPlaced
<1>8. PhaseKept'
  <2>1. ~fatal'
    BY <1>1 DEF PhaseKept, Alive
  <2> QED BY <1>2, <2>1 DEF PhaseKept, Committed
<1>9. ASSUME Unasked PROVE Unasked'
  <2>1. server' # 0 /\ server' \notin shut'
    BY <1>1, <1>2 DEF Typed
  <2>2. QED
    BY <1>1, <1>2, <1>9, <2>1 DEF Unasked, Alive
<1>10. NoRequestLost'
  BY <1>1, <1>4 DEF NoRequestLost, Typed
<1>11. QED
  BY <1>1, <1>5, <1>6, <1>7, <1>8, <1>9, <1>10

\* The process ends: because its child is ready, or after a shutdown.
LEMMA ExitStep ==
  ASSUME MaxRestarts \in Nat, HandoffInv, awaitReady \/ MainReturns
  PROVE  HandoffInv'
<1> USE DEF HandoffInv
<1>1. /\ Exit
      /\ UNCHANGED <<restarter, shut, unwritten, reload, child, serveErr, counters, history>>
  BY DEF awaitReady, MainReturns
<1>2. UNCHANGED <<phase, inHandoff, server, retired, restarts, asked, lateKill, fatal, overlap>>
  BY <1>1 DEF restarter, counters, history
<1>3. /\ at' \in [Clients -> States]
      /\ \A c \in Clients : at'[c] \in {at[c], Lost}
  BY <1>1 DEF Exit, Typed, States
<1>4. \A c \in Clients, s \in Nat : at'[c] = On(s) => at[c] = On(s)
  BY <1>3, StatesDiffer
<1>5. Typed' /\ ServersNumbered'
  BY <1>1, <1>2, <1>3 DEF Typed, ServersNumbered
<1>6. ClientsPlaced'
  BY <1>1, <1>2, <1>4 DEF ClientsPlaced, Child
<1>7. PhaseKept'
  <2>1. loop # "gone"
    BY DEF awaitReady, MainReturns, Alive
  <2> QED BY <1>1, <1>2, <2>1 DEF PhaseKept, Exit
<1>8. ASSUME ~asked, ~fatal
      PROVE  Unasked' /\ \A c \in Clients : at'[c] = at[c]
  <2>1. awaitReady
    BY <1>8 DEF MainReturns, Unasked
  <2>2. phase = "handing_off" /\ child \in {"ready", "serving"} /\ "child" \in socket
    BY <2>1 DEF awaitReady, PhaseKept
  <2>3. \A c \in Clients, s \in Nat : at[c] = On(s) => s = Child
    BY <1>8, <2>2 DEF Unasked
  <2>4. Child \in Nat /\ Child \notin 0 .. MaxRestarts
    BY DEF Child
  <2>5. Active(0 .. MaxRestarts) = {}
    BY <2>3, <2>4 DEF Active
  <2>6. ~(socket \subseteq {"listener", "dup"})
    BY <2>2
  <2>7. \A c \in Clients : at'[c] = at[c]
    BY <1>1, <2>5, <2>6 DEF Exit
  <2>8. Unasked'
    BY <1>1, <1>2, <1>8, <2>2, <2>3, <2>7 DEF Unasked, Exit, Child
  <2>9. QED
    BY <2>7, <2>8
<1>9. NoRequestLost'
  BY <1>2, <1>8 DEF NoRequestLost
<1>10. QED
  BY <1>2, <1>5, <1>6, <1>7, <1>8, <1>9

\* Reloads, the writer and signals.
LEMMA BackgroundStep ==
  ASSUME MaxRestarts \in Nat, HandoffInv,
         WriterCommits \/ TimerWrites \/ reloadConfig \/ ReloadStep \/ Signal
  PROVE  HandoffInv'
<1> USE DEF HandoffInv
<1>1. /\ UNCHANGED <<restarter, shut, socket, at, child, loop, serveErr>>
      /\ UNCHANGED <<restarts, asked, lateKill, fatal>>
      /\ unwritten' \in {unwritten, {}}
  BY DEF WriterCommits, TimerWrites, reloadConfig, ReloadStep, reloadConfigLocked,
    fenceReloadsForHandoff, Signal, counters, history
<1>2. UNCHANGED <<phase, inHandoff, server, retired>>
  BY <1>1 DEF restarter
<1>3. overlap' \subseteq overlap \cup {"timer"} \/ Writes("record") \/ Writes("reload")
  BY DEF WriterCommits, TimerWrites, reloadConfig, ReloadStep, reloadConfigLocked,
    fenceReloadsForHandoff, Signal, history, Writes
<1>5. Typed' /\ ServersNumbered' /\ NoRequestLost'
  BY <1>1, <1>2 DEF Typed, ServersNumbered, NoRequestLost
<1>6. ClientsPlaced'
  BY <1>1, <1>2, SamePlaces
<1>7. PhaseKept'
  <2>1. reload = "handoff" => reload' = "handoff"
    BY DEF WriterCommits, TimerWrites, reloadConfig, ReloadStep, reloadConfigLocked,
      fenceReloadsForHandoff, Signal
  <2>2. QED
    BY <1>1, <1>2, <2>1 DEF PhaseKept
<1>8. ASSUME Unasked PROVE Unasked'
  <2>1. overlap' \subseteq {"timer"}
    <3>1. CASE child = "none"
      BY <1>3, <1>8, <3>1 DEF Writes, Unasked
    <3>2. CASE child # "none"
      <4>1. phase = "handing_off" /\ reload = "handoff" /\ unwritten = {}
        BY <1>8, <3>2 DEF PhaseKept, Unasked
      <4>2. overlap' \subseteq overlap \cup {"timer"}
        BY <4>1 DEF WriterCommits, TimerWrites, reloadConfig, ReloadStep,
          reloadConfigLocked, fenceReloadsForHandoff, Signal, history, Writes
      <4>3. QED
        BY <1>8, <4>2 DEF Unasked
    <3>3. QED
      BY <3>1, <3>2
  <2>2. QED
    BY <1>1, <1>2, <1>8, <2>1 DEF Unasked, Child
<1>9. QED
  BY <1>1, <1>5, <1>6, <1>7, <1>8

\* The main loop and a signalled shutdown.
LEMMA MainLoopStep ==
  ASSUME MaxRestarts \in Nat, HandoffInv,
         \/ ServeReturned \/ HandleSignal \/ HandoffDone \/ StopServing
         \/ ShutdownReturns \/ drainStore
  PROVE  HandoffInv'
<1> USE DEF HandoffInv
<1>1. UNCHANGED <<phase, inHandoff, server, reload, child, restarts, lateKill, fatal>>
  BY DEF ServeReturned, HandleSignal, HandoffDone, StopServing,
    ShutdownReturns, drainStore, restarter, counters, history
<1>0. ~fatal
  BY DEF ServeReturned, HandleSignal, HandoffDone, StopServing, ShutdownReturns, drainStore,
    PhaseKept
<1>2. CASE ServeReturned \/ HandleSignal \/ HandoffDone
  <2>1. /\ UNCHANGED <<retired, shut, socket, at, unwritten, overlap>>
        /\ asked' \in BOOLEAN /\ (asked => asked')
        /\ serveErr' \in BOOLEAN /\ (serveErr' => serveErr)
    <3>1. CASE ServeReturned
      BY <3>1 DEF ServeReturned, restarter, history, Typed
    <3>2. CASE HandleSignal
      <4>1. asked' = TRUE \/ asked' = asked
        BY <3>2 DEF HandleSignal
      <4>2. QED
        BY <3>2, <4>1 DEF HandleSignal, restarter, history, Typed
    <3>3. CASE HandoffDone
      BY <3>3 DEF HandoffDone, restarter, history, Typed
    <3>4. QED
      BY <1>2, <3>1, <3>2, <3>3
  <2>2. Typed' /\ ServersNumbered' /\ NoRequestLost' /\ PhaseKept'
    BY <1>0, <1>1, <2>1 DEF Typed, ServersNumbered, NoRequestLost, PhaseKept
  <2>3. ClientsPlaced'
    BY <1>1, <2>1, SamePlaces
  <2>4. ASSUME ~asked', ~fatal PROVE Unasked'
    <3>1. Unasked
      BY <2>1, <2>4
    <3>2. loop' \in {"select", "waiting"}
      BY <1>2, <2>4, <3>1 DEF ServeReturned, HandleSignal, HandoffDone, Unasked
    <3>3. QED
      BY <1>1, <2>1, <3>1, <3>2 DEF Unasked, Child
  <2>5. QED
    BY <1>0, <2>2, <2>3, <2>4
<1>3. CASE StopServing \/ ShutdownReturns \/ drainStore
  <2>1. asked /\ asked'
    BY <1>0, <1>3 DEF StopServing, ShutdownReturns, drainStore, Unasked, history, Typed
  <2>2. /\ at' \in [Clients -> States]
        /\ \A c \in Clients, s \in Nat : at'[c] = On(s) => at[c] = On(s)
    <3>1. at' = at \/ at' = Gone(0 .. MaxRestarts)
      BY <1>3 DEF StopServing, ShutdownReturns, drainStore
    <3>2. 0 .. MaxRestarts \in SUBSET Nat
      OBVIOUS
    <3>3. Gone(0 .. MaxRestarts) \in [Clients -> States]
      BY DEF Gone, States, Typed
    <3>4. QED
      BY <3>1, <3>2, <3>3, GoneKeepsOthers DEF Typed
  <2>3. /\ shut' \subseteq 0 .. server /\ serveErr' \in BOOLEAN
        /\ socket' \in {socket, socket \ {"listener"}}
    <3>1. CASE StopServing
      BY <3>1 DEF StopServing, Shutdown, history, Typed
    <3>2. CASE ShutdownReturns
      BY <3>2 DEF ShutdownReturns, history, Typed
    <3>3. CASE drainStore
      BY <3>3 DEF drainStore, Typed
    <3>4. QED
      BY <1>3, <3>1, <3>2, <3>3
  <2>4. Typed' /\ ServersNumbered' /\ NoRequestLost' /\ PhaseKept'
    BY <1>0, <1>1, <2>1, <2>2, <2>3 DEF Typed, ServersNumbered, NoRequestLost, PhaseKept
  <2>5. ClientsPlaced'
    <3>1. CASE retired' = retired
      BY <1>1, <2>2, <3>1 DEF ClientsPlaced, Child
    <3>2. CASE retired' # retired
      <4>1. drain /\ at' = at
        BY <1>3, <3>2 DEF StopServing, ShutdownReturns, drainStore, restarter
      <4>2. \A c \in Clients, s \in Nat : at[c] = On(s) => s = Child
        BY <4>1 DEF drain, Active, ClientsPlaced
      <4>3. QED
        BY <1>1, <4>1, <4>2 DEF ClientsPlaced, Child
    <3>3. QED
      BY <3>1, <3>2
  <2>6. QED
    BY <2>1, <2>4, <2>5
<1>4. QED
  BY <1>2, <1>3

\* Every step keeps the invariant.
LEMMA HandoffStep ==
  ASSUME MaxRestarts \in Nat, HandoffInv, [Next]_vars
  PROVE  HandoffInv'
<1>1. CASE UNCHANGED vars
  <2>1. /\ UNCHANGED <<phase, inHandoff, server, retired, shut, socket, at, unwritten>>
        /\ UNCHANGED <<reload, child, loop, serveErr, restarts, asked, lateKill, fatal, overlap>>
    BY <1>1 DEF vars, restarter, counters, history
  <2>2. QED
    BY <2>1, SamePlaces DEF HandoffInv, Typed, ServersNumbered, PhaseKept,
      Unasked, NoRequestLost, Child
<1>2. CASE Next
  <2>1. ASSUME ResumedServeFails PROVE HandoffInv'
    <3>1. Dies
      BY <2>1 DEF ResumedServeFails
    <3> QED BY <2>1, <3>1, DeathStep
  <2>2. QED
    BY <1>2, <2>1, ClientStep, BuildStep, DrainStep, FlushStep, ChildComes, ResumeStep,
    ExitStep, BackgroundStep, MainLoopStep, Zenon
    DEF Next, RestarterStep, Failures, MainStep
<1>3. QED
  BY <1>1, <1>2

\* The invariant holds in every reachable state.
LEMMA HandoffInvariant == ASSUME MaxRestarts \in Nat PROVE Spec => []HandoffInv
<1>1. Init => HandoffInv
  <2> SUFFICES ASSUME Init PROVE HandoffInv
    OBVIOUS
  <2>1. \A c \in Clients, s \in Nat : at[c] = Unconnected /\ at[c] # On(s) /\ at[c] # Lost
    BY StatesDiffer DEF Init
  <2>2. Typed
    <3>1. at \in [Clients -> States]
      BY DEF Init, States
    <3>2. shut \subseteq 0 .. server /\ asked \in BOOLEAN /\ lateKill \in BOOLEAN
          /\ fatal \in BOOLEAN /\ serveErr \in BOOLEAN
      BY DEF Init
    <3>3. QED
      BY <3>1, <3>2 DEF Init, Typed, Committed
  <2>3. QED
    BY <2>1, <2>2 DEF Init, HandoffInv, ServersNumbered, ClientsPlaced,
      PhaseKept, Committed, Unasked, NoRequestLost
<1>2. HandoffInv /\ [Next]_vars => HandoffInv'
  BY HandoffStep
<1>3. QED
  BY <1>1, <1>2, PTL DEF Spec

\* Every finalized record is durable before the child opens the database, and from then
\* on the old process writes at most what its timers keep, unless a shutdown was asked
\* for (restart.go: prepareHandoff, run; main.go: flushStore, fenceReloadsForHandoff).
THEOREM ChildOpensQuiescentStore ==
  ASSUME MaxRestarts \in Nat PROVE Spec => []ChildOpensQuiescent
<1>1. HandoffInv => ChildOpensQuiescent
  BY DEF HandoffInv, PhaseKept, Unasked, ChildOpensQuiescent
<1>2. QED
  BY <1>1, HandoffInvariant, PTL

\* A restart loses no request, whether it succeeds, fails or is repeated, unless a
\* shutdown was asked for, a ready child was killed, or the process died because it
\* could not serve again (restart.go: drain, failAndResume, run).
THEOREM RestartLosesNothing ==
  ASSUME MaxRestarts \in Nat PROVE Spec => []NoRequestLost
<1>1. HandoffInv => NoRequestLost
  BY DEF HandoffInv
<1>2. QED
  BY <1>1, HandoffInvariant, PTL

\* Both promises of a restart together.
THEOREM HandoffIsSound ==
  ASSUME MaxRestarts \in Nat PROVE Spec => []HandoffSound
BY ChildOpensQuiescentStore, RestartLosesNothing, PTL DEF HandoffSound
=============================================================================
