---------------------------- MODULE Conversations ----------------------------
(***************************************************************************)
(* The conversation a request is filed under (internal/proxy/              *)
(* conversation.go).  A declared session or a tracked body parameter names *)
(* it; otherwise ConversationTracker groups the requests of one client and *)
(* credential by their turn counts.  A request's time is taken when it     *)
(* starts and used when its body has been read, so the tracker may meet    *)
(* times out of order; the limits are reloaded meanwhile.                  *)
(***************************************************************************)
EXTENDS Naturals, Sequences, FiniteSets, TLC, SequencesExt, FiniteSetsExt, Functions

CONSTANTS Requests,         \* requests, numbered as they arrive
          Calls,            \* [part, sessions, parents, declared, members, turns]
          Params,           \* the configured parameters of the client's entry
          Valid,            \* identifiers validDeclaredSession accepts
          None,
          Limits,           \* [gap, open]: what a reload may set
          PartitionsMax, MaxClock, MaxReloads

VARIABLES clock, parts, order, sequence, limits, lastSweep, req, reloads,
          given             \* history: id -> the turns filed under it, in order
vars == <<clock, parts, order, sequence, limits, lastSweep, req, reloads, given>>

Waiting == [at |-> "new", call |-> None, now |-> 0, session |-> None, parent |-> None, id |-> None]

Init ==
    /\ clock = 0 /\ parts = <<>> /\ order = <<>> /\ sequence = 0 /\ lastSweep = 0
    /\ limits \in Limits
    /\ req = [r \in Requests |-> Waiting]
    /\ reloads = 0 /\ given = <<>>

---------------------------------------------------------------------------
(* Identity declared by the client.                                        *)

validDeclaredSession(id) == id \in Valid
namespacedConversationID(prefix, id) ==
    [space |-> prefix, hashed |-> ~validDeclaredSession(id), id |-> <<id>>]

\* A parent needs exactly one session and one parent, both valid and different.
requestConversation(call) ==
    LET session == IF call.sessions = <<>> THEN None ELSE Head(call.sessions)
    IN  IF ~call.declared
        THEN [ok |-> session = None \/ validDeclaredSession(session),
              session |-> session, parent |-> None]
        ELSE [ok |-> /\ Len(call.parents) = 1 /\ Len(call.sessions) = 1
                     /\ validDeclaredSession(session) /\ validDeclaredSession(Head(call.parents))
                     /\ session # Head(call.parents),
              session |-> session,
              parent |-> IF call.parents = <<>> THEN None ELSE Head(call.parents)]

\* A body member is absent, no string, ambiguous (twice), unreadable, or a value.
topLevelJSONKey(call, name) == IF name \in DOMAIN call.members THEN call.members[name] ELSE "absent"
subConversationParam(call, name) ==
    LET found == topLevelJSONKey(call, name)
    IN  [present |-> found \notin {"absent", "other"},
         value |-> IF validDeclaredSession(found) THEN found ELSE None]

\* The first present parameter decides, whatever its value is worth.
resolveSubConversation(call) ==
    LET present == SelectSeq(Params, LAMBDA name : subConversationParam(call, name).present)
    IN  IF present = <<>> THEN None ELSE subConversationParam(call, Head(present)).value

---------------------------------------------------------------------------
(* ConversationTracker.                                                    *)

Idle(session, now) == now > session.lastAt /\ now - session.lastAt > limits.gap
Alive(sessions, now) == SelectSeq(sessions, LAMBDA s : ~Idle(s, now))

\* sweepLocked: the map is ranged over to rebuild the order, in any order.
SweepDue(now) == now >= lastSweep /\ now - lastSweep >= limits.gap
Swept(now) ==
    [p \in {k \in DOMAIN parts : Alive(parts[k], now) # <<>>} |-> parts[p]]
sweepLocked(now) ==
    IF SweepDue(now)
    THEN {[parts |-> Swept(now), order |-> o] : o \in SetToSeqs(DOMAIN Swept(now))}
    ELSE {[parts |-> parts, order |-> order]}

\* At the cap the front of the order goes.
Evicted(t) ==
    IF Cardinality(DOMAIN t.parts) >= PartitionsMax /\ t.order # <<>>
    THEN [parts |-> [p \in DOMAIN t.parts \ {Head(t.order)} |-> t.parts[p]], order |-> Tail(t.order)]
    ELSE t
partitionFor(t, pk) ==
    IF pk \in DOMAIN t.parts THEN t
    ELSE [parts |-> Evicted(t).parts @@ (pk :> <<>>), order |-> Append(Evicted(t).order, pk)]

\* The open conversation with the greatest count the request still extends; the
\* first of several.
Continues(sessions, turns, now) ==
    LET fits == {i \in DOMAIN sessions : ~Idle(sessions[i], now) /\ turns >= sessions[i].lastTurn}
        top == {i \in fits : \A j \in fits : sessions[j].lastTurn <= sessions[i].lastTurn}
    IN  IF fits = {} THEN 0 ELSE Min(top)

\* Idle sessions go first, then the oldest created beyond the cap.
\* MutantCountsSessions: the sequence restarts with its partition.
MutantCountsSessions(sessions, pk, now) ==
    LET alive == Alive(sessions, now)
        kept == IF Len(alive) >= limits.open
                THEN SubSeq(alive, Len(alive) - limits.open + 2, Len(alive)) ELSE alive
    IN  Append(kept, [id |-> <<pk, Len(sessions) + 1>>, lastTurn |-> 0, lastAt |-> now])
newSession(sessions, pk, now) ==
    LET alive == Alive(sessions, now)
        kept == IF Len(alive) >= limits.open
                THEN SubSeq(alive, Len(alive) - limits.open + 2, Len(alive)) ELSE alive
    IN  Append(kept, [id |-> <<pk, sequence + 1>>, lastTurn |-> 0, lastAt |-> now])

---------------------------------------------------------------------------
(* The requests.                                                           *)

Tick == clock < MaxClock /\ clock' = clock + 1
        /\ UNCHANGED <<parts, order, sequence, limits, lastSweep, req, reloads, given>>

\* The record's start and the headers; a bad declaration is a 400.
Arrive(r, call) ==
    LET said == requestConversation(call)
    IN  /\ req[r].at = "new" /\ \A s \in Requests : s < r => req[s].at # "new"
        /\ req' = [req EXCEPT ![r] = [Waiting EXCEPT !.at = IF said.ok THEN "body" ELSE "refused",
                     !.call = call, !.now = clock, !.session = said.session, !.parent = said.parent]]
        /\ UNCHANGED <<clock, parts, order, sequence, limits, lastSweep, reloads, given>>

Files(r, id) ==
    req' = [req EXCEPT ![r].at = "filed", ![r].id = id,
              ![r].parent = IF @ = None THEN None ELSE namespacedConversationID("s:", @)]

AssignNamed(r) ==
    LET tracked == resolveSubConversation(req[r].call)
        session == req[r].session
    IN  /\ req[r].at = "body" /\ (session # None \/ tracked # None)
        /\ Files(r, IF session # None THEN namespacedConversationID("s:", session)
                    ELSE namespacedConversationID("k:", tracked))
        /\ UNCHANGED <<clock, parts, order, sequence, limits, lastSweep, reloads, given>>

Assign(r) ==
    LET call == req[r].call  now == req[r].now  pk == call.part
    IN  /\ req[r].at = "body" /\ req[r].session = None /\ resolveSubConversation(call) = None
        /\ lastSweep' = IF SweepDue(now) THEN now ELSE lastSweep
        /\ \E swept \in sweepLocked(now) :
             LET t == partitionFor(swept, pk)
                 best == Continues(t.parts[pk], call.turns, now)
                 open == IF best = 0 THEN newSession(t.parts[pk], pk, now) ELSE t.parts[pk]
                 at == IF best = 0 THEN Len(open) ELSE best
                 id == open[at].id
             IN  /\ sequence' = IF best = 0 THEN sequence + 1 ELSE sequence
                 /\ parts' = [t.parts EXCEPT ![pk] = [open EXCEPT ![at].lastTurn = call.turns,
                                                                  ![at].lastAt = now]]
                 /\ order' = t.order
                 /\ Files(r, [space |-> "c-", hashed |-> TRUE, id |-> id])
                 /\ given' = IF id \in DOMAIN given
                             THEN [given EXCEPT ![id] = Append(@, call.turns)]
                             ELSE given @@ (id :> <<call.turns>>)
        /\ UNCHANGED <<clock, limits, reloads>>

UpdateLimits(l) ==
    /\ reloads < MaxReloads /\ reloads' = reloads + 1
    /\ limits' = l
    /\ UNCHANGED <<clock, parts, order, sequence, lastSweep, req, given>>

Done == (\A r \in Requests : req[r].at \in {"filed", "refused"}) /\ UNCHANGED vars

Next ==
    \/ Tick \/ Done
    \/ \E r \in Requests : AssignNamed(r) \/ Assign(r) \/ \E call \in Calls : Arrive(r, call)
    \/ \E l \in Limits : UpdateLimits(l)

Spec == Init /\ [][Next]_vars

---------------------------------------------------------------------------
(* Memory stays bounded whatever keys a client sends: the eviction order is *)
(* exactly the live partitions, each once, so the cap always finds one to   *)
(* drop, and a partition keeps its sessions distinct (Assign, sweepLocked). *)
Bounded ==
    /\ Cardinality(DOMAIN parts) <= PartitionsMax
    /\ Len(order) = Cardinality(DOMAIN parts) /\ Range(order) = DOMAIN parts
    /\ \A pk \in DOMAIN parts : \A i, j \in DOMAIN parts[pk] :
         parts[pk][i].id = parts[pk][j].id => i = j

(* What is filed under one automatic id is one history: its turn counts never *)
(* go down, although partitions are evicted, swept and made again and times   *)
(* reach the tracker out of order; and no open session claims a count other   *)
(* than the last one filed under it (Assign, newSession, convoID).            *)
OneHistory ==
    /\ \A id \in DOMAIN given : \A i \in 2..Len(given[id]) : given[id][i - 1] <= given[id][i]
    /\ \A pk \in DOMAIN parts : \A i \in DOMAIN parts[pk] :
         LET s == parts[pk][i] IN s.id \in DOMAIN given /\ s.lastTurn = Last(given[s.id])

(* A filed request's identity is a declared one, a tracked one or automatic,   *)
(* and two requests share it only when they declared or tracked the same       *)
(* value or belong to one partition.                                           *)
Unmixed ==
    \A r, s \in Requests :
      (req[r].at = "filed" /\ req[s].at = "filed" /\ req[r].id = req[s].id) =>
        \/ req[r].session # None /\ req[r].session = req[s].session
        \/ /\ req[r].session = None /\ req[s].session = None
           /\ \/ resolveSubConversation(req[r].call) # None
              \/ req[r].call.part = req[s].call.part

TrackerSound == Bounded /\ OneHistory /\ Unmixed
=============================================================================
