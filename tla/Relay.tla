------------------------------- MODULE Relay -------------------------------
(***************************************************************************)
(* One streamed answer (internal/proxy: relay_stream.go, relay_serve.go).  *)
(*                                                                         *)
(* The relay passes lines through as they come, except around the end of   *)
(* the turn: from the first terminal line on it holds them back, and       *)
(* either releases them, replaces them by an error of its own, or, while   *)
(* the client holds nothing that counts as an answer, sends the request    *)
(* again behind what was relayed.                                          *)
(*                                                                         *)
(* s is the state of streamBody for the current attempt, with what the     *)
(* client has parsed so far and the record.  A step of the upstream is one *)
(* line, a read boundary, or the end of the body.  Lines arrive whole: the *)
(* fragments of an over-long line are left out.                            *)
(***************************************************************************)
EXTENDS Analyzer, FiniteSets

CONSTANTS
    Wires,          \* the wires a request may be routed to
    Lines,          \* wire -> the lines an upstream may write
    Tails,          \* wire -> the lines a body may break off in
    HoldMax,        \* stream_terminal_hold_max, in lines
    QualityRetries, ThinkingRetries,
    MaxLines        \* bound on the lines of one attempt

VARIABLES
    wire,           \* of the request
    s,              \* streamBody: its locals, the client, the record
    attempt,        \* attempts made
    left,           \* the two re-send budgets
    lines,          \* lines read in this attempt
    event,          \* the documents of the event being read
    verbatim,       \* history: attempts re-sent after they gave up their hold
    canceled,       \* the request context is canceled
    broken          \* writes to the client fail

vars == <<wire, s, attempt, left, lines, event, verbatim, canceled, broken>>

Proxy == 0          \* the origin of the proxy's own lines

---------------------------------------------------------------------------
(* The client: an SSE parser.                                              *)

\* frag is a line it has received without its newline; torn are the attempts whose
\* last line got that newline from the proxy and no blank line behind it.
Client == [pend |-> <<>>, frag |-> <<>>, got |-> {}, ends |-> {}, errs |-> {},
           mixed |-> FALSE, torn |-> {}]

Frames(ls) ==
    LET data == SelectSeq(ls, IsData) IN [i \in 1..Len(data) |-> data[i].frame]

Contract == {"answer", "refusal", "call", "output"}

\* A blank line dispatches what its data lines say together; an event without data
\* is dropped.  Only a Responses client reads event names; it drops a document that
\* has no type at all, and [DONE] means nothing to it.
Dispatch(c) ==
    LET ls == [i \in 1..Len(c.pend) |-> c.pend[i][1]]
        data == SelectSeq(c.pend, LAMBDA p : IsData(p[1]))
        from == ToSet([i \in 1..Len(data) |-> data[i][2]])
        f == Joined(Frames(ls))
        type == IF f.type \notin {"", "untyped"} THEN f.type
                ELSE IF f.part # "whole" \/ wire # "responses" THEN ""
                ELSE LET named == SelectSeq(ls, LAMBDA l : l.kind = "name")
                     IN  IF named = <<>> THEN "" ELSE Last(named).frame.type
        ends == \/ f.finish # ""
                \/ type \in Terminals \union {"message_stop"}
                \/ wire = "chat" /\ \E i \in DOMAIN ls : ls[i] = Done
    IN  [c EXCEPT
            !.pend = <<>>,
            !.got = IF f.says \intersect Contract # {} /\ (f.type = "untyped" => type # "")
                      THEN @ \union from ELSE @,
            !.ends = IF ends THEN @ \union from ELSE @,
            !.errs = IF f.error # "" \/ type \in {"failed", "error"}
                       THEN @ \union from ELSE @,
            !.mixed = @ \/ Cardinality(from) > 1]

\* A newline behind a fragment ends its line and no event.
Receive(c, l, origin) ==
    CASE c.frag # <<>> -> [c EXCEPT !.pend = @ \o c.frag, !.frag = <<>>,
                                    !.torn = @ \union {c.frag[1][2]}]
      [] c.frag = <<>> /\ l = Blank -> Dispatch(c)
      [] OTHER -> [c EXCEPT !.pend = Append(@, <<l, origin>>)]

---------------------------------------------------------------------------
(* streamBody's state.                                                     *)

Body(w, client, rec) ==
    [a |-> SetWire(w), out |-> <<>>, cut |-> <<>>, hold |-> <<>>, holding |-> FALSE,
     aborted |-> FALSE, open |-> FALSE, name |-> "", body |-> <<>>, pending |-> "",
     hasData |-> FALSE, deferred |-> FALSE, ret |-> "", client |-> client, rec |-> rec]

Init ==
    /\ wire \in Wires
    /\ s = Body(wire, Client, [gone |-> FALSE, err |-> ""])
    /\ attempt = 1
    /\ left = [quality |-> QualityRetries, thinking |-> ThinkingRetries]
    /\ lines = 0 /\ event = <<>>
    /\ verbatim = {}
    /\ canceled = FALSE /\ broken = FALSE

EndsWithData(ls) == ls # <<>> /\ IsData(Last(ls))

\* What follows a step of streamBody that may have returned.
Then(t, F(_)) == IF t.ret = "" THEN F(t) ELSE t

\* A failed write is the client leaving; an error it was already told is kept.
clientGone(t) ==
    [t EXCEPT !.rec = [gone |-> TRUE, err |-> IF t.a.err = "" THEN @.err ELSE t.a.err],
              !.ret = "none"]

\* writeCounted of complete lines.
Write(t, ls, origin) ==
    IF ls = <<>> THEN t
    ELSE IF broken THEN clientGone(t)
    ELSE [t EXCEPT !.client = FoldLeft(LAMBDA c, l : Receive(c, l, origin), @, ls),
                   !.open = EndsWithData(ls)]

\* cut is the unterminated line out ends in.
writeOut(t) ==
    IF t.cut # <<>> /\ broken THEN clientGone(t)
    ELSE Then(Write(t, t.out, attempt),
              LAMBDA u : [u EXCEPT !.out = <<>>, !.cut = <<>>,
                                   !.open = @ /\ t.cut = <<>>,
                                   !.client.frag = IF t.cut = <<>> THEN @ ELSE <<<<t.cut[1], attempt>>>>])

\* An unterminated last line stays undispatched whatever follows it.
writeTail(t) == IF broken THEN clientGone(t) ELSE [t EXCEPT !.open = FALSE]

MutantNoBoundary(t) ==
    [Write(t, t.out, attempt) EXCEPT !.out = <<>>, !.hold = <<>>, !.holding = FALSE]
writeRescueBoundary(t) ==
    [Write(t, Append(t.out, Blank), attempt)
        EXCEPT !.out = <<>>, !.hold = <<>>, !.holding = FALSE]

lastLineIsData(t) == IF t.out # <<>> THEN EndsWithData(t.out) ELSE t.open

\* A second data line would join the first one's event.
appendHeld(hold, l) ==
    Append(IF IsData(l) /\ EndsWithData(hold) THEN Append(hold, Blank) ELSE hold, l)

boundaryDrops(t, code) ==
    code # "" /\ t.a.err = "" /\ ~t.rec.gone /\ t.a.chatlike /\ ~t.aborted

\* streamBody returns; the record takes what the analyzer saw.
Finalize(t) ==
    IF t.ret # "" THEN t
    ELSE [t EXCEPT !.ret = "none",
                   !.rec.err = IF t.a.err = "" THEN @ ELSE t.a.err]

Rescue(t, class) == Then(writeRescueBoundary(t), LAMBDA u : [u EXCEPT !.ret = class])

---------------------------------------------------------------------------
(* The end of the turn.                                                    *)

\* The synthetic frames of each wire: an error, then a terminal.
ProtocolError(w) ==
    CASE w = "responses" ->
           <<Data(Event("error", {})), Blank, Data(Event("failed", {})), Blank>>
      [] w = "anthropic" ->
           <<Data(Event("error", {})), Blank, Data(Event("message_stop", {})), Blank>>
      [] OTHER -> <<Data(InBandError("proxy")), Blank, Done, Blank>>

emitDegenerate(t, code) ==
    Write([t EXCEPT !.a = setStreamError(@, code)],
          ProtocolError(IF ResponsesFeed(t.a) THEN "responses" ELSE "chat"), Proxy)

MutantUnclosed(hold) == hold
Closed(hold) == IF hold = <<>> \/ Last(hold) = Blank THEN hold ELSE Append(hold, Blank)

\* What was held is released as a complete event, or its loss recorded.
Release(t, code) ==
    LET foreign == code # "" /\ t.a.err = "" /\ ~t.aborted
        Rest(u) == [u EXCEPT !.hold = <<>>, !.holding = FALSE]
        Part(u) == Write(u, IF code = "" /\ u.open /\ ~u.aborted THEN <<Blank>> ELSE <<>>,
                         attempt)
    IN  Then(IF foreign THEN [t EXCEPT !.rec.err = code]
             ELSE Write(t, IF t.aborted THEN t.hold ELSE Closed(t.hold), attempt),
             LAMBDA u : Part(Rest(u)))

finishHold(t) ==
    LET code == OutcomeCode(t.a)
        stop == /\ code = "reasoning_only" /\ t.a.err = "" /\ ~t.rec.gone
                /\ t.a.chatlike /\ t.holding
                /\ left.thinking > 0 /\ RetryableReasoningStop(t.a)
    IN  IF canceled THEN clientGone(t)
        ELSE IF stop THEN Rescue(t, "reasoningStop")
        ELSE IF boundaryDrops(t, code)
               THEN Then(writeRescueBoundary(t), LAMBDA u : emitDegenerate(u, code))
        ELSE Then(writeOut(t), LAMBDA u : Release(u, code))

\* A buffered terminal-named event is complete: its document decides whether the
\* name is kept, and whether the turn ends with it.  frag is the unterminated last
\* line of an event the body ended in.
HeldEvent(t, all, f, r) ==
    [t EXCEPT !.a = FeedEvent(@, r.type, f),
              !.name = "", !.body = <<>>, !.holding = TRUE,
              !.hold = @ \o (IF r.keep THEN <<Name(t.name)>> ELSE <<>>) \o all]

PlainEvent(t, all, f, frag) ==
    [t EXCEPT !.a = IF Frames(all) = <<>> THEN @ ELSE FeedEvent(@, "", f),
              !.name = "", !.body = <<>>, !.out = @ \o t.body, !.cut = frag]

ResolvedEvent(t, all, f, r, frag) ==
    IF r.type = "" THEN PlainEvent(t, all, f, frag)
    ELSE Then(writeOut(HeldEvent(t, all, f, r)), LAMBDA u : Finalize(finishHold(u)))

BufferedEvent(t, all, f, frag) ==
    ResolvedEvent(t, all, f, ResolveResponsesTerminal(t.name, f), frag)

processEventBuffer(t, frag) ==
    BufferedEvent(t, t.body \o frag, Joined(Frames(t.body \o frag)), frag)

\* Past the bound the event is relayed as it is, and nothing may be replaced any more.
abandonEventBuffer(t) ==
    LET raw == <<Name(t.name)>> \o t.body
    IN  [t EXCEPT !.out = @ \o raw, !.pending = t.name, !.hasData = TRUE,
                  !.a = FeedBufferedEvent(@, raw), !.name = "", !.body = <<>>,
                  !.aborted = TRUE]

---------------------------------------------------------------------------
(* One line.                                                               *)

\* An event of the Responses wire carries one document, on one line once the hold is
\* open: appendHeld starts a new event before a second data line and would cut it.
Follows(l) ==
    wire = "responses" /\ IsData(l) =>
        /\ event # <<>> => Joined(Append(event, l.frame)) # Nothing
        /\ s.holding => l.frame.part # "head"

TerminalName(l) == l.kind = "name" /\ responsesTerminalEvent(l.frame.type)
IsMarker(t, l) == TerminalLine(l) /\ (DoneTerminates(t.a) \/ l # Done)
EndsTurn(t, l) == l = Done /\ DoneTerminates(t.a)

\* A line of an event that opened with a terminal name.
Buffered(t, l) ==
    LET u == [t EXCEPT !.body = Append(@, l)]
    IN  IF 2 + Len(t.body) > HoldMax THEN abandonEventBuffer(u)
        ELSE IF l # Blank THEN u
        ELSE Then(processEventBuffer(u, <<>>),
                  LAMBDA v : writeOut([v EXCEPT !.hasData = FALSE]))

\* [DONE] ends the turn, and its event with it.
HoldLine(t, hold, l) ==
    [t EXCEPT !.holding = TRUE, !.deferred = @ \/ IsMarker(t, l),
              !.hold = appendHeld(hold, l) \o (IF EndsTurn(t, l) THEN <<Blank>> ELSE <<>>)]

Held(t, prev, l) ==
    LET newly == ~prev /\ t.a.term
        ends == EndsTurn(t, l)
                  \/ (l = Blank /\ (t.deferred \/ newly \/ t.a.err # ""))
    IN  IF ends THEN Finalize(finishHold(HoldLine(t, t.hold, l)))
        ELSE HoldLine(t, t.hold, l)

\* The line that opens the terminal region.
Opens(t, l) ==
    Then(writeOut(HoldLine(t, IF lastLineIsData(t) THEN Append(t.hold, Blank) ELSE t.hold, l)),
         LAMBDA u : IF EndsTurn(t, l) THEN Finalize(finishHold(u)) ELSE u)

\* An availability error that is still unwritten is dropped and the request re-sent.
Rescuable(t) ==
    /\ RetryableUpstreamError(t.a) /\ t.a.err = "server"
    /\ ~t.rec.gone /\ ~canceled
    /\ IF t.a.reasoning THEN left.thinking > 0 ELSE left.quality > 0

Passed(t, l) ==
    IF Rescuable(t) THEN Then(writeOut(t), LAMBDA u : Rescue(u, "upstreamError"))
    ELSE [t EXCEPT !.a.rescuable = FALSE, !.out = Append(@, l)]

Fed(t, l, named) ==
    [t EXCEPT !.a = IF l = Blank /\ named # "" THEN FlushEventWithName(@, named)
                    ELSE Feed(@, l),
              !.pending = IF l = Blank THEN "" ELSE named,
              !.hasData = l # Blank /\ (@ \/ IsData(l))]

\* was: the analyzer before the line.
Relayed(t, was, l) ==
    LET opens == ~was.term /\ (t.a.term \/ (l = Done /\ ResponsesFeed(was)))
    IN  CASE t.holding -> Held(t, was.term, l)
          [] ~t.holding /\ l = Blank /\ ~was.term /\ t.a.term ->
               Finalize(writeOut([t EXCEPT !.out = Append(@, l)]))
          [] ~t.holding /\ l # Blank /\ opens -> Opens(t, l)
          [] OTHER -> Passed(t, l)

Unbuffered(t, l) ==
    Relayed(Fed(t, l, IF TerminalName(l) /\ (t.holding \/ t.hasData) THEN l.frame.type
                      ELSE t.pending),
            t.a, l)

ReadLine(l) ==
    /\ s.ret = "" /\ lines < MaxLines
    /\ Follows(l)
    /\ event' = IF l = Blank \/ wire # "responses" THEN <<>> ELSE event \o Frames(<<l>>)
    /\ lines' = lines + 1
    /\ s' = CASE s.name # "" -> Buffered(s, l)
              [] s.name = "" /\ TerminalName(l) /\ ~s.holding /\ ~s.hasData ->
                   [s EXCEPT !.name = l.frame.type]
              [] OTHER -> Unbuffered(s, l)
    /\ UNCHANGED <<wire, attempt, left, verbatim, canceled, broken>>

\* The end of a read: a hold past its bound is given up, and out is written.
ChunkEnd(t) ==
    IF t.holding /\ Len(t.hold) > HoldMax
      THEN Then(Write(t, t.hold, attempt), LAMBDA u :
                  writeOut([u EXCEPT !.hold = <<>>, !.holding = FALSE, !.aborted = TRUE]))
      ELSE writeOut(t)

ReadEnds ==
    /\ s.ret = "" /\ s' = ChunkEnd(s) /\ s' # s
    /\ UNCHANGED <<wire, attempt, left, lines, event, verbatim, canceled, broken>>

---------------------------------------------------------------------------
(* The end of the body, with the line it broke off in.                     *)

releaseTail(t, tail) ==
    LET l == tail[1]
        Parted(u) == IF IsData(l) /\ lastLineIsData(u)
                       THEN [u EXCEPT !.out = Append(@, Blank)] ELSE u
        Start(u) == IF u.hold # <<>> THEN Closed(u.hold)
                    ELSE IF lastLineIsData(u) THEN <<Blank>> ELSE <<>>
        Tailed(u) == IF u.holding THEN [u EXCEPT !.hold = Start(u) \o <<l, Blank>>]
                     ELSE Then(writeOut(Parted(u)), writeTail)
    IN  IF tail = <<>> THEN t ELSE Tailed([t EXCEPT !.a = Feed(@, l)])

\* An event the body ended in is resolved, and a reassembled one classified.
Flushed(t, tail) ==
    LET Pending(u) ==
            IF u.pending = "" THEN u
            ELSE [u EXCEPT !.a = FlushEventWithName(@, u.pending), !.pending = ""]
        Unheld(u) == IF u.holding THEN u ELSE [u EXCEPT !.a = FlushEventWithName(@, "")]
    IN  Then(Then(IF t.name = "" THEN t ELSE processEventBuffer(t, tail), writeOut),
             LAMBDA u : Unheld(Pending(u)))

\* The transport failed: what is held goes out as it is, unless the client has only
\* reasoning and the failure is the upstream's.
ReadFailed(t, tail, deadline) ==
    LET tells == tail # <<>> /\ TailTerminates(t.a, tail[1])
        err == IF canceled THEN [t.rec EXCEPT !.gone = TRUE]
               ELSE [t.rec EXCEPT !.err = "stream_read"]
        AsItIs(u) == IF u.holding THEN Write(u, u.hold, attempt) ELSE u
    IN  IF left.thinking > 0 /\ ~canceled /\ ~tells /\ ~deadline
             /\ RetryableReasoningTruncation(t.a) /\ ~t.rec.gone
          THEN Rescue(t, "reasoningTruncation")
        ELSE Then(releaseTail([t EXCEPT !.rec = err, !.holding = @ \/ tells], tail),
                  LAMBDA u : Finalize(Then(AsItIs(u), writeOut)))

CleanEOF(t, tail) ==
    LET tells == tail # <<>> /\ TailTerminates(t.a, tail[1])
        free == ~tells /\ ~canceled /\ ~t.aborted /\ ~t.rec.gone
        dropped == OutcomeCode(t.a) = "truncated" /\ boundaryDrops(t, "truncated")
        shown == IF dropped /\ ~tells THEN <<>> ELSE tail
    IN  CASE free /\ left.quality > 0 /\ RetryableTruncation(t.a) ->
               Rescue(t, "emptyTruncation")
          [] free /\ left.thinking > 0 /\ RetryableReasoningTruncation(t.a)
               /\ ~(left.quality > 0 /\ RetryableTruncation(t.a)) ->
               Rescue(t, "reasoningTruncation")
          [] OTHER -> Then(releaseTail([t EXCEPT !.holding = @ \/ tells], shown),
                           LAMBDA u : Finalize(finishHold(u)))

\* deadline: the per-send deadline failed the read.
BodyEnds(how, tail) ==
    /\ s.ret = "" /\ \A i \in DOMAIN tail : Follows(tail[i])
    /\ LET rest == IF s.name = "" THEN tail ELSE <<>>
           Ends(t) == IF how = "eof" THEN CleanEOF(t, rest)
                      ELSE ReadFailed(t, rest, how = "deadline")
       IN  s' = Then(Then(ChunkEnd(s), LAMBDA t : Flushed(t, tail)), Ends)
    /\ UNCHANGED <<wire, attempt, left, lines, event, verbatim, canceled, broken>>

---------------------------------------------------------------------------
(* Sending the request again (streamBodyWithRetry).                        *)

Rescues == {"emptyTruncation", "reasoningTruncation", "reasoningStop", "upstreamError"}

\* Reasoning already relayed puts the attempt on the thinking budget.
BudgetOf(t) ==
    IF t.ret = "emptyTruncation" \/ (t.ret = "upstreamError" /\ ~t.a.reasoning)
      THEN "quality" ELSE "thinking"

\* The status line is committed: only another event stream may continue the socket,
\* any other answer is told in band.
Told(t) ==
    LET u == Write([t EXCEPT !.rec.err = "resend"], ProtocolError(wire), Proxy)
    IN  [u EXCEPT !.ret = "none", !.rec.err = "resend"]

Resend(answer) ==
    /\ s.ret \in Rescues
    /\ left' = [left EXCEPT ![BudgetOf(s)] = @ - 1]
    /\ answer = "gone" <=> canceled
    /\ verbatim' = IF s.aborted THEN verbatim \union {attempt} ELSE verbatim
    /\ IF answer = "stream"
         THEN /\ s' = Body(wire, s.client, s.rec)
              /\ attempt' = attempt + 1
              /\ lines' = 0 /\ event' = <<>>
         ELSE /\ s' = IF answer = "gone"
                        THEN [s EXCEPT !.ret = "none", !.rec.gone = TRUE] ELSE Told(s)
              /\ UNCHANGED <<attempt, lines, event>>
    /\ UNCHANGED <<wire, canceled, broken>>

\* The client leaves: its context is canceled and its socket breaks, in either order.
Leave ==
    /\ s.ret # "none"
    /\ \/ ~canceled /\ canceled' = TRUE /\ UNCHANGED broken
       \/ ~broken /\ broken' = TRUE /\ UNCHANGED canceled
    /\ UNCHANGED <<wire, s, attempt, left, lines, event, verbatim>>

Over == s.ret = "none" /\ UNCHANGED vars

Next ==
    \/ \E l \in Lines[wire] : ReadLine(l)
    \/ ReadEnds
    \/ \E how \in {"eof", "error", "deadline"} :
         \E tail \in {<<>>} \union {<<l>> : l \in Tails[wire]} : BodyEnds(how, tail)
    \/ \E answer \in {"stream", "told", "gone"} : Resend(answer)
    \/ Leave
    \/ Over

Spec == Init /\ [][Next]_vars

---------------------------------------------------------------------------
(* Properties.                                                             *)

\* However many attempts were relayed behind one another, the client has one turn:
\* no event joins lines of two attempts, everything that counts as an answer comes
\* from the last attempt, and nothing ends the turn before it.  An attempt re-sent
\* after it gave up its hold is the exception CommittedNeverResent is about; an
\* attempt torn in the middle of a buffered event's line is another: the boundary's
\* one newline ends that line, and the next attempt's lines join its event.
OneTurn ==
    /\ s.client.mixed => s.client.torn # {}
    /\ s.client.got \ verbatim \subseteq {attempt}
    /\ s.ret \in Rescues /\ ~s.aborted => s.client.got \union s.client.ends \subseteq verbatim
    /\ Cardinality(s.client.ends \ verbatim) <= 1

\* The body broke off after a name that followed its event's data: the relay looks at
\* the last line only, finds no data line to close, and the event stays undispatched,
\* although finishHold is to close the event of a healthy turn at EOF.
LateName(c) ==
    c.pend # <<>> /\ ~IsData(Last(c.pend)[1]) /\ attempt \in Dispatch(c).ends

\* A stream booked as a success is one the client can read as a success (one relayed
\* verbatim past the hold's bound is whatever the provider made it, and one behind a
\* torn attempt may have joined it), and a failure of the proxy's making is told once
\* and never on top of an ended turn.
BookedAsRead ==
    /\ s.ret = "none" /\ ~s.rec.gone /\ s.rec.err = "" =>
         /\ s.client.errs \subseteq verbatim
         /\ s.a.chatlike /\ ~s.aborted /\ s.client.torn = {} => attempt \in s.client.ends \/ LateName(s.client)
    /\ Proxy \in s.client.errs => s.client.errs \ verbatim = {Proxy} /\ s.rec.err # ""
    /\ left.quality >= 0 /\ left.thinking >= 0

\* relay_stream.go says of the re-send at the end of the body: "A committed verbatim
\* relay (holdAborted) must never be re-sent: the client already saw the oversized
\* bytes."
CommittedNeverResent == s.ret \in Rescues => ~s.aborted
=============================================================================
