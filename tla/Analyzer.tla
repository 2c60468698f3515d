------------------------------ MODULE Analyzer ------------------------------
(***************************************************************************)
(* What the proxy learns from a stream while it relays it                  *)
(* (internal/sse: analyzer*.go, frames.go, keys.go; internal/metrics:      *)
(* outcome.go).  The analyzer is fed every line in order and tells the     *)
(* relay when the terminal region opens, how the stream ended, and whether *)
(* the same request may still be sent again behind what the client has.    *)
(*                                                                         *)
(* A frame is one JSON document reduced to what the key probe finds in it; *)
(* a document printed over two data lines is a head and a tail, which say  *)
(* nothing until they are joined.  Times, usage, cost and previews are     *)
(* left out.                                                               *)
(***************************************************************************)
EXTENDS Naturals, Sequences, SequencesExt

\* What a document carries: answer text, a refusal or an old function call,
\* reasoning, a summary part's reasoning (which the flat probe does not see), a
\* tool call, another output item.
Frame(part, choices, says, finish, error, type) ==
    [part |-> part, choices |-> choices, says |-> says, finish |-> finish,
     error |-> error, type |-> type]
Nothing == Frame("none", FALSE, {}, "", "", "")

Line(kind, f) == [kind |-> kind, frame |-> f]
Blank == Line("blank", Nothing)
Field == Line("field", Nothing)         \* event:, id:, retry: or a comment
Done == Line("done", Nothing)           \* data: [DONE]
Name(type) == Line("name", Frame("none", FALSE, {}, "", "", type))
Data(f) == Line("data", f)
IsData(l) == l.kind \in {"data", "done"}

\* The documents of the wires.
Chat(says, finish) == Frame("whole", TRUE, says, finish, "", "")
InBandError(class) == Frame("whole", FALSE, {}, "", class, "")
Event(type, says) == Frame("whole", FALSE, says, "", "", type)
Untyped(says) == Frame("whole", FALSE, says, "", "", "untyped")
HeadOf(f) == [f EXCEPT !.part = "head"]
TailOf(f) == [f EXCEPT !.part = "tail"]

Terminals == {"completed", "failed", "incomplete", "cancelled"}
responsesTerminalEvent(type) == type \in Terminals
IsResponse(type) == type = "response" \/ type \in Terminals
AnthropicTypes == {"message_start", "block", "message_delta", "message_stop", "error", "ping"}

\* EventData: the data lines of one event joined.
Joined(fs) ==
    CASE Len(fs) = 1 /\ fs[1].part = "whole" -> fs[1]
      [] Len(fs) = 2 /\ fs[1].part = "head" /\ fs[2] = TailOf(fs[1]) ->
           [fs[1] EXCEPT !.part = "whole"]
      [] OTHER -> Nothing

\* responseEventType: only a whole document has one.
TypeOf(f) == IF f.part = "whole" /\ f.type # "untyped" THEN f.type ELSE ""
ResponseType(f) == IF IsResponse(TypeOf(f)) THEN TypeOf(f) ELSE ""

---------------------------------------------------------------------------
(* State.                                                                  *)

Fresh ==
    [term |-> FALSE, chatlike |-> FALSE, anthropic |-> FALSE, rwire |-> FALSE,
     rstream |-> FALSE, token |-> FALSE, answer |-> FALSE, answerish |-> FALSE,
     reasoning |-> FALSE, finalReasoning |-> FALSE, output |-> FALSE, calls |-> FALSE,
     finish |-> "", err |-> "", rescuable |-> FALSE,
     data |-> <<>>, seen |-> FALSE, skip |-> FALSE]

SetWire(wire) ==
    [Fresh EXCEPT !.anthropic = (wire = "anthropic"), !.rwire = (wire = "responses"),
                  !.chatlike = (wire \in {"chat", "responses"})]

DoneTerminates(a) == ~a.anthropic /\ ~a.rwire /\ ~a.rstream
ResponsesFeed(a) == a.rwire \/ a.rstream

\* The first error wins.
setStreamError(a, class) == IF a.err = "" THEN [a EXCEPT !.err = class] ELSE a

---------------------------------------------------------------------------
(* Terminal documents.                                                     *)

\* captureResponsesTerminalFinish: the document may be the only place the turn's
\* output appears.
Finish(a, type) ==
    CASE a.finish # "" -> a.finish
      [] type = "failed" -> "error"
      [] type = "cancelled" -> "cancelled"
      [] type = "incomplete" -> "length"
      [] OTHER -> IF a.calls THEN "tool_calls" ELSE "stop"

captureTerminalEvent(a, type, f) ==
    LET b == IF type = "failed" THEN setStreamError(a, "upstream") ELSE a
        c == [b EXCEPT
                !.term = TRUE, !.rstream = TRUE,
                !.calls = @ \/ "call" \in f.says,
                !.answerish = @ \/ f.says \intersect {"answer", "refusal"} # {},
                !.answer = @ \/ "answer" \in f.says,
                !.token = @ \/ f.says \intersect {"answer", "call", "reasoning"} # {},
                !.reasoning = @ \/ "reasoning" \in f.says,
                !.finalReasoning = @ \/ "reasoning" \in f.says,
                !.output = @ \/ "output" \in f.says]
    IN  [c EXCEPT !.finish = Finish(c, type)]

\* An error event itself is the provider's last word, with an error object in it
\* or without one (recordStandaloneError).
recordStandaloneError(a, f) ==
    [setStreamError(a, IF f.error = "" THEN "fatal" ELSE f.error) EXCEPT !.term = TRUE]

---------------------------------------------------------------------------
(* Feeding.                                                                *)

recordPresence(a, says) ==
    [a EXCEPT
        !.token = @ \/ says \intersect {"answer", "reasoning", "summary", "call"} # {},
        !.answer = @ \/ "answer" \in says,
        !.reasoning = @ \/ says \intersect {"reasoning", "summary"} # {},
        !.calls = @ \/ "call" \in says,
        !.output = @ \/ "output" \in says,
        !.answerish = @ \/ "refusal" \in says]

\* A stop reason ends the turn; "error" is the provider's failure statement.
stopReason(a, f) ==
    IF f.finish = "" THEN a
    ELSE [IF f.finish = "error" THEN setStreamError(a, "upstream") ELSE a
             EXCEPT !.finish = f.finish, !.term = TRUE]

feedAnthropic(a, f) ==
    CASE f.type = "message_start" -> [a EXCEPT !.anthropic = TRUE]
      [] f.type = "block" -> recordPresence(a, f.says)
      [] f.type = "message_delta" -> stopReason(a, f)
      [] f.type = "message_stop" -> [a EXCEPT !.term = TRUE]
      [] f.type = "error" -> recordStandaloneError(a, f)
      [] OTHER -> a

\* A first data line that is a whole object needs no joining, unless it may be a
\* terminal document whose name follows it.
Skips(a, f) ==
    IF a.seen THEN a.skip
    ELSE f.part = "whole" /\ ~(TypeOf(f) = "" /\ (a.rstream \/ f.type = "untyped"))

\* The lines of an event are kept until they can be read together.
Accumulated(a, f) ==
    [a EXCEPT !.seen = TRUE, !.skip = Skips(a, f),
              !.data = IF Skips(a, f) THEN @ ELSE Append(@, f)]

\* The document's own type, or the one its event line supplies.
EventType(f, forced) == IF ResponseType(f) # "" THEN ResponseType(f) ELSE forced

\* What a terminal document says is counted when it is captured.
Observed(a, f, type) ==
    IF responsesTerminalEvent(type) \/ f.type = "untyped" THEN a
    ELSE recordPresence(a, f.says)

Shaped(a, f, type) ==
    [a EXCEPT !.finish = IF f.finish = "" THEN @ ELSE f.finish,
              !.term = @ \/ f.finish # "",
              !.chatlike = @ \/ f.choices \/ IsResponse(type),
              !.rstream = @ \/ IsResponse(type)]

Captured(a, f, type) ==
    IF responsesTerminalEvent(type) THEN captureTerminalEvent(a, type, f) ELSE a

\* A single-line error on its event's first data line may still be dropped by the
\* relay.
Faulted(a, f, first) ==
    IF f.error # "" /\ a.err = ""
      THEN [a EXCEPT !.err = f.error, !.rescuable = @ \/ first] ELSE a

readDocument(a, f, type, first) ==
    Faulted(Captured(Shaped(Observed(a, f, type), f, type), f, type), f, first)

feedData(a, f, forced) ==
    IF f.part # "whole" THEN Accumulated(a, f)
    ELSE readDocument(Accumulated(a, f), f, EventType(f, forced), ~a.seen)

\* The event boundary: what its lines say together.
boundaryError(a, f) == IF f.error # "" THEN setStreamError(a, f.error) ELSE a
boundaryTerminal(a, f) == IF a.term THEN a ELSE Captured(a, f, TypeOf(f))
boundaryStandalone(a, f) == IF TypeOf(f) = "error" THEN recordStandaloneError(a, f) ELSE a

\* A summary part printed over several lines counts like its one-line twin.
boundarySummary(a, f) ==
    IF Len(a.data) > 1 /\ ResponseType(f) = "response" THEN recordPresence(a, f.says \intersect {"summary"}) ELSE a

flushDocument(a, f) ==
    [boundarySummary(boundaryStandalone(boundaryTerminal(boundaryError(a, f), f), f), f)
        EXCEPT !.data = <<>>, !.seen = FALSE, !.skip = FALSE]

flushEvent(a) == flushDocument(a, Joined(a.data))

Feed(a, l) ==
    CASE l.kind = "blank" -> flushEvent(a)
      [] l.kind = "done" -> [a EXCEPT !.term = @ \/ DoneTerminates(a)]
      [] l.kind = "data" /\ TypeOf(l.frame) \in AnthropicTypes -> feedAnthropic(a, l.frame)
      [] l.kind = "data" /\ TypeOf(l.frame) \notin AnthropicTypes ->
           feedData(a, l.frame, "")
      [] OTHER -> a

\* The document's type decides; a terminal name only where the document has none.
ResolveResponsesTerminal(name, f) ==
    CASE ResponseType(f) # "" ->
           [type |-> IF responsesTerminalEvent(ResponseType(f)) THEN ResponseType(f) ELSE "",
            keep |-> ResponseType(f) = name]
      [] f.part = "whole" /\ f.type \in {"", "untyped"} /\ responsesTerminalEvent(name) ->
           [type |-> name, keep |-> TRUE]
      [] OTHER -> [type |-> "", keep |-> FALSE]

\* An event the relay buffered as a unit; its data may have been fed by line.
FeedEvent(a, type, f) ==
    LET fed == (responsesTerminalEvent(type) /\ a.term) \/ (a.data # <<>> /\ Joined(a.data) = f)
    IN  CASE fed -> flushEvent(a)
          [] ~fed /\ TypeOf(f) \in AnthropicTypes -> flushEvent(feedAnthropic(a, f))
          [] OTHER -> flushEvent(feedData(a, f, type))

\* An event released before its boundary: its lines are classified, and kept.
FeedBufferedEvent(a, lines) ==
    LET data == SelectSeq(lines, LAMBDA l : l.kind = "data")
        kept == [a EXCEPT !.data = [i \in 1..Len(data) |-> data[i].frame],
                          !.seen = TRUE, !.skip = TRUE]
        text == SelectSeq(lines, LAMBDA l : l.kind # "blank")
    IN  [FoldLeft(Feed, kept, text) EXCEPT !.seen = TRUE, !.skip = FALSE]

captureNamed(a, name, f) == Captured(a, f, ResolveResponsesTerminal(name, f).type)

FlushEventWithName(a, name) ==
    flushEvent(IF a.data = <<>> \/ a.term THEN a ELSE captureNamed(a, name, Joined(a.data)))

\* Does an unterminated last line end the turn?  It is not fed.
TailTerminates(a, l) ==
    CASE l.kind = "done" -> DoneTerminates(a)
      [] l.kind = "data" /\ l.frame.part = "whole" ->
           (l.frame.finish # "" /\ TypeOf(l.frame) \notin AnthropicTypes)
             \/ responsesTerminalEvent(TypeOf(l.frame))
      [] OTHER -> FALSE

TerminalLine(l) ==
    l.kind = "done" \/ responsesTerminalEvent(TypeOf(l.frame))
      \/ TypeOf(l.frame) = "message_stop"

---------------------------------------------------------------------------
(* Reports.                                                                *)

ClassifyOutcome(a) ==
    CASE ~a.chatlike -> ""
      [] a.chatlike /\ ~a.term -> "truncated"
      [] a.chatlike /\ a.term /\ (a.answer \/ a.answerish \/ a.output \/ a.calls) -> ""
      [] OTHER ->
           CASE a.finish = "tool_calls" -> "empty_tool_call"
             [] a.finish \in {"stop", ""} ->
                  IF a.reasoning \/ a.finalReasoning THEN "reasoning_only"
                  ELSE "empty_completion"
             [] a.finish = "aborted" /\ (a.reasoning \/ a.finalReasoning) -> "reasoning_only"
             [] OTHER -> ""

OutcomeCode(a) ==
    IF a.anthropic THEN (IF a.term THEN "" ELSE "truncated") ELSE ClassifyOutcome(a)

\* The two truncations flush the event the body ended in: the relay has by then.
RetryableTruncation(a) ==
    /\ a.chatlike /\ ~a.term /\ ~a.answerish /\ ~a.rstream
    /\ ~flushEvent(a).token /\ flushEvent(a).err = ""

RetryableReasoningTruncation(a) ==
    /\ a.chatlike /\ ~a.term /\ ~a.rstream /\ ~a.answerish /\ ~a.calls
    /\ a.reasoning /\ ~a.answer /\ flushEvent(a).err = ""

RetryableReasoningStop(a) ==
    a.chatlike /\ a.term /\ a.err = "" /\ ~a.rstream /\ ~a.answerish /\ ~a.calls

\* One-shot: the caller clears the mark whatever it decides.
RetryableUpstreamError(a) ==
    /\ a.rescuable /\ ~a.term /\ ~a.rstream /\ ~a.answerish /\ ~a.calls /\ ~a.answer
    /\ a.reasoning => a.chatlike
=============================================================================
