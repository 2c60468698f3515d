--------------------------- MODULE StreamEncoders ---------------------------
(***************************************************************************)
(* The three stream encoders of internal/format: a canonical event in, the *)
(* frames of the client's protocol out, and the client that reads them.    *)
(*                                                                         *)
(* A canonical event is a record; a text, a reasoning or an argument value *)
(* is the sequence of its tokens.  An encoder is a record whose field out  *)
(* is what the last call wrote and whose field err says that it failed.    *)
(*                                                                         *)
(* Left out: identities, models, tiers, citations, signatures and the      *)
(* usage numbers (usage is only whether it was reported).                  *)
(***************************************************************************)
EXTENDS Integers, FiniteSets, Sequences, SequencesExt, Functions

CONSTANTS IncludeUsage,  \* the client asked for a usage chunk
          Refused,       \* call ids Chat and Anthropic do not accept
          RetainMax      \* ResponsesStreamRetainedMaxBytes, in tokens and items

(***************************************************************************)
(* Canonical events.                                                       *)
(***************************************************************************)

EmptyObject == <<"{", "}">>

\* A block: its type, the payload its start carries, and for a tool call
\* whether the target protocol accepts its identity.
Block(type, value) == [type |-> type, value |-> value, accepted |-> TRUE]
CallBlock(value, id) == [type |-> "tool", value |-> value, accepted |-> id \notin Refused]

Start == [type |-> "start"]
BlockStart(i, b) == [type |-> "block_start", index |-> i, block |-> b]
BlockDelta(i, k, v) == [type |-> "block_delta", index |-> i, kind |-> k, value |-> v]
BlockEnd(i) == [type |-> "block_end", index |-> i]
MessageDelta(finish, usage) == [type |-> "message_delta", finish |-> finish, usage |-> usage]
Done == [type |-> "done"]
Error == [type |-> "error"]

\* What the finish reason says of the turn.
Clean(finish) == finish \in {"stop", "tool_calls"}

(***************************************************************************)
(* Every encoder's state.  types, args and sent are kept per open block;   *)
(* items, order, pending and retained only by the Responses encoder.       *)
(***************************************************************************)

NoMap == [i \in {} |-> <<>>]
NoItem == -1
Encoder(target) ==
    [target |-> target, started |-> FALSE, doneSent |-> FALSE, finish |-> "", finishSent |-> FALSE,
     usage |-> FALSE, usageSent |-> FALSE, types |-> NoMap, args |-> NoMap, sent |-> {}, open |-> {},
     unopened |-> {}, tools |-> NoMap, nextTool |-> 0, items |-> NoMap, order |-> <<>>, pending |-> NoItem,
     failed |-> FALSE, retained |-> 0, out |-> <<>>, err |-> FALSE]

ChatEncoder == Encoder("chat")
MessagesEncoder == Encoder("anthropic")
ResponsesEncoder == Encoder("responses")

Emit(e, frame) == IF e.err THEN e ELSE [e EXCEPT !.out = Append(@, frame)]
EmitAll(e, frames) == FoldLeft(Emit, e, frames)
Fail(e) == [e EXCEPT !.err = TRUE]
Put(f, i, v) == [j \in DOMAIN f \cup {i} |-> IF j = i THEN v ELSE f[j]]
Drop(f, i) == RestrictDomain(f, LAMBDA j : j # i)

(***************************************************************************)
(* Frames.                                                                 *)
(***************************************************************************)

Opening == [f |-> "start"]
Opens(i, kind) == [f |-> "open", i |-> i, kind |-> kind]
Part(i) == [f |-> "part", i |-> i]
PartDone(i) == [f |-> "part_done", i |-> i]
Delta(i, kind, v) == [f |-> "delta", i |-> i, kind |-> kind, value |-> v]
Closes(i, v) == [f |-> "close", i |-> i, value |-> v]
Aborts(i) == [f |-> "abort", i |-> i]
Finish(r) == [f |-> "finish", reason |-> r]
Usage == [f |-> "usage"]
Failure == [f |-> "error"]
Terminal(status, output) == [f |-> "terminal", status |-> status, output |-> output]

(***************************************************************************)
(* Chat Completions.                                                       *)
(***************************************************************************)

ChatStart(e) == IF e.started THEN e ELSE Emit([e EXCEPT !.started = TRUE], Opening)

\* releaseBlock.
releaseBlock(e, i) ==
    [e EXCEPT !.tools = Drop(@, i), !.types = Drop(@, i), !.args = Drop(@, i), !.sent = @ \ {i}]

\* emitUsage: once, and only for a client that asked.
emitUsage(e) ==
    IF IncludeUsage /\ e.usage /\ ~e.usageSent THEN Emit([e EXCEPT !.usageSent = TRUE], Usage) ELSE e

\* done writes the sentinel once.
ChatDone(e) == IF e.doneSent THEN e ELSE Emit([e EXCEPT !.doneSent = TRUE], Terminal("", <<>>))

ChatBlockStart(e, i, b) ==
    IF b.type = "tool" /\ ~b.accepted THEN Fail(e)
    ELSE LET s == [ChatStart(e) EXCEPT !.types = Put(@, i, b.type)] IN
         IF b.type = "tool"
         THEN Emit([s EXCEPT !.tools = Put(@, i, s.nextTool), !.nextTool = @ + 1,
                             !.args = IF b.value \in {<<>>, EmptyObject} THEN @ ELSE Put(@, i, b.value)],
                   Opens(s.nextTool, "tool"))
         ELSE IF b.value # <<>> /\ b.type \in {"text", "refusal", "reasoning"}
              THEN Emit(s, Delta(NoItem, b.type, b.value)) ELSE s

ChatBlockDelta(e, i, kind, v) ==
    LET s == ChatStart(e) IN
    CASE v = <<>> -> s
      [] kind = "text" -> Emit(s, Delta(NoItem, IF i \in DOMAIN s.types /\ s.types[i] = "refusal" THEN "refusal" ELSE "text", v))
      [] kind = "reasoning" -> Emit(s, Delta(NoItem, "reasoning", v))
      [] kind = "args" /\ i \in DOMAIN s.tools -> Emit([s EXCEPT !.sent = @ \cup {i}], Delta(s.tools[i], "args", v))
      [] OTHER -> s

\* A call that streamed no arguments gets its whole value when it ends.
ChatBlockEnd(e, i) ==
    IF i \in DOMAIN e.tools /\ i \notin e.sent
    THEN Emit(releaseBlock(e, i), Delta(e.tools[i], "args", IF i \in DOMAIN e.args THEN e.args[i] ELSE EmptyObject))
    ELSE releaseBlock(e, i)

ChatMessageDelta(e, ev) ==
    LET s == ChatStart(e)
        f == IF ev.finish # "" /\ ~s.finishSent THEN Emit([s EXCEPT !.finishSent = TRUE], Finish(ev.finish)) ELSE s
        u == IF ev.usage THEN [f EXCEPT !.usage = TRUE] ELSE f
    IN IF ev.usage /\ u.finishSent THEN emitUsage(u) ELSE u

ChatWrite(e, ev) ==
    CASE ev.type = "start" -> ChatStart(e)
      [] ev.type = "block_start" -> ChatBlockStart(e, ev.index, ev.block)
      [] ev.type = "block_delta" -> ChatBlockDelta(e, ev.index, ev.kind, ev.value)
      [] ev.type = "block_end" -> ChatBlockEnd(e, ev.index)
      [] ev.type = "message_delta" -> ChatMessageDelta(e, ev)
      [] ev.type = "done" -> ChatDone(emitUsage(e))
      [] ev.type = "error" -> ChatDone(Emit(e, Failure))

(***************************************************************************)
(* Anthropic Messages.                                                     *)
(***************************************************************************)

MessagesStart(e) == IF e.started THEN e ELSE Emit([e EXCEPT !.started = TRUE], Opening)

\* finish writes message_stop once.
MessagesFinish(e) ==
    IF e.doneSent THEN e ELSE Emit([MessagesStart(e) EXCEPT !.doneSent = TRUE], Terminal("", <<>>))

\* A refusal has no block of its own here: it opens a text block.
MessagesKind(type) == IF type = "refusal" THEN "text" ELSE type

\* A redacted block carries its payload in its start and skips its deltas;
\* a type without a shape opens nothing.
MessagesBlockStart(e, i, b) ==
    LET s == [e EXCEPT !.types = Put(@, i, b.type)] IN
    CASE b.type = "other" -> [s EXCEPT !.unopened = @ \cup {i}]
      [] b.type = "tool" ->
           IF ~b.accepted THEN Fail(s)
           ELSE Emit([s EXCEPT !.open = @ \cup {i},
                               !.args = IF b.value \in {<<>>, EmptyObject} THEN @ ELSE Put(@, i, b.value)],
                     Opens(i, "tool"))
      [] b.type = "redacted" -> Emit([s EXCEPT !.open = @ \cup {i}], Opens(i, "redacted"))
      [] OTHER ->
           LET o == Emit([s EXCEPT !.open = @ \cup {i}], Opens(i, MessagesKind(b.type)))
           IN IF b.value # <<>> THEN Emit(o, Delta(i, MessagesKind(b.type), b.value)) ELSE o

MessagesBlockDelta(e, i, kind, v) ==
    IF v = <<>> \/ (i \in DOMAIN e.types /\ e.types[i] = "redacted") THEN e
    ELSE Emit([e EXCEPT !.sent = IF kind = "args" THEN @ \cup {i} ELSE @], Delta(i, kind, v))

MessagesBlockEnd(e, i) ==
    IF i \in e.unopened THEN [e EXCEPT !.unopened = @ \ {i}]
    ELSE LET a == IF i \in DOMAIN e.args /\ i \notin e.sent THEN Emit(e, Delta(i, "args", e.args[i])) ELSE e
         IN Emit([a EXCEPT !.types = Drop(@, i), !.args = Drop(@, i), !.sent = @ \ {i}, !.open = @ \ {i}],
                 Closes(i, <<>>))

\* The finish, the end and the failure of the turn.  An error is the
\* stream's last frame: no message_stop follows it.
MessagesLast(s, ev) ==
    CASE ev.type = "message_delta" ->
           Emit([s EXCEPT !.finishSent = TRUE], Finish(IF ev.finish = "" THEN "stop" ELSE ev.finish))
      [] ev.type = "done" ->
           MessagesFinish(IF s.finishSent THEN s ELSE Emit([s EXCEPT !.finishSent = TRUE], Finish("stop")))
      [] ev.type = "error" -> [Emit(s, Failure) EXCEPT !.doneSent = TRUE]

MessagesWrite(e, ev) ==
    LET s == MessagesStart(e) IN
    CASE ev.type = "start" -> s
      [] ev.type = "block_start" -> MessagesBlockStart(s, ev.index, ev.block)
      [] ev.type = "block_delta" -> MessagesBlockDelta(s, ev.index, ev.kind, ev.value)
      [] ev.type = "block_end" -> MessagesBlockEnd(s, ev.index)
      [] OTHER -> MessagesLast(s, ev)

\* Abort stops every block that is open but a tool's: that one has no
\* validated value.
MessagesAbort(e) ==
    LET stops == SetToSortSeq({i \in e.open : e.types[i] # "tool"}, <)
    IN EmitAll([e EXCEPT !.open = {}, !.err = FALSE], [n \in DOMAIN stops |-> Closes(stops[n], <<>>)])

(***************************************************************************)
(* Responses.                                                              *)
(***************************************************************************)

retain(e, n) == IF e.retained + n > RetainMax THEN Fail(e) ELSE [e EXCEPT !.retained = @ + n]

\* NewResponsesEnvelope is not modelled: the opening pair is one frame.
ResponsesStart(e) == IF e.started THEN e ELSE Emit([e EXCEPT !.started = TRUE], Opening)

\* flushPendingDone: the done frame a closed message held back.
flushPendingDone(e) ==
    IF e.pending = NoItem THEN e
    ELSE Emit([e EXCEPT !.pending = NoItem], Closes(e.items[e.pending].at, e.items[e.pending].value))

\* responsesTerminalStatus.
responsesTerminalStatus(finish) ==
    CASE finish \in {"stop", "tool_calls"} -> "completed"
      [] finish = "cancelled" -> "cancelled"
      [] finish = "error" -> "failed"
      [] OTHER -> "incomplete"

\* A call that carried nothing is written with the empty object.
itemValue(item) == IF item.kind = "tool" /\ item.value = <<>> THEN EmptyObject ELSE item.value

\* outputItems: a failed turn omits a call that is still open.
outputItems(e) ==
    LET kept == SelectSeq(e.order, LAMBDA i : ~(e.failed /\ i \in e.open /\ e.items[i].kind = "tool"))
    IN [n \in DOMAIN kept |-> [i |-> e.items[kept[n]].at, value |-> itemValue(e.items[kept[n]])]]

\* finishResponse.
finishResponse(e) ==
    IF e.doneSent THEN e
    ELSE LET s == flushPendingDone([ResponsesStart(e) EXCEPT !.doneSent = TRUE])
         IN Emit(s, Terminal(IF e.failed THEN "failed" ELSE responsesTerminalStatus(e.finish), outputItems(s)))

\* startItem takes the next output index, once per canonical block.
startItem(e, i, kind) ==
    LET s == flushPendingDone(e) IN
    IF i \in DOMAIN e.items THEN Fail(s)
    ELSE LET r == retain(s, 1) IN
         IF r.err THEN r
         ELSE [r EXCEPT !.items = Put(@, i, [at |-> Len(r.order), kind |-> kind, value |-> <<>>, part |-> FALSE]),
                        !.open = @ \cup {i}, !.order = Append(@, i)]

\* appendText and appendReasoning: a reasoning item opens its summary part
\* with its first text.
appendValue(e, i, v) ==
    IF v = <<>> THEN e
    ELSE LET item == e.items[i]
             p == IF item.kind = "reasoning" /\ ~item.part
                  THEN Emit([e EXCEPT !.items[i].part = TRUE], Part(item.at)) ELSE e
             r == retain(p, Len(v))
         IN IF r.err THEN r
            ELSE Emit([r EXCEPT !.items[i].value = @ \o v],
                      Delta(item.at, IF item.kind = "tool" THEN "args" ELSE item.kind, v))

\* The block kinds a Responses item can take.
ResponsesKind(type) == IF type = "redacted" THEN "reasoning" ELSE type

ResponsesBlockStart(e, i, b) ==
    IF b.type = "other" THEN e
    ELSE LET kind == ResponsesKind(b.type)
             s == startItem(e, i, kind)
         IN IF s.err THEN s
            ELSE CASE b.type \in {"text", "refusal"} ->
                        appendValue([EmitAll(s, <<Opens(s.items[i].at, kind), Part(s.items[i].at)>>)
                                        EXCEPT !.items[i].part = TRUE], i, b.value)
                   [] b.type = "tool" ->
                        LET r == retain(s, 1 + IF b.value \in {<<>>, EmptyObject} THEN 0 ELSE Len(b.value)) IN
                        IF r.err THEN r
                        ELSE Emit([r EXCEPT !.items[i].value = IF b.value = EmptyObject THEN <<>> ELSE b.value],
                                  Opens(s.items[i].at, kind))
                   [] OTHER -> appendValue(Emit(s, Opens(s.items[i].at, kind)), i,
                                           IF b.type = "redacted" THEN <<>> ELSE b.value)

ResponsesBlockDelta(e, i, kind, v) ==
    IF i \notin DOMAIN e.items THEN e
    ELSE LET k == e.items[i].kind IN
         IF \/ kind = "text" /\ k \in {"text", "refusal"}
            \/ kind = "args" /\ k = "tool"
            \/ kind = "reasoning" /\ k = "reasoning"
         THEN appendValue(e, i, v) ELSE e

\* closeItem: a message's done frame waits for the next item or the terminal.
closeItem(e, i) ==
    LET item == e.items[i]
        p == IF item.part THEN Emit([e EXCEPT !.items[i].part = FALSE], PartDone(item.at)) ELSE e
    IN CASE item.kind \in {"text", "refusal"} -> [flushPendingDone(p) EXCEPT !.pending = i]
         [] OTHER -> Emit(p, Closes(item.at, itemValue(item)))

ResponsesBlockEnd(e, i) ==
    IF i \notin DOMAIN e.items THEN e ELSE [closeItem(e, i) EXCEPT !.open = @ \ {i}]

\* The finish, the end and the failure of the turn.
ResponsesEnd(s, ev) ==
    CASE ev.type = "message_delta" -> IF ev.finish = "" THEN s ELSE [s EXCEPT !.finish = ev.finish]
      [] ev.type = "done" -> finishResponse(s)
      [] ev.type = "error" -> finishResponse(Emit([s EXCEPT !.failed = TRUE], Failure))

ResponsesWrite(e, ev) ==
    LET s == ResponsesStart(e) IN
    CASE ev.type = "start" -> s
      [] ev.type = "block_start" -> ResponsesBlockStart(s, ev.index, ev.block)
      [] ev.type = "block_delta" -> ResponsesBlockDelta(s, ev.index, ev.kind, ev.value)
      [] ev.type = "block_end" -> ResponsesBlockEnd(s, ev.index)
      [] OTHER -> ResponsesEnd(s, ev)

\* abortItem closes what the encoder opened, empty and incomplete.
abortItem(e, i) ==
    LET item == e.items[i]
    IN Emit(IF item.part THEN Emit([e EXCEPT !.items[i].part = FALSE], PartDone(item.at)) ELSE e, Aborts(item.at))

ResponsesAbort(e) ==
    LET s == flushPendingDone([e EXCEPT !.err = FALSE])
        closing == SelectSeq(s.order, LAMBDA i : i \in s.open /\ s.items[i].kind # "tool")
    IN [FoldLeft(abortItem, s, closing) EXCEPT !.open = {}]

(***************************************************************************)
(* StreamEncoder: Write, Close, Abort.  Each starts from an empty out.     *)
(***************************************************************************)

Write(e, ev) ==
    LET c == [e EXCEPT !.out = <<>>, !.err = FALSE] IN
    CASE e.target = "chat" -> ChatWrite(c, ev)
      [] e.target = "anthropic" -> MessagesWrite(c, ev)
      [] e.target = "responses" -> ResponsesWrite(c, ev)

Close(e) ==
    LET c == [e EXCEPT !.out = <<>>, !.err = FALSE] IN
    CASE e.target = "chat" -> ChatDone(c)
      [] e.target = "anthropic" -> MessagesFinish(c)
      [] e.target = "responses" -> finishResponse(c)

\* A chat stream has no block to close.
Abort(e) ==
    LET c == [e EXCEPT !.out = <<>>, !.err = FALSE] IN
    CASE e.target = "chat" -> c
      [] e.target = "anthropic" -> MessagesAbort(c)
      [] e.target = "responses" -> ResponsesAbort(c)

=============================================================================
