--------------------------- MODULE StreamDecoders ---------------------------
(***************************************************************************)
(* The Chat and the Anthropic stream decoders of internal/format: a source *)
(* event in, canonical events out.                                         *)
(*                                                                         *)
(* A decoder is a record; q is its queue of canonical events, err what     *)
(* Next returns once q is empty: "" (read on), "eof", "truncated"          *)
(* (ErrTruncatedStream) or "hard" (any other error).                       *)
(*                                                                         *)
(* Left out: identities and models (checkNativeIdentity), usage arithmetic *)
(* (usage is reported or not), citations and signatures.                   *)
(***************************************************************************)
EXTENDS StreamEncoders

CONSTANTS ToolBlocksMax, \* StreamToolCallsMax
          ArgumentsMax   \* streamToolArgumentsMax, in tokens

Push(d, ev) == [d EXCEPT !.q = Append(@, ev)]
PushAll(d, evs) == [d EXCEPT !.q = @ \o evs]
Hard(d) == [d EXCEPT !.err = "hard"]
Ends(indexes) == [n \in DOMAIN indexes |-> BlockEnd(indexes[n])]

\* A value is a JSON object when its braces open and close it.
Object(v) == Len(v) >= 2 /\ v[1] = "{" /\ v[Len(v)] = "}"

\* validateStreamedToolArguments: bytes on the wire are never normalised.
validateStreamedToolArguments(v) == v = <<>> \/ (Len(v) >= 2 /\ Object(v))

\* reserveToolID: one id, one call.
Reserved(d, id) == id \in d.ids

(***************************************************************************)
(* Chat Completions chunks.                                                *)
(***************************************************************************)

\* A chunk: the deltas of its choice, its tool calls, its finish reason and
\* usage; kind tells a chunk from an error, from a completion document, from
\* the [DONE] sentinel and from bytes that do not parse.
Chunk == [kind |-> "chunk", reasoning |-> <<>>, text |-> <<>>, refusal |-> <<>>, calls |-> <<>>,
          legacy |-> <<>>, finish |-> "", usage |-> FALSE]
Call(index, id, args) == [index |-> index, id |-> id, args |-> args]

NoBlock == -1
LegacyIndex == -1
ChatDecoder ==
    [source |-> "chat", started |-> FALSE, terminal |-> FALSE, next |-> 0, text |-> NoBlock, reasoning |-> NoBlock,
     refusal |-> NoBlock, tools |-> NoMap, args |-> NoMap, ids |-> {}, calls |-> 0, open |-> <<>>, finishSeen |-> FALSE,
     finish |-> "", usage |-> FALSE, q |-> <<>>, err |-> ""]

\* A decoder that failed goes no further.
IfClean(d, F(_)) == IF d.err = "" THEN F(d) ELSE d

\* flushFinish: finish and usage are held for the one terminal delta.
flushFinish(d) ==
    IF d.finish = "" /\ ~d.usage THEN d ELSE Push([d EXCEPT !.finish = ""], MessageDelta(d.finish, d.usage))

\* closeOpen.
closeOpen(d, i) == [Push(d, BlockEnd(i)) EXCEPT !.open = SelectSeq(@, LAMBDA j : j # i)]

closeText(d) == IF d.text = NoBlock THEN d ELSE closeOpen([d EXCEPT !.text = NoBlock], d.text)
closeReasoning(d) == IF d.reasoning = NoBlock THEN d ELSE closeOpen([d EXCEPT !.reasoning = NoBlock], d.reasoning)
closeRefusal(d) == IF d.refusal = NoBlock THEN d ELSE closeOpen([d EXCEPT !.refusal = NoBlock], d.refusal)

Begun(d, b) == Push([d EXCEPT !.next = @ + 1, !.open = Append(@, d.next)], BlockStart(d.next, b))
Opened(d, type) == Begun(d, Block(type, <<>>))
ensureText(d) ==
    IF d.text # NoBlock THEN d ELSE Opened([closeRefusal(closeReasoning(d)) EXCEPT !.text = d.next], "text")
ensureReasoning(d) ==
    IF d.reasoning # NoBlock THEN d ELSE Opened([closeRefusal(closeText(d)) EXCEPT !.reasoning = d.next], "reasoning")
ensureRefusal(d) ==
    IF d.refusal # NoBlock THEN d ELSE Opened([closeReasoning(closeText(d)) EXCEPT !.refusal = d.next], "refusal")

closeRest(d, calls) ==
    LET ending == SelectSeq(d.open, LAMBDA i : calls \/ i \notin Range(d.tools))
    IN PushAll([d EXCEPT !.open = <<>>, !.tools = NoMap, !.args = NoMap], Ends(ending))

\* closeAll: a clean finish validates every call's bytes; a failure leaves
\* the calls open, since an end would publish them.
closeAll(d, validate) ==
    IF validate /\ \E n \in DOMAIN d.args : ~validateStreamedToolArguments(d.args[n]) THEN Hard(d)
    ELSE closeRest(closeRefusal(closeReasoning(closeText(d))), validate)

toolOpened(d, index, id) ==
    Begun([d EXCEPT !.tools = Put(@, index, d.next), !.args = Put(@, index, <<>>)], CallBlock(<<>>, id))

toolFragment(d, call) ==
    LET held == FoldLeft(LAMBDA n, j : n + Len(d.args[j]), 0, SetToSeq(DOMAIN d.args))
    IN IF call.args = <<>> THEN d
       ELSE IF Len(call.args) + held > ArgumentsMax THEN Hard(d)
       ELSE Push([d EXCEPT !.args[call.index] = @ \o call.args],
                 BlockDelta(d.tools[call.index], "args", call.args))

\* toolCall: the first fragment opens the block and commits its id (one is
\* made up when the source has none), every fragment goes on at once.
toolCall(d, call) ==
    LET id == IF call.id = "" THEN <<"proxy", d.next>> ELSE <<call.id>>
    IN CASE d.err # "" -> d
         [] call.index \in DOMAIN d.tools -> toolFragment(d, call)
         [] d.calls + 1 > ToolBlocksMax \/ Reserved(d, id) -> Hard(d)
         [] OTHER -> toolFragment(
              toolOpened(closeRefusal(closeReasoning(closeText([d EXCEPT !.calls = @ + 1, !.ids = @ \cup {id}]))),
                         call.index, id), call)

\* legacyFunctionCall: one call on a reserved index, its name is its id
\* unless a modern call took it.
legacyFunctionCall(d, call) ==
    IF call.index \notin DOMAIN d.tools /\ call.id = "" THEN Hard(d)
    ELSE toolCall(d, [call EXCEPT !.id = IF call.index \in DOMAIN d.tools \/ Reserved(d, <<call.id>>) THEN "" ELSE @])

\* The deltas of one choice, reasoning first.
ReasoningSaid(d, v) ==
    IF v = <<>> THEN d
    ELSE LET Said(e) == Push(e, BlockDelta(e.reasoning, "reasoning", v)) IN Said(ensureReasoning(d))
TextSaid(d, v) ==
    IF v = <<>> THEN d ELSE LET Said(e) == Push(e, BlockDelta(e.text, "text", v)) IN Said(ensureText(d))
RefusalSaid(d, v) ==
    IF v = <<>> THEN d ELSE LET Said(e) == Push(e, BlockDelta(e.refusal, "text", v)) IN Said(ensureRefusal(d))
CallsSaid(d, c) ==
    IF c.calls # <<>> THEN FoldLeft(toolCall, d, c.calls) ELSE FoldLeft(legacyFunctionCall, d, c.legacy)
ChatDeltas(d, c) ==
    CallsSaid(RefusalSaid(TextSaid(ReasoningSaid(d, c.reasoning), c.text), c.refusal), c)

\* The clean end of the stream: the sentinel, or EOF after a finish reason.
ChatEnd(d) ==
    IfClean(closeAll(d, TRUE), LAMBDA c : Push([flushFinish(c) EXCEPT !.terminal = TRUE], Done))

\* The finish reason of a choice, and the usage.
ChatFinished(d, c) ==
    IF c.finish = "" THEN d
    ELSE IfClean(closeAll(d, TRUE), LAMBDA e : [e EXCEPT !.finishSeen = TRUE, !.finish = c.finish])
ChatCounted(d, c) == IF c.usage THEN [d EXCEPT !.usage = TRUE] ELSE d
ChatStarted(d) == IF d.started THEN d ELSE Push([d EXCEPT !.started = TRUE], Start)

\* One event of the source through Next.
ChatNext(d, c) ==
    CASE c.kind = "done" -> ChatEnd(d)
      [] c.kind = "error" -> Push([closeAll(d, FALSE) EXCEPT !.terminal = TRUE], Error)
      [] c.kind \in {"document", "broken"} -> Hard(d)
      [] OTHER ->
           IfClean(ChatDeltas(ChatStarted(d), c), LAMBDA t :
             IfClean(ChatFinished(t, c), LAMBDA f : ChatCounted(f, c)))

ChatEOF(d) == IF d.finishSeen THEN ChatEnd(d) ELSE [d EXCEPT !.err = "truncated"]

(***************************************************************************)
(* Anthropic events.                                                       *)
(***************************************************************************)

MessagesDecoder ==
    [source |-> "anthropic", terminal |-> FALSE, started |-> FALSE, usage |-> FALSE, skipped |-> {}, stop |-> "",
     deltaSent |-> FALSE, tools |-> {}, whole |-> {}, args |-> NoMap, open |-> {}, seen |-> {}, ids |-> {},
     errorSeen |-> FALSE, q |-> <<>>, err |-> ""]

\* flushMessageDelta: one canonical finish, the last reason reported, or a
\* reason that is not clean.
flushMessageDelta(d) ==
    IF d.deltaSent THEN d
    ELSE Push([d EXCEPT !.deltaSent = TRUE], MessageDelta(IF d.stop = "" THEN "other" ELSE d.stop, d.usage))

\* pushTerminal: a stop reason of error without an error event makes one.
pushTerminal(d) == Push(d, IF ~d.errorSeen /\ d.stop = "error" THEN Error ELSE Done)

\* closeOpenBlocks, in index order.
closeOpenBlocks(d, validate) ==
    IF validate /\ \E i \in d.open \ d.skipped : i \in DOMAIN d.args /\ ~validateStreamedToolArguments(d.args[i])
    THEN Hard(d)
    ELSE LET ending == SetToSortSeq({i \in d.open \ d.skipped : validate \/ i \notin d.tools}, <)
         IN PushAll([d EXCEPT !.open = {}, !.skipped = {}, !.tools = {}, !.whole = {}, !.args = NoMap], Ends(ending))

\* mergeUsage, and message_start's one start event.
MessageStarted(d, usage) ==
    LET u == [d EXCEPT !.usage = @ \/ usage] IN IF d.started THEN u ELSE Push([u EXCEPT !.started = TRUE], Start)

\* anthropicStreamBlock: a call's empty input is the empty object.
anthropicStreamBlock(ev, id) ==
    IF ev.block = "tool" THEN CallBlock(IF ev.value = <<>> THEN EmptyObject ELSE ev.value, id) ELSE Block(ev.block, ev.value)

\* content_block_start: an index and an id are used once; a provider's own
\* block is skipped.
ContentBlockStart(d, ev) ==
    LET o == [d EXCEPT !.seen = @ \cup {ev.index}, !.open = @ \cup {ev.index}]
        id == IF ev.id = "" THEN <<"synthetic", ev.index>> ELSE <<ev.id>>
        t == [o EXCEPT !.ids = @ \cup {id}, !.tools = @ \cup {ev.index},
                       !.whole = IF ev.value \in {<<>>, EmptyObject} THEN @ ELSE @ \cup {ev.index}]
    IN CASE ev.index \in d.seen -> Hard(d)
         [] ev.block = "tool" /\ (\/ Reserved(d, id) \/ Cardinality(t.tools) > ToolBlocksMax
                                  \/ ~validateStreamedToolArguments(ev.value)) -> Hard(t)
         [] ev.block = "tool" -> Push(t, BlockStart(ev.index, anthropicStreamBlock(ev, id)))
         [] ev.block = "provider" -> [o EXCEPT !.skipped = @ \cup {ev.index}]
         [] OTHER -> Push(o, BlockStart(ev.index, anthropicStreamBlock(ev, id)))

\* content_block_delta: bytes of an open call are kept for validation.
ContentBlockDelta(d, ev) ==
    LET held == FoldLeft(LAMBDA n, i : n + Len(d.args[i]), 0, SetToSeq(DOMAIN d.args))
        prior == IF ev.index \in DOMAIN d.args THEN d.args[ev.index] ELSE <<>>
    IN CASE ev.index \in d.skipped -> d
         [] ev.kind = "args" /\ ev.value # <<>> /\ ev.index \in d.whole -> Hard(d)
         [] ev.kind = "args" /\ ev.value # <<>> /\ ev.index \in d.tools /\ Len(ev.value) + held > ArgumentsMax -> Hard(d)
         [] OTHER -> Push(IF ev.kind = "args" /\ ev.value # <<>> /\ ev.index \in d.tools
                          THEN [d EXCEPT !.args = Put(@, ev.index, prior \o ev.value)] ELSE d,
                          BlockDelta(ev.index, ev.kind, ev.value))

\* content_block_stop: a late stop of a block the terminal closed is ignored.
ContentBlockStop(d, ev) ==
    LET c == [d EXCEPT !.open = @ \ {ev.index}, !.tools = @ \ {ev.index}, !.whole = @ \ {ev.index}]
    IN CASE ev.index \in d.skipped -> [c EXCEPT !.skipped = @ \ {ev.index}]
         [] ev.index \notin d.open -> c
         [] OTHER -> IF ev.index \in DOMAIN d.args /\ ~validateStreamedToolArguments(d.args[ev.index]) THEN Hard(c)
                     ELSE Push([c EXCEPT !.args = Drop(@, ev.index)], BlockEnd(ev.index))

\* message_delta closes the blocks; error closes all of them but the calls.
MessageDeltaRead(d, ev) ==
    closeOpenBlocks([d EXCEPT !.usage = @ \/ ev.usage, !.stop = IF ev.stop = "" THEN @ ELSE ev.stop], TRUE)
MessagesError(d) == Push(closeOpenBlocks([d EXCEPT !.terminal = TRUE, !.errorSeen = TRUE], FALSE), Error)

\* message_stop, and EOF after a stop reason.
MessagesEnd(d) ==
    IfClean(closeOpenBlocks(d, TRUE), LAMBDA c : pushTerminal(flushMessageDelta([c EXCEPT !.terminal = TRUE])))

\* One event of the source through Next.
MessagesNext(d, ev) ==
    CASE ev.kind = "message_start" -> MessageStarted(d, ev.usage)
      [] ev.kind = "block_start" -> ContentBlockStart(d, ev)
      [] ev.kind \in {"text", "reasoning", "args"} -> ContentBlockDelta(d, ev)
      [] ev.kind = "block_stop" -> ContentBlockStop(d, ev)
      [] ev.kind = "message_delta" -> MessageDeltaRead(d, ev)
      [] ev.kind = "message_stop" -> MessagesEnd(d)
      [] ev.kind = "error" -> MessagesError(d)
      [] ev.kind = "broken" -> Hard(d)

MessagesEOF(d) == IF d.stop # "" THEN MessagesEnd(d) ELSE [d EXCEPT !.err = "truncated"]

=============================================================================
