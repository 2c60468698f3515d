----------------------------- MODULE Translation -----------------------------
(***************************************************************************)
(* A translated stream: the decoder of the upstream's protocol, the        *)
(* encoder of the client's, TranslateStreamBetween that runs one into the  *)
(* other, transformResponse that closes what a failure left open, and the  *)
(* client that reads the frames.                                           *)
(*                                                                         *)
(* One action is one event of the source.  The n-th delta of a Chat or an  *)
(* Anthropic source carries the token n; a Responses source tells the      *)
(* items of one of Outputs, whose tokens are all distinct and rise within  *)
(* a part, and may leave any of its announcements, deltas or repeats out.  *)
(***************************************************************************)
EXTENDS ResponsesDecoder

CONSTANTS Pairs,       \* <<source, target>> protocols
          Outputs,     \* the outputs a Responses source may tell; what a renumbered
                       \* document moves has an id
          MaxEvents    \* bound: events of a Chat or an Anthropic source

VARIABLES dec,         \* the decoder
          enc,         \* the encoder
          client,      \* what the client has made of the frames
          source,      \* what the source has said
          outcome      \* "", "clean", "inband" (an error was translated), "failed"

vars == <<dec, enc, client, source, outcome>>

(***************************************************************************)
(* The client.  bad is set by a frame its protocol does not allow.         *)
(***************************************************************************)

Client == [started |-> FALSE, open |-> NoMap, seen |-> {}, calls |-> NoMap, answer |-> <<>>, thinking |-> <<>>,
           items |-> <<>>, finished |-> FALSE, errored |-> FALSE, ended |-> 0, status |-> "", bad |-> FALSE]

Heard(c, kind, v) ==
    CASE kind \in {"text", "refusal"} -> [c EXCEPT !.answer = @ \o v]
      [] kind = "reasoning" -> [c EXCEPT !.thinking = @ \o v]
      [] OTHER -> c

\* The blocks a failure may leave open: a call that was never validated.
OnlyCallsOpen(c) == \A i \in DOMAIN c.open : c.open[i].kind = "tool"

\* A Responses message whose text is closed and whose done frame is to come: the
\* encoder keeps it until its next block, and writes an error before it although
\* TranslateStreamBetween has the blocks ended first.
Deferred(target, c) ==
    target = "responses" /\ \A i \in DOMAIN c.open : c.open[i].kind \in {"tool", "text", "refusal"} /\ ~c.open[i].part

\* The frames a protocol allows in the state the client is in.
Allowed(target, c, fr) ==
    /\ c.ended = 0
    /\ c.errored => fr.f = "terminal" \/ (target = "responses" /\ fr.f = "close")
    /\ fr.f \notin {"start", "error", "terminal"} => c.started
    /\ CASE fr.f = "start" -> ~c.started
         [] fr.f = "open" -> /\ ~c.finished /\ fr.i \notin c.seen
                             /\ target = "responses" => fr.i = Cardinality(c.seen)
         [] fr.f = "part" -> fr.i \in DOMAIN c.open /\ ~c.open[fr.i].part
         [] fr.f = "part_done" -> fr.i \in DOMAIN c.open /\ c.open[fr.i].part
         [] fr.f = "delta" ->
              /\ ~c.finished
              /\ IF fr.i = NoItem THEN target = "chat" /\ fr.kind # "args"
                 ELSE /\ fr.i \in DOMAIN c.open
                      /\ fr.kind = (IF c.open[fr.i].kind = "tool" THEN "args" ELSE c.open[fr.i].kind)
                      /\ target = "responses" /\ fr.kind # "args" => c.open[fr.i].part
         [] fr.f \in {"close", "abort"} ->
              /\ fr.i \in DOMAIN c.open /\ ~c.open[fr.i].part
              /\ fr.f = "close" /\ target = "responses" => c.open[fr.i].value \in {<<>>, fr.value}
              /\ fr.f = "abort" => c.open[fr.i].kind # "tool"
         [] fr.f = "finish" -> ~c.finished /\ (target = "chat" \/ c.open = NoMap)
         [] fr.f = "usage" -> c.finished
         [] fr.f = "error" -> target = "chat" \/ OnlyCallsOpen(c) \/ Deferred(target, c)
         [] fr.f = "terminal" ->
              /\ fr.status \in {"completed", "incomplete", "cancelled"} => c.open = NoMap /\ fr.output = SortSeq(c.items, LAMBDA a, b : a.i < b.i)
              /\ target = "anthropic" => c.finished \/ c.errored
              /\ OnlyCallsOpen(c)

\* Read one frame.
Receive(target, c, fr) ==
    LET b == [c EXCEPT !.bad = @ \/ ~Allowed(target, c, fr)] IN
    IF b.bad THEN b
    ELSE CASE fr.f = "start" -> [b EXCEPT !.started = TRUE]
           [] fr.f = "open" ->
                [b EXCEPT !.open = Put(@, fr.i, [kind |-> fr.kind, value |-> <<>>, part |-> FALSE]), !.seen = @ \cup {fr.i},
                          !.calls = IF fr.kind = "tool" THEN Put(@, fr.i, <<>>) ELSE @]
           [] fr.f = "part" -> [b EXCEPT !.open[fr.i].part = TRUE]
           [] fr.f = "part_done" -> [b EXCEPT !.open[fr.i].part = FALSE]
           [] fr.f = "delta" /\ fr.i = NoItem -> Heard(b, fr.kind, fr.value)
           [] fr.f = "delta" ->
                Heard([b EXCEPT !.open[fr.i].value = @ \o fr.value,
                                !.calls = IF fr.kind = "args" THEN [@ EXCEPT ![fr.i] = @ \o fr.value] ELSE @],
                      fr.kind, fr.value)
           [] fr.f = "close" ->
                [b EXCEPT !.open = Drop(@, fr.i), !.items = Append(@, [i |-> fr.i, value |-> fr.value]),
                          !.calls = IF fr.i \in DOMAIN @ /\ @[fr.i] = <<>>
                                    THEN [@ EXCEPT ![fr.i] = Fingerprint(fr.value)] ELSE @]
           [] fr.f = "abort" -> [b EXCEPT !.open = Drop(@, fr.i)]
           [] fr.f = "finish" -> [b EXCEPT !.finished = TRUE]
           [] fr.f = "usage" -> b
           [] fr.f = "error" -> [b EXCEPT !.errored = TRUE]
           [] fr.f = "terminal" -> [b EXCEPT !.ended = @ + 1, !.status = fr.status]

ReceiveAll(target, c, frames) == FoldLeft(LAMBDA x, fr : Receive(target, x, fr), c, frames)

(***************************************************************************)
(* TranslateStreamBetween and transformResponse.                           *)
(***************************************************************************)

\* The encoder writes the events one by one; the first that fails is the
\* last.  A run is the encoder and what the client has read.
Wrote(run, e) == [enc |-> e, out |-> run.out \o e.out]
WriteAll(run, events) ==
    FoldLeft(LAMBDA r, ev : IF r.enc.err THEN r ELSE Wrote(r, Write(r.enc, ev)), run, events)
Ended(run, result) == [enc |-> run.enc, out |-> run.out, outcome |-> result]

\* translatedStreamWriter.
TerminalSeen(frames) == \E n \in DOMAIN frames : frames[n].f = "terminal"
ErrorSeen(frames) == \E n \in DOMAIN frames : frames[n].f = "error"

\* Mutant: a failed translation is told and not ended.
MutantLeavesOpen(target, errored) == IF errored THEN <<>> ELSE <<Failure>>

\* closeFailedTranslation: the error unless one went out, and the terminal.
closeFailedTranslation(target, errored) ==
    (IF errored THEN <<>> ELSE <<Failure>>) \o <<Terminal(IF target = "responses" THEN "failed" ELSE "", <<>>)>>

\* The stream is closed unless its terminal was written.
FailedStream(run) ==
    [enc |-> run.enc, outcome |-> "failed",
     out |-> IF TerminalSeen(run.out) \/ client.ended > 0 THEN run.out
             ELSE run.out \o closeFailedTranslation(run.enc.target, client.errored \/ ErrorSeen(run.out))]

\* Mutant: a failed translation leaves the encoder's blocks open.
MutantNoAbort(run) == FailedStream(run)

\* A translation that failed: abort what the encoder opened, then close.
Failed(run) == FailedStream(Wrote(run, Abort(run.enc)))
Unfailed(run, result) == IF run.enc.err THEN Failed(run) ELSE Ended(run, result)

\* FlushBlocks: the blocks end, the calls stay open.
FlushBlocks(d) ==
    CASE d.source = "chat" -> closeAll(d, FALSE)
      [] d.source = "anthropic" -> closeOpenBlocks(d, FALSE)
      [] d.source = "responses" -> CloseAll(d, <<>>, "truncated")

\* The turn of the loop that read one event.
Read(run, d) ==
    IF run.enc.err \/ ~d.terminal THEN Unfailed(run, "")
    ELSE Unfailed(Wrote(run, Close(run.enc)), IF Error \in ToSet(d.q) THEN "inband" ELSE "clean")
Turn(run, d) == IF d.err = "hard" THEN Failed(run) ELSE Read(WriteAll(run, d.q), d)

\* The body broke off: the blocks end, and an error and the terminal follow.
Closed(run) == Ended(Wrote(run, Close(run.enc)), "inband")
Cut(run) == IF run.enc.err THEN Failed(run) ELSE Closed(Wrote(run, Write(run.enc, Error)))
Truncated(run, d) == Cut(WriteAll(run, FlushBlocks([d EXCEPT !.err = ""]).q))

Step(d, t) ==
    /\ dec' = [d EXCEPT !.q = <<>>]
    /\ enc' = t.enc
    /\ client' = ReceiveAll(t.enc.target, client, t.out)
    /\ outcome' = t.outcome

Run == [enc |-> enc, out |-> <<>>]
Translate(d) == Step(d, Turn(Run, d))
TranslateEnd(d) == Step(d, IF d.err = "truncated" THEN Truncated(Run, d) ELSE Turn(Run, d))

(***************************************************************************)
(* The sources.  told is what a faithful client hears; complete, that the  *)
(* source ended the turn itself.                                           *)
(***************************************************************************)

NewSource == [n |-> 0, answer |-> {}, thinking |-> {}, calls |-> NoMap, over |-> FALSE, complete |-> FALSE,
              open |-> NoMap, output |-> <<>>, told |-> {}]

Token == source.n + 1
Running(protocol) == outcome = "" /\ dec.source = protocol /\ ~source.complete

\* Chat chunks: one delta, fragment, finish, usage or end each.
ChatChunks ==
    {[Chunk EXCEPT ![field] = <<Token>>] : field \in {"text", "reasoning", "refusal"}}
      \cup {[Chunk EXCEPT !.calls = <<Call(index, id, args)>>] :
              index \in {0, 1}, id \in {"", "a"}, args \in {<<>>, <<"{">>, <<"}">>}}
      \cup {[Chunk EXCEPT !.legacy = <<Call(LegacyIndex, id, args)>>] :
              id \in {"", "a"}, args \in {<<>>, <<"{">>, <<"}">>}}
      \cup {[Chunk EXCEPT !.finish = "stop", !.usage = usage] : usage \in BOOLEAN}
      \cup {[Chunk EXCEPT !.usage = TRUE]}
      \cup {[Chunk EXCEPT !.kind = kind] : kind \in {"done", "error", "broken"}}

\* After the finish reason only usage and the end follow.
ChatFollows(c) == source.over => c.kind # "chunk" \/ c = [Chunk EXCEPT !.usage = TRUE]

ChatTold(c) ==
    [source EXCEPT !.n = @ + 1,
                   !.thinking = @ \cup ToSet(c.reasoning),
                   !.answer = @ \cup ToSet(c.text \o c.refusal),
                   !.calls = FoldLeft(LAMBDA f, k : Put(f, k.index, At(f, k.index, <<>>) \o k.args), @,
                                      c.calls \o c.legacy),
                   !.over = @ \/ c.finish # "" \/ c.kind # "chunk",
                   !.complete = c.kind = "done"]

ChatStep ==
    \E c \in ChatChunks :
        /\ source.n < MaxEvents /\ ChatFollows(c)
        /\ Translate(ChatNext(dec, c))
        /\ source' = ChatTold(c)

\* Anthropic events; piece names what a block or a delta carries.
Say(kind, index, block, piece, id, stop) ==
    [kind |-> kind, index |-> index, block |-> block, piece |-> piece, id |-> id, stop |-> stop]
MessagesEvents ==
    {Say("block_start", index, block, "", "", "") :
       index \in {0, 1}, block \in {"text", "reasoning", "redacted", "provider", "other"}}
      \cup {Say("block_start", index, "text", "token", "", "") : index \in {0, 1}}
      \cup {Say("block_start", index, "tool", piece, id, "") :
              index \in {0, 1}, piece \in {"", "open", "whole"}, id \in {"", "a"}}
      \cup {Say(kind, index, "", "token", "", "") : kind \in {"text", "reasoning"}, index \in {0, 1}}
      \cup {Say("args", index, "", piece, "", "") : index \in {0, 1}, piece \in {"open", "close"}}
      \cup {Say("block_stop", index, "", "", "", "") : index \in {0, 1}}
      \cup {Say("message_delta", 0, "", "", "", stop) : stop \in {"", "stop", "error"}}
      \cup {Say(kind, 0, "", "", "", "") : kind \in {"message_start", "message_stop", "error", "broken"}}

Carried(piece) ==
    CASE piece = "" -> <<>>
      [] piece = "token" -> <<Token>>
      [] piece = "open" -> <<"{">>
      [] piece = "close" -> <<"}">>
      [] piece = "whole" -> <<"{", "x", "}">>
MessagesEvent(e) ==
    [kind |-> e.kind, index |-> e.index, block |-> e.block, value |-> Carried(e.piece), id |-> e.id, stop |-> e.stop,
     usage |-> e.kind # "message_delta"]

\* A delta is of its block's kind, or of a block a provider keeps to itself.
Deltas == {"text", "reasoning", "args"}
BlockOf(kind) == IF kind = "args" THEN "tool" ELSE kind
MessagesFollows(e) ==
    /\ e.kind = "block_start" => ~source.over
    /\ e.kind \in Deltas => At(source.open, e.index, "") \in {BlockOf(e.kind), "provider"}

\* What a block says counts for the client unless the provider keeps it.
BlockTold(e, block, v) ==
    [source EXCEPT !.answer = IF block = "text" THEN @ \cup ToSet(v) ELSE @,
                   !.thinking = IF block = "reasoning" THEN @ \cup ToSet(v) ELSE @,
                   !.calls = IF block = "tool" THEN Put(@, e.index, At(@, e.index, <<>>) \o v) ELSE @]
MessagesTold(e) ==
    CASE e.kind = "block_start" ->
           [BlockTold(e, e.block, Carried(e.piece)) EXCEPT !.open = Put(@, e.index, e.block)]
      [] e.kind \in Deltas -> BlockTold(e, source.open[e.index], Carried(e.piece))
      [] e.kind = "block_stop" -> [source EXCEPT !.open = Drop(@, e.index)]
      [] e.kind = "message_delta" -> [source EXCEPT !.over = TRUE, !.open = NoMap]
      [] OTHER -> [source EXCEPT !.complete = e.kind = "message_stop", !.over = @ \/ e.kind # "message_start"]

MessagesStep ==
    \E e \in MessagesEvents :
        /\ source.n < MaxEvents /\ MessagesFollows(e)
        /\ Translate(MessagesNext(dec, MessagesEvent(e)))
        /\ source' = [MessagesTold(e) EXCEPT !.n = @ + 1]

\* Responses events, about an item or about a piece of one: a part, a summary, the
\* arguments of a call.
ItemAt(pos) == source.output[pos + 1]
Positions == {n - 1 : n \in DOMAIN source.output}
Whole(pos) == <<"item", pos, 0>>
Told(what, p) == <<what, p>> \in source.told
Streamed(p) == At(source.open, p, 0)
PartsOf(pos) ==
    {<<"part", pos, n - 1>> : n \in DOMAIN ItemAt(pos).parts}
      \cup {<<"summary", pos, n - 1>> : n \in DOMAIN ItemAt(pos).summary}
Pieces(pos) == PartsOf(pos) \cup (IF ItemAt(pos).type = "function_call" THEN {<<"args", pos, 0>>} ELSE {})
ValueOf(p) ==
    CASE p[1] = "part" -> ItemAt(p[2]).parts[p[3] + 1].value
      [] p[1] = "summary" -> ItemAt(p[2]).summary[p[3] + 1]
      [] p[1] = "args" -> ItemAt(p[2]).args
      [] OTHER -> <<>>
TypeOfPart(p) ==
    CASE p[1] = "part" -> ItemAt(p[2]).parts[p[3] + 1].type [] p[1] = "item" -> "text" [] OTHER -> "reasoning"

Utter(what, p, whole, class) == [what |-> what, p |-> p, whole |-> whole, class |-> class]
Utterances ==
    {Utter("created", Whole(0), FALSE, ""), Utter("broken", Whole(0), FALSE, "")}
      \cup UNION {{Utter("added", Whole(pos), TRUE, ""), Utter("added", Whole(pos), FALSE, ""),
                   Utter("done", Whole(pos), FALSE, "")} : pos \in Positions}
      \cup UNION {{Utter("opened", p, whole, "") : p \in PartsOf(pos), whole \in BOOLEAN} : pos \in Positions}
      \cup UNION {{Utter(what, p, FALSE, "") : what \in {"delta", "closed"}, p \in Pieces(pos)} : pos \in Positions}
      \cup UNION {{Utter("ended", p, FALSE, "") : p \in PartsOf(pos)} : pos \in Positions}
      \cup {Utter("terminal", Whole(0), whole, class) :
              whole \in BOOLEAN, class \in {"completed", "incomplete", "failed", "cancelled"}}

\* A reasoning item, and every item that has an id, is announced before anything of it is
\* told; calls are announced in their order; what an announcement carried is not streamed
\* again; and nothing is told twice.
ItemOpen(pos) ==
    /\ ~Told("done", Whole(pos))
    /\ ItemAt(pos).type = "reasoning" \/ ItemAt(pos).id # "" => Told("added", Whole(pos))
ResponsesFollows(u) ==
    CASE u.what = "created" -> ~Told("created", u.p)
      [] u.what = "added" ->
           /\ ~Told("done", u.p) /\ ~Told("added", u.p) /\ \A p \in Pieces(u.p[2]) : Streamed(p) = 0
           /\ \A q \in 0..(u.p[2] - 1) : ItemAt(q).type = "function_call" => Told("added", Whole(q))
      [] u.what = "done" -> ItemOpen(u.p[2])
      [] u.what = "opened" ->
           ItemOpen(u.p[2]) /\ ~Told("opened", u.p) /\ ~Told("closed", u.p) /\ Streamed(u.p) = 0
      [] u.what = "delta" -> ItemOpen(u.p[2]) /\ ~Told("closed", u.p) /\ Streamed(u.p) < Len(ValueOf(u.p))
      [] u.what \in {"closed", "ended"} -> ItemOpen(u.p[2]) /\ ~Told(u.what, u.p)
      [] OTHER -> TRUE

\* The name of the event: of a part by its channel, of a piece by what it is.
Channeled(p, text, reasoning, summary, args) ==
    CASE p[1] = "args" -> args
      [] p[1] = "summary" -> summary
      [] TypeOfPart(p) = "reasoning" -> reasoning
      [] OTHER -> text
EventKind(u) ==
    CASE u.what = "delta" -> Channeled(u.p, "text_delta", "reasoning_delta", "summary_delta", "args_delta")
      [] u.what = "closed" -> Channeled(u.p, "text_done", "reasoning_done", "summary_done", "args_done")
      [] u.what = "opened" -> IF u.p[1] = "part" THEN "part_added" ELSE "summary_part_added"
      [] u.what = "ended" -> IF u.p[1] = "part" THEN "part_done" ELSE "summary_part_done"
      [] OTHER -> u.what

\* An announcement carries the item empty or whole, the terminal document the output
\* without the items a provider keeps to itself, or nothing.
Bare(item) == [item EXCEPT !.args = <<>>, !.summary = <<>>]
Document(whole) ==
    IF whole THEN SelectSeq(source.output, LAMBDA item : item.type # "provider") ELSE <<>>
ResponsesEvent(u) ==
    [kind |-> EventKind(u), pos |-> u.p[2], at |-> u.p[3], type |-> TypeOfPart(u.p), class |-> u.class,
     id |-> IF u.what \in {"opened", "ended"} THEN ItemAt(u.p[2]).id ELSE "",
     item |-> IF u.what = "added" /\ ~u.whole THEN Bare(ItemAt(u.p[2])) ELSE ItemAt(u.p[2]),
     value |-> CASE u.what = "delta" -> <<ValueOf(u.p)[Streamed(u.p) + 1]>>
                 [] u.what = "opened" /\ ~u.whole -> <<>>
                 [] OTHER -> ValueOf(u.p),
     usage |-> FALSE, output |-> IF u.what = "terminal" THEN Document(u.whole) ELSE <<>>]

\* A part that ended was opened and closed.
Marks(u) ==
    CASE u.what \in {"delta", "terminal", "broken"} -> {}
      [] u.what = "ended" -> {<<"opened", u.p>>, <<"closed", u.p>>, <<"ended", u.p>>}
      [] OTHER -> {<<u.what, u.p>>}
\* The pieces an event brings to their full length.
Filled(u) ==
    CASE u.what = "added" /\ u.whole -> {p \in Pieces(u.p[2]) : p[1] # "part"}
      [] u.what = "opened" /\ u.whole -> {u.p}
      [] OTHER -> {}
ResponsesTold(u) ==
    [source EXCEPT !.told = @ \cup Marks(u),
                   !.open = IF u.what = "delta" THEN Put(@, u.p, Streamed(u.p) + 1)
                            ELSE FoldLeft(LAMBDA f, p : Put(f, p, Len(ValueOf(p))), @, SetToSeq(Filled(u))),
                   !.complete = u.what = "terminal" /\ u.whole /\ u.class # "failed",
                   !.over = IF u.what = "terminal" THEN u.class # "failed" ELSE @]

ResponsesStep ==
    \E u \in Utterances :
        /\ ResponsesFollows(u)
        /\ Translate(ResponsesNext(dec, ResponsesEvent(u)))
        /\ source' = ResponsesTold(u)

\* The body ends.
BodyEnds ==
    /\ outcome = "" /\ ~source.complete
    /\ TranslateEnd(CASE dec.source = "chat" -> ChatEOF(dec)
                      [] dec.source = "anthropic" -> MessagesEOF(dec)
                      [] dec.source = "responses" -> ResponsesEOF(dec))
    /\ source' = [source EXCEPT !.complete = @ \/ source.over]

Init ==
    /\ client = Client /\ outcome = ""
    /\ \E pair \in Pairs :
         /\ enc = CASE pair[2] = "chat" -> ChatEncoder [] pair[2] = "anthropic" -> MessagesEncoder [] OTHER -> ResponsesEncoder
         /\ dec = CASE pair[1] = "chat" -> ChatDecoder [] pair[1] = "anthropic" -> MessagesDecoder [] OTHER -> Decoder
         /\ \E output \in (IF pair[1] = "responses" THEN Outputs ELSE {<<>>}) :
              source = [NewSource EXCEPT !.output = output]

\* A translated stream that ended stays as it is.
Over == outcome # "" /\ UNCHANGED vars

Next ==
    \/ Running("chat") /\ ChatStep
    \/ Running("anthropic") /\ MessagesStep
    \/ Running("responses") /\ ResponsesStep
    \/ BodyEnds
    \/ Over

Spec == Init /\ [][Next]_vars

(***************************************************************************)
(* Properties.                                                             *)
(***************************************************************************)

\* Whatever the source sends and wherever the translation fails, the client
\* never reads a frame its protocol does not allow: no block twice, no delta
\* or end of a block that is not open, no terminal over an open block and no
\* error over one but a call or a Deferred message, nothing after the terminal
\* (TranslateStreamBetween, Abort, closeFailedTranslation).
WellFormed == ~client.bad

\* Every translation ends the client's stream exactly once, cleanly only when
\* the source ended the turn itself, and no call is published whose arguments
\* are not an object.
Settled ==
    /\ outcome # "" =>
         /\ client.ended = 1 \/ (enc.target = "anthropic" /\ client.errored)
         /\ client.errored <=> outcome # "clean"
         /\ outcome = "clean" => source.over \/ source.complete
    /\ \A i \in DOMAIN client.calls :
         (IF enc.target = "chat" THEN outcome = "clean" ELSE i \notin DOMAIN client.open)
            => Object(Fingerprint(client.calls[i]))

\* What the pieces of a Responses output say, by the channel the client
\* hears it on.
ToldAnswer == source.answer \cup UNION {UNION {ToSet(p.value) : p \in {q \in ToSet(item.parts) : q.type # "reasoning"}} :
                                        item \in ToSet(source.output)}
ToldThinking == source.thinking
                  \cup UNION {UNION {ToSet(p.value) : p \in {q \in ToSet(item.parts) : q.type = "reasoning"}} :
                              item \in ToSet(source.output)}
                  \cup UNION {UNION {ToSet(v) : v \in ToSet(item.summary)} : item \in ToSet(source.output)}
CallsOf(f) == [v \in {Fingerprint(w) : w \in ToSet(f)} |-> Cardinality({n \in DOMAIN f : Fingerprint(f[n]) = v})]
ToldCalls == IF dec.source # "responses" THEN [n \in 1..Cardinality(DOMAIN source.calls) |->
                                                 source.calls[SetToSeq(DOMAIN source.calls)[n]]]
             ELSE LET called == SelectSeq(source.output, LAMBDA item : item.type = "function_call")
                  IN [n \in DOMAIN called |-> called[n].args]
HeardCalls == [n \in 1..Cardinality(DOMAIN client.calls) |-> client.calls[SetToSeq(DOMAIN client.calls)[n]]]

\* A turn that ends cleanly and completely reaches the client with all its
\* reasoning: the summaries are one channel, the content parts another
\* (applyReasoningContent).
ReasoningWhole == outcome = "clean" /\ source.complete => ToldThinking \subseteq ToSet(client.thinking)

\* A byte the source says several times, in deltas, in the repeats of parts
\* and items and in a renumbered terminal document, reaches the client once
\* and in order; a turn that ends cleanly and completely reaches it whole.
Exact ==
    /\ IsInjective(client.answer) /\ IsInjective(client.thinking)
    /\ \A heard \in {client.answer, client.thinking} : \A a, b \in DOMAIN heard :
         a < b /\ heard[a] \div 10 = heard[b] \div 10 => heard[a] < heard[b]
    /\ ToSet(client.answer) \subseteq ToldAnswer /\ ToSet(client.thinking) \subseteq ToldThinking
    /\ outcome = "clean" /\ source.complete =>
         /\ ToSet(client.answer) = ToldAnswer
         /\ ToSet(client.thinking) = ToldThinking
         /\ CallsOf(HeardCalls) = CallsOf(ToldCalls)

=============================================================================
