-------------------------- MODULE ResponsesDecoder --------------------------
(***************************************************************************)
(* The Responses stream decoder of internal/format.  The source says one   *)
(* thing several times: in deltas, in the done events of parts and items,  *)
(* and again in the terminal document, whose items may be renumbered.  The *)
(* decoder must hand every byte on once.                                   *)
(*                                                                         *)
(* An item of the wire is a record [type, id, call, name, args, parts,     *)
(* summary]; id and call are "" when absent; parts is the sequence of its  *)
(* content parts [type, value], summary the sequence of its summary texts. *)
(*                                                                         *)
(* Left out: the size bounds of collections and retained bytes, warnings,  *)
(* phases, encrypted artefacts and differences in white space.             *)
(***************************************************************************)
EXTENDS StreamDecoders

Decoder ==
    [source |-> "responses", started |-> FALSE, terminal |-> FALSE, next |-> 0, usage |-> FALSE, sawTool |-> FALSE,
     itemBlock |-> NoMap, initial |-> NoMap, argsOut |-> NoMap, evidence |-> {}, openTools |-> {}, ids |-> {},
     toolKeys |-> {}, aliases |-> NoMap, names |-> NoMap, closedArgs |-> NoMap, outputs |-> {}, items |-> {},
     parts |-> {}, itemBlockByKey |-> NoMap, partBlockByKey |-> NoMap, keyByOutput |-> NoMap, kindId |-> NoMap,
     claims |-> NoMap, reasoningKeys |-> {}, keyByPart |-> NoMap, itemId |-> NoMap, seed |-> NoMap, text |-> NoMap,
     owner |-> NoMap, kind |-> NoMap, pending |-> <<>>, open |-> {}, q |-> <<>>, err |-> ""]

At(f, k, default) == IF k \in DOMAIN f THEN f[k] ELSE default

(***************************************************************************)
(* Identities.  A key carries the announced position; an id that two       *)
(* announcements claim names neither.                                      *)
(***************************************************************************)

Ambiguous == <<"ambiguous", "", 0>>
OutputKey(pos) == <<"output", "", pos>>
streamItemKey(id, pos) == IF id = "" THEN OutputKey(pos) ELSE <<"item", id, pos>>
messageItemKey(id, pos) == IF id = "" THEN OutputKey(pos) ELSE <<"message", id, pos>>
functionCallIdentityKey(call, id) ==
    IF call # "" THEN <<"call", call>> ELSE IF id # "" THEN <<"item", id>> ELSE <<>>
functionCallKey(call, id, pos) ==
    IF call # "" THEN <<"call", call, pos>> ELSE IF id # "" THEN <<"item", id, pos>> ELSE OutputKey(pos)
contentPartKey(itemKey, n) == <<"part", itemKey, n>>
summaryPartKey(itemKey, n) == <<"summary", itemKey, n>>
responsesFunctionCallID(call, id, pos) ==
    IF call # "" THEN <<call>> ELSE IF id # "" THEN <<id>> ELSE <<"proxy", pos>>

\* One spelling, one key: a second key makes it ambiguous.
Claimed(f, spelling, key) ==
    IF spelling \in DOMAIN f THEN IF f[spelling] = key THEN f ELSE Put(f, spelling, Ambiguous) ELSE Put(f, spelling, key)
registerItemIdentity(d, kind, id, key) ==
    IF id = "" THEN d ELSE [d EXCEPT !.kindId = Claimed(@, <<kind, id>>, key)]
aliasToolKey(d, alias, key) == IF alias = <<>> THEN d ELSE [d EXCEPT !.aliases = Claimed(@, alias, key)]
announcedItemKey(d, kind, id) == IF id = "" THEN Ambiguous ELSE At(d.kindId, <<kind, id>>, Ambiguous)

newBlock(d, b) == Push([d EXCEPT !.next = @ + 1, !.open = @ \cup {d.next}], BlockStart(d.next, b))

(***************************************************************************)
(* What a channel has emitted.                                             *)
(***************************************************************************)

emittedValue(d, key) == At(d.text, key, <<>>)
appendEmittedText(d, key, v) == [d EXCEPT !.text = Put(@, key, emittedValue(d, key) \o v)]
setEmittedText(d, key, v) == [d EXCEPT !.text = IF v = <<>> THEN Drop(@, key) ELSE Put(@, key, v)]

\* Mutant: a repeat is handed on whole.
MutantRepeats(emitted, v) == v

\* pendingValueSuffix: what a cumulative value adds; nothing when it diverges.
pendingValueSuffix(emitted, v) ==
    IF IsPrefix(emitted, v) THEN SubSeq(v, Len(emitted) + 1, Len(v)) ELSE <<>>

\* announcePart, setPartOwner, partKind: the first item and channel a part is seen
\* with; a part without a channel reads as text.
Announced(d, key, itemKey) ==
    [d EXCEPT !.parts = @ \cup {key}, !.owner = IF key \in DOMAIN @ THEN @ ELSE Put(@, key, itemKey)]
Owned(d, key, itemKey, channel) ==
    [Announced(d, key, itemKey) EXCEPT !.kind = IF key \in DOMAIN @ THEN @ ELSE Put(@, key, channel)]

\* emittedContentParts and emittedSummaryParts, in the order the client saw.
EmittedParts(d, itemKey, summary, channel) ==
    LET keys == {k \in DOMAIN d.text : /\ At(d.owner, k, <<>>) = itemKey
                                       /\ (IF summary THEN k[1] = "summary" ELSE At(d.kind, k, "text") = channel)}
        order == SetToSortSeq(keys, LAMBDA a, b : a[3] < b[3] \/ (a[3] = b[3] /\ a[1] = "part" /\ b[1] = "summary"))
    IN [n \in DOMAIN order |-> [key |-> order[n], index |-> order[n][3], value |-> d.text[order[n]]]]

Total(parts) == FoldLeft(LAMBDA v, p : v \o p.value, <<>>, parts)
HasRun(v, w) == \E a \in 1..(Len(v) + 1) : a + Len(w) - 1 <= Len(v) /\ SubSeq(v, a, a + Len(w) - 1) = w

\* The tail of the terminal parts beyond the bytes already covered: a part
\* that straddles the end continues the last part emitted.
MissingTail(emitted, terminal, covered) ==
    LET start == [n \in DOMAIN terminal |-> Len(Total(SubSeq(terminal, 1, n - 1)))]
        cut(n) == IF start[n] < covered
                  THEN [terminal[n] EXCEPT !.value = SubSeq(@, covered - start[n] + 1, Len(@)),
                                           !.key = Last(emitted).key]
                  ELSE terminal[n]
        kept == SelectSeq([n \in DOMAIN terminal |-> n],
                          LAMBDA n : start[n] + Len(terminal[n].value) > covered)
    IN [n \in DOMAIN kept |-> cut(kept[n])]

\* Of a terminal that diverges, a strict continuation of the same part and a
\* part that is new.
Diverged(emitted, terminal) ==
    LET total == Total(emitted)
        old(p) == SelectSeq(emitted, LAMBDA e : e.index = p.index)
        new(p) == IF old(p) = <<>> THEN p.value ELSE pendingValueSuffix(Last(old(p)).value, p.value)
        cut == [n \in DOMAIN terminal |-> [terminal[n] EXCEPT !.value = new(terminal[n])]]
    IN SelectSeq(cut, LAMBDA p : p.value # <<>> /\ ~HasRun(total, p.value))

\* reconcileChannel.
reconcileChannel(emitted, terminal) ==
    LET e == Total(emitted)  t == Total(terminal) IN
    CASE terminal = <<>> \/ e = t -> <<>>
      [] e # t /\ IsPrefix(e, t) -> MissingTail(emitted, terminal, Len(e))
      [] OTHER -> Diverged(emitted, terminal)

(***************************************************************************)
(* Parts.                                                                  *)
(***************************************************************************)

\* startPartBlock: a part announced empty opens with its first bytes.
startPartBlock(d, key) ==
    IF key \in DOMAIN d.partBlockByKey \/ key \notin DOMAIN d.seed THEN d
    ELSE [newBlock(d, Block(d.seed[key], <<>>)) EXCEPT !.partBlockByKey = Put(@, key, d.next), !.seed = Drop(@, key)]
PartOpen(d, key) == key \in DOMAIN d.partBlockByKey /\ d.partBlockByKey[key] \in d.open

Channel(type) == IF type \in {"refusal", "reasoning"} THEN type ELSE "text"
DeltaKind(channel) == IF channel = "reasoning" THEN "reasoning" ELSE "text"

\* queueTerminal: one entry per part, to be emitted after every open block.
queueTerminal(d, key, type, v) ==
    LET at == {n \in DOMAIN d.pending : d.pending[n].key = key} IN
    [d EXCEPT !.pending =
        IF at = {} THEN Append(@, [key |-> key, type |-> type, kind |-> DeltaKind(type), value |-> v])
        ELSE [@ EXCEPT ![CHOOSE n \in at : TRUE].value = @ \o v]]

\* appendContentValue: into the open block, or behind every open block.
appendContentValue(d, key, type, v) ==
    IF v = <<>> THEN d
    ELSE IF PartOpen(d, key) THEN Push(d, BlockDelta(d.partBlockByKey[key], DeltaKind(type), v))
    ELSE [d EXCEPT !.pending = Append(@, [key |-> <<>>, type |-> type, kind |-> DeltaKind(type), value |-> v])]

\* appendReasoningValue.
appendReasoningValue(d, itemKey, v) ==
    IF itemKey \in DOMAIN d.itemBlockByKey /\ d.itemBlockByKey[itemKey] \in d.open
    THEN Push(d, BlockDelta(d.itemBlockByKey[itemKey], "reasoning", v))
    ELSE [d EXCEPT !.pending = Append(@, [key |-> <<>>, type |-> "reasoning", kind |-> "reasoning", value |-> v])]

\* response.content_part.added.
ContentPartAdded(d, ev) ==
    LET id == IF ev.id = "" THEN At(d.itemId, ev.pos, "") ELSE ev.id
        itemKey == streamItemKey(id, ev.pos)
        key == contentPartKey(itemKey, ev.at)
        o == registerItemIdentity(
               Owned([d EXCEPT !.keyByPart = Put(@, <<ev.pos, ev.at>>, key), !.itemId = Put(@, ev.pos, id)],
                     key, itemKey, Channel(ev.type)),
               IF ev.type = "reasoning" THEN "reasoning" ELSE "message", id, itemKey)
    IN CASE ev.type = "other" \/ key \in d.parts -> d
         [] ev.value = <<>> -> [o EXCEPT !.seed = Put(@, key, ev.type)]
         [] OTHER -> [setEmittedText(newBlock(o, Block(ev.type, ev.value)), key, ev.value)
                         EXCEPT !.partBlockByKey = Put(@, key, d.next)]

\* response.output_text.delta and response.refusal.delta.
TextDelta(d, ev) ==
    LET key == At(d.keyByPart, <<ev.pos, ev.at>>, <<>>)
        s == startPartBlock(d, key)
    IN IF ev.value = <<>> \/ key = <<>> \/ ~PartOpen(s, key) THEN (IF key = <<>> THEN d ELSE s)
       ELSE Push(appendEmittedText(s, key, ev.value), BlockDelta(s.partBlockByKey[key], "text", ev.value))

\* The key of the part an event names by its position.
PartKey(d, ev) == At(d.keyByPart, <<ev.pos, ev.at>>, contentPartKey(streamItemKey(At(d.itemId, ev.pos, ""), ev.pos), ev.at))

\* response.output_text.done and response.refusal.done.
TextDone(d, ev) ==
    LET key == PartKey(d, ev)
        emit == pendingValueSuffix(emittedValue(d, key), ev.value)
        s == startPartBlock(Owned(d, key, streamItemKey(At(d.itemId, ev.pos, ""), ev.pos), Channel(ev.type)), key)
    IN IF emit = <<>> THEN d
       ELSE setEmittedText(IF PartOpen(s, key) THEN Push(s, BlockDelta(s.partBlockByKey[key], "text", emit))
                           ELSE queueTerminal(s, key, ev.type, emit), key, ev.value)

\* Reasoning text goes to its part's block, else to the item's, else behind.
ReasoningText(d, ev, key, emit) ==
    LET s == startPartBlock(d, key) IN
    IF PartOpen(s, key) THEN Push(s, BlockDelta(s.partBlockByKey[key], "reasoning", emit))
    ELSE IF ev.pos \in DOMAIN s.itemBlock /\ s.itemBlock[ev.pos] \in s.open
         THEN Push(s, BlockDelta(s.itemBlock[ev.pos], "reasoning", emit))
         ELSE queueTerminal(s, key, "reasoning", emit)

\* response.reasoning_text.delta.
ReasoningDelta(d, ev) ==
    LET key == PartKey(d, ev)
        o == Owned(d, key, streamItemKey(At(d.itemId, ev.pos, ""), ev.pos), "reasoning")
    IN IF ev.value = <<>> \/ (ev.pos \in DOMAIN d.keyByOutput /\ d.keyByOutput[ev.pos] \notin d.reasoningKeys) THEN d
       ELSE ReasoningText(appendEmittedText(o, key, ev.value), ev, key, ev.value)

\* response.reasoning_text.done.
ReasoningDone(d, ev) ==
    LET key == PartKey(d, ev)
        foreign == IF ev.pos \in DOMAIN d.keyByOutput THEN d.keyByOutput[ev.pos] \notin d.reasoningKeys
                   ELSE messageItemKey(At(d.itemId, ev.pos, ""), ev.pos) \in d.items
        o == Owned(d, key, streamItemKey(At(d.itemId, ev.pos, ""), ev.pos), "reasoning")
        emit == pendingValueSuffix(emittedValue(o, key), ev.value)
    IN IF foreign THEN d
       ELSE IF emit = <<>> THEN o ELSE setEmittedText(ReasoningText(o, ev, key, emit), key, ev.value)

\* The four reasoning summary events: a delta adds, the others are cumulative.  They
\* give the part its owner and no channel.
Summary(d, ev) ==
    LET itemKey == At(d.keyByOutput, ev.pos, <<>>)
        key == summaryPartKey(itemKey, ev.at)
        o == Announced(d, key, itemKey)
        emit == IF ev.kind = "summary_delta" THEN ev.value ELSE pendingValueSuffix(emittedValue(d, key), ev.value)
        p == IF emit = <<>> THEN o ELSE Push(o, BlockDelta(d.itemBlock[ev.pos], "reasoning", emit))
    IN IF ev.value = <<>> \/ ev.pos \notin DOMAIN d.itemBlock \/ itemKey \notin d.reasoningKeys THEN d
       ELSE IF ev.kind = "summary_delta" THEN appendEmittedText(p, key, emit)
       ELSE IF emit = <<>> /\ ev.kind # "summary_part_done" THEN o ELSE setEmittedText(p, key, ev.value)

\* Close one part's block, or forget the part that never opened.
PartClosed(d, key) ==
    IF PartOpen(d, key)
    THEN Push([d EXCEPT !.open = @ \ {d.partBlockByKey[key]}, !.seed = Drop(@, key)], BlockEnd(d.partBlockByKey[key]))
    ELSE [d EXCEPT !.seed = Drop(@, key)]

\* response.content_part.done.
ContentPartDone(d, ev) ==
    LET id == IF ev.id = "" THEN At(d.itemId, ev.pos, "") ELSE ev.id
        key == At(d.keyByPart, <<ev.pos, ev.at>>, contentPartKey(streamItemKey(id, ev.pos), ev.at))
        type == IF ev.type = "" THEN At(d.kind, key, "text") ELSE ev.type
        o == Owned(d, key, streamItemKey(id, ev.pos), Channel(type))
        emit == pendingValueSuffix(emittedValue(o, key), ev.value)
        s == IF ev.value = <<>> \/ type = "other" THEN d
             ELSE IF emit = <<>> THEN o ELSE setEmittedText(appendContentValue(o, key, type, emit), key, ev.value)
    IN PartClosed(s, key)

(***************************************************************************)
(* Tool calls.                                                             *)
(***************************************************************************)

\* Empty and null are no evidence of arguments; the empty object is.
toolArgumentsMissing(v) == v = <<>>

\* recordEmittedArguments.
Recorded(d, key, v) == IF v = <<>> THEN d ELSE [d EXCEPT !.argsOut = Put(@, key, At(d.argsOut, key, <<>>) \o v)]

\* toolArgumentsDelta: the bytes the announcement carried go first.
toolArgumentsDelta(d, key, i, v) ==
    LET first == At(d.initial, key, <<>>)
        s == IF key \in DOMAIN d.argsOut THEN d
             ELSE [(IF first = <<>> THEN d ELSE Recorded(Push(d, BlockDelta(i, "args", first)), key, first))
                      EXCEPT !.initial = Drop(@, key)]
    IN IF v = <<>> THEN d
       ELSE Recorded(Push([s EXCEPT !.evidence = @ \cup {key}], BlockDelta(i, "args", v)), key, v)

\* flushToolArguments over bytes already streamed.
Reconciled(d, key, i, full, policy) ==
    LET emitted == d.argsOut[key]
        grows == Len(full) > Len(emitted) /\ IsPrefix(emitted, full)
        suffix == pendingValueSuffix(emitted, full)
        g == IF grows /\ (policy # "skip" \/ validateStreamedToolArguments(full))
             THEN Recorded(Push(d, BlockDelta(i, "args", suffix)), key, suffix) ELSE d
    IN CASE policy = "required" /\ key \notin d.evidence -> Hard(d)
         [] policy = "required" /\ g.argsOut[key] = <<>> -> Hard(g)
         [] policy = "skip" -> g
         [] OTHER -> IF validateStreamedToolArguments(g.argsOut[key]) THEN g ELSE Hard(g)

\* flushToolArguments.
flushToolArguments(d, key, i, full, policy) ==
    LET seen == IF toolArgumentsMissing(full) THEN d ELSE [d EXCEPT !.evidence = @ \cup {key}]
        args == IF full = <<>> THEN At(d.initial, key, <<>>) ELSE full
        value == IF args = <<>> THEN EmptyObject ELSE args
        s == [seen EXCEPT !.initial = Drop(@, key), !.evidence = IF toolArgumentsMissing(args) THEN @ ELSE @ \cup {key}]
        c == [s EXCEPT !.argsOut = Put(@, key, <<>>)]
    IN CASE d.err # "" -> d
         [] key = <<>> -> d
         [] key \in DOMAIN d.argsOut -> Reconciled(seen, key, i, full, policy)
         [] policy = "required" /\ key \notin s.evidence -> Hard(s)
         [] ~Object(value) -> IF policy = "skip" THEN c ELSE Hard(c)
         [] OTHER -> Recorded(IF value = EmptyObject THEN c ELSE Push(c, BlockDelta(i, "args", value)), key, value)

\* clearToolState keeps, of a call without an id, its name and its value.
clearToolState(d, key) ==
    [d EXCEPT !.initial = Drop(@, key), !.evidence = @ \ {key}, !.openTools = @ \ {key}, !.argsOut = Drop(@, key),
              !.closedArgs = IF key \in d.openTools /\ key[1] = "output"
                             THEN Put(@, key, At(d.argsOut, key, EmptyObject)) ELSE @]

\* toolArgumentsFingerprint: a missing value is the empty object.
Fingerprint(v) == IF v = <<>> THEN EmptyObject ELSE v

closedToolCallRepeat(d, key, item) ==
    /\ At(d.names, key, "") = item.name
    /\ key[1] = "output" => key \in DOMAIN d.closedArgs /\ Fingerprint(d.closedArgs[key]) = Fingerprint(item.args)

matchesClosedIdlessCall(d, item) ==
    \E key \in DOMAIN d.closedArgs : d.names[key] = item.name /\ Fingerprint(d.closedArgs[key]) = Fingerprint(item.args)

\* resolveToolCallKey.
resolveToolCallKey(d, item, pos) ==
    LET canonical == At(d.aliases, functionCallIdentityKey(item.call, item.id), Ambiguous)
    IN IF canonical = Ambiguous THEN functionCallKey(item.call, item.id, pos) ELSE canonical

terminalToolIdentityCompatible(item, key) ==
    /\ item.call # "" => key[1] # "call"
    /\ item.call = "" /\ item.id # "" => key[1] # "item"

ToolOpen(d, key) == key \in d.openTools /\ key \in DOMAIN d.itemBlockByKey /\ d.itemBlockByKey[key] \in d.open

\* matchTerminalToolCall for an item that names its function: the one open
\* call of that name, or of several the one announced at this position.
matchTerminalToolCall(d, item, pos, claimed) ==
    LET named == {d.keyByOutput[p] : p \in {q \in DOMAIN d.keyByOutput :
                     /\ ToolOpen(d, d.keyByOutput[q]) /\ d.keyByOutput[q] \notin claimed
                     /\ At(d.names, d.keyByOutput[q], "") = item.name}}
        fit == IF Cardinality(named) = 1 THEN named ELSE named \cap {At(d.keyByOutput, pos, <<>>)}
    IN {key \in fit : terminalToolIdentityCompatible(item, key)}

\* terminalToolCallAnnounced.
terminalToolCallAnnounced(d, key, pos, id) ==
    \/ key \in d.toolKeys
    \/ /\ pos \in DOMAIN d.keyByOutput /\ d.keyByOutput[pos] \in d.toolKeys
       /\ id = "" \/ At(d.itemId, pos, "") \in {"", id}

(***************************************************************************)
(* Items.                                                                  *)
(***************************************************************************)

\* The summaries an announced reasoning item already carries.
SummariesAdded(d, key, i, summary) ==
    FoldLeft(LAMBDA x, n : IF summary[n] = <<>> THEN x
                           ELSE LET k == summaryPartKey(key, n - 1)
                                IN setEmittedText(Push(Owned(x, k, key, "reasoning"), BlockDelta(i, "reasoning", summary[n])),
                                                  k, summary[n]),
             d, [n \in DOMAIN summary |-> n])

\* response.output_item.added, by the type of its item.
FunctionCallAdded(d, item, pos) ==
    LET key == functionCallKey(item.call, item.id, pos)
        id == responsesFunctionCallID(item.call, item.id, pos)
        o == newBlock([d EXCEPT !.items = @ \cup {key}, !.ids = @ \cup {id}, !.sawTool = TRUE,
                                !.openTools = @ \cup {key}, !.toolKeys = @ \cup {key}, !.names = Put(@, key, item.name),
                                !.itemBlock = Put(@, pos, d.next), !.itemBlockByKey = Put(@, key, d.next),
                                !.keyByOutput = Put(@, pos, key), !.itemId = Put(@, pos, item.id)],
                      CallBlock(EmptyObject, id))
        a == aliasToolKey(o, functionCallIdentityKey(item.call, item.id), key)
        b == IF item.call # "" /\ item.id # "" THEN aliasToolKey(a, functionCallIdentityKey("", item.id), key) ELSE a
        e == IF toolArgumentsMissing(item.args) THEN b ELSE [b EXCEPT !.evidence = @ \cup {key}]
    IN CASE key \in d.items -> d
         [] Reserved(d, id) \/ Cardinality(d.openTools) + 1 > ToolBlocksMax -> Hard(d)
         [] OTHER -> IF item.args \in {<<>>, EmptyObject} THEN e ELSE [e EXCEPT !.initial = Put(@, key, item.args)]

ReasoningAdded(d, item, pos) ==
    LET key == streamItemKey(item.id, pos)
        o == newBlock([d EXCEPT !.items = @ \cup {key}, !.itemBlock = Put(@, pos, d.next),
                                !.itemBlockByKey = Put(@, key, d.next), !.keyByOutput = Put(@, pos, key),
                                !.reasoningKeys = @ \cup {key}, !.itemId = Put(@, pos, item.id)],
                      Block("reasoning", <<>>))
    IN IF key \in d.items THEN d
       ELSE SummariesAdded(registerItemIdentity(o, "reasoning", item.id, key), key, d.next, item.summary)

MessageAdded(d, item, pos) ==
    registerItemIdentity([d EXCEPT !.items = @ \cup {messageItemKey(item.id, pos)}, !.itemId = Put(@, pos, item.id)],
                         "message", item.id, streamItemKey(item.id, pos))

\* announceOutput: one announcement per position.
OutputItemAdded(d, ev) ==
    LET o == [d EXCEPT !.outputs = @ \cup {ev.pos}] IN
    CASE ev.pos \in d.outputs -> d
      [] ev.item.type = "function_call" -> FunctionCallAdded(o, ev.item, ev.pos)
      [] ev.item.type = "reasoning" -> ReasoningAdded(o, ev.item, ev.pos)
      [] ev.item.type = "message" -> MessageAdded(o, ev.item, ev.pos)
      [] OTHER -> [o EXCEPT !.sawTool = TRUE]

\* hasEmittedContent and terminalContentItemKey: whose bytes a message of a
\* done event or of the terminal document repeats.
hasEmittedContent(d, itemKey) ==
    \E k \in DOMAIN d.text : At(d.owner, k, <<>>) = itemKey /\ At(d.kind, k, "text") \in {"text", "refusal"}
terminalContentItemKey(d, id, pos, claim) ==
    LET primary == streamItemKey(id, pos)
        said == At(d.itemId, pos, "")
        positional == streamItemKey(said, pos)
        free(key) == ~claim \/ At(d.claims, key, pos) = pos
        byId == announcedItemKey(d, "message", id)
    IN CASE hasEmittedContent(d, primary) /\ free(primary) -> primary
         [] (id = "" \/ said \in {"", id}) /\ hasEmittedContent(d, positional) /\ free(positional) -> positional
         [] byId # Ambiguous /\ free(byId) -> byId
         [] OTHER -> primary

\* terminalPartKey.
terminalPartKey(d, itemKey, id, pos, n) ==
    LET key == contentPartKey(itemKey, n)
        said == At(d.itemId, pos, "")
    IN IF key \in d.parts \/ <<pos, n>> \notin DOMAIN d.keyByPart \/ (id # "" /\ said \notin {"", id}) THEN key
       ELSE d.keyByPart[<<pos, n>>]

\* The parts of one channel, as terminalMessageParts reads them.
ChannelParts(d, item, itemKey, pos, channel, types) ==
    LET kept == SelectSeq([n \in DOMAIN item.parts |-> n],
                          LAMBDA n : item.parts[n].value # <<>> /\ item.parts[n].type \in types)
    IN [n \in DOMAIN kept |-> [key |-> terminalPartKey(d, itemKey, item.id, pos, kept[n] - 1), index |-> kept[n] - 1,
                               value |-> item.parts[kept[n]].value, channel |-> channel]]

\* Hand one reconciled tail on and book it.
HandOn(d, part, itemKey) ==
    LET o == Owned(d, part.key, itemKey, part.channel)
    IN setEmittedText(appendContentValue(o, part.key, part.channel, part.value), part.key,
                      emittedValue(o, part.key) \o part.value)

\* applyMessageContent.
applyMessageContent(d, item, pos, claim) ==
    LET itemKey == terminalContentItemKey(d, item.id, pos, claim)
        c == IF claim THEN [d EXCEPT !.claims = Put(@, itemKey, At(@, itemKey, pos))] ELSE d
        tail(channel) == reconcileChannel(EmittedParts(d, itemKey, FALSE, channel),
                                          ChannelParts(d, item, itemKey, pos, channel, {channel}))
        tails == SortSeq(tail("text") \o tail("refusal"), LAMBDA a, b : a.index < b.index)
    IN FoldLeft(LAMBDA x, p : HandOn(x, p, itemKey), c, tails)

\* applyReasoningContent: the summaries are one channel, the parts another.
applyReasoningContent(d, item, key, pos) ==
    LET kept == SelectSeq([n \in DOMAIN item.summary |-> n], LAMBDA n : item.summary[n] # <<>>)
        said == [n \in DOMAIN kept |-> [key |-> summaryPartKey(key, kept[n] - 1), index |-> kept[n] - 1,
                                        value |-> item.summary[kept[n]], channel |-> "reasoning"]]
        summarised == FoldLeft(LAMBDA x, p : LET o == Owned(x, p.key, key, "reasoning")
                                             IN setEmittedText(appendReasoningValue(o, key, p.value), p.key,
                                                               emittedValue(o, p.key) \o p.value),
                               d, reconcileChannel(EmittedParts(d, key, TRUE, "reasoning"), said))
        parts == ChannelParts(summarised, item, key, pos, "reasoning", {"reasoning", "text"})
    IN FoldLeft(LAMBDA x, p : HandOn(x, p, key), summarised,
                reconcileChannel(EmittedParts(summarised, key, FALSE, "reasoning"), parts))

\* response.output_item.done.
OutputItemDone(d, ev) ==
    LET pos == ev.pos
        i == At(d.itemBlock, pos, NoBlock)
        key == At(d.keyByOutput, pos, <<>>)
        ended(x) == Push([x EXCEPT !.itemBlock = Drop(@, pos), !.open = @ \ {i}], BlockEnd(i))
        f == flushToolArguments(d, key, i, ev.item.args, "complete")
        mine == SetToSortSeq({p \in DOMAIN d.keyByPart : p[1] = pos}, LAMBDA a, b : a[2] < b[2])
    IN CASE ev.item.type = "function_call" ->
              IF i = NoBlock THEN d ELSE IF f.err # "" THEN f ELSE ended(clearToolState(f, key))
         [] ev.item.type = "reasoning" ->
              IF i = NoBlock THEN d ELSE ended(applyReasoningContent(d, ev.item, key, pos))
         [] ev.item.type = "message" ->
              FoldLeft(LAMBDA x, p : PartClosed(x, x.keyByPart[p]), applyMessageContent(d, ev.item, pos, FALSE), mine)
         [] OTHER -> [d EXCEPT !.sawTool = TRUE]

(***************************************************************************)
(* The terminal document.                                                  *)
(***************************************************************************)

\* toolArgumentPolicy.
toolArgumentPolicy(class) ==
    CASE class \in {"failed", "error", "truncated"} -> "skip"
      [] class \in {"incomplete", "cancelled"} -> "required"
      [] OTHER -> "complete"

\* A call only the terminal document has: functionCallTerminalEmission.
TerminalCall(d, item, pos, key, policy) ==
    LET id == responsesFunctionCallID(item.call, item.id, pos)
        value == Fingerprint(item.args)
        o == [d EXCEPT !.items = @ \cup {key}]
        bad == (policy = "required" /\ toolArgumentsMissing(item.args)) \/ ~Object(value)
    IN CASE terminalToolCallAnnounced(d, key, pos, item.id) \/ key \in d.items -> d
         [] bad -> IF policy = "skip" THEN o ELSE Hard(o)
         [] Reserved(d, id) -> IF policy = "complete" THEN Hard(o) ELSE [o EXCEPT !.sawTool = TRUE]
         [] OTHER -> [o EXCEPT !.sawTool = TRUE, !.ids = @ \cup {id},
                               !.pending = Append(@, [key |-> id, type |-> "tool", kind |-> "args",
                                                      value |-> IF value = EmptyObject THEN <<>> ELSE value])]

\* One function call of the terminal document: a repeat of a closed call is
\* nothing, an open call gets its arguments, any other call is new.
TerminalFunctionCall(w, item, pos, policy) ==
    LET d == w.d
        idless == item.call = "" /\ item.id = ""
        key == resolveToolCallKey(d, item, pos)
        mine == key \in DOMAIN d.itemBlockByKey /\ key \in d.openTools
                  /\ (idless => At(d.names, key, "") = item.name)
        match == IF mine THEN {key} ELSE matchTerminalToolCall(d, item, pos, w.claimed)
        open == {k \in match : d.itemBlockByKey[k] \in d.open}
    IN CASE idless /\ matchesClosedIdlessCall(d, item) -> w
         [] key \in d.toolKeys /\ key \notin d.openTools /\ closedToolCallRepeat(d, key, item) -> w
         [] open # {} -> LET k == CHOOSE k \in open : TRUE
                         IN [d |-> flushToolArguments(d, k, d.itemBlockByKey[k], item.args, policy),
                             claimed |-> w.claimed \cup {k}]
         [] OTHER -> [w EXCEPT !.d = TerminalCall(d, item, pos, key, policy)]

\* terminalAnnouncedItemKey: the id, then the position when the ids agree.
terminalAnnouncedItemKey(d, pos, id) ==
    LET key == streamItemKey(id, pos)
        byId == announcedItemKey(d, "reasoning", id)
        at == At(d.keyByOutput, pos, <<>>)
    IN CASE key \in d.reasoningKeys -> key
         [] byId \in d.reasoningKeys -> byId
         [] at \in d.reasoningKeys /\ (id = "" \/ At(d.itemId, pos, "") \in {"", id}) -> at
         [] OTHER -> <<>>

\* reasoningTerminalEmission, for an item only the document has.
TerminalReasoning(d, item, pos) ==
    LET key == terminalAnnouncedItemKey(d, pos, item.id)
        own == streamItemKey(item.id, pos)
        value == FoldLeft(LAMBDA v, p : v \o p.value, <<>>, item.parts) \o FoldLeft(LAMBDA v, s : v \o s, <<>>, item.summary)
        fresh == [d EXCEPT !.items = @ \cup {own}]
    IN CASE key # <<>> -> applyReasoningContent(d, item, key, pos)
         [] own \in d.items -> d
         [] value = <<>> -> fresh
         [] OTHER -> [fresh EXCEPT !.pending = Append(@, [key |-> <<>>, type |-> "reasoning", kind |-> "reasoning",
                                                          value |-> value])]

\* collectTerminalOutput walks the document in its own order.
collectTerminalOutput(d, output, policy) ==
    FoldLeft(LAMBDA w, n :
               IF w.d.err # "" THEN w
               ELSE CASE output[n].type = "function_call" -> TerminalFunctionCall(w, output[n], n - 1, policy)
                      [] output[n].type = "message" -> [w EXCEPT !.d = applyMessageContent(w.d, output[n], n - 1, TRUE)]
                      [] output[n].type = "reasoning" -> [w EXCEPT !.d = TerminalReasoning(w.d, output[n], n - 1)]
                      [] OTHER -> w,
             [d |-> [d EXCEPT !.claims = NoMap], claimed |-> {}], [n \in DOMAIN output |-> n]).d

\* syntheticBlock: a whole lifecycle, after every streamed block closed.
syntheticBlock(d, p) ==
    LET o == Push(d, BlockStart(d.next, IF p.type = "tool" THEN CallBlock(EmptyObject, p.key) ELSE Block(p.type, <<>>)))
        v == IF p.value = <<>> THEN o ELSE Push(o, BlockDelta(d.next, p.kind, p.value))
    IN [Push(v, BlockEnd(d.next)) EXCEPT !.next = @ + 1]

CallsFlushed(d, policy) ==
    IF policy = "skip" THEN d
    ELSE FoldLeft(LAMBDA x, k : flushToolArguments(x, k, x.itemBlockByKey[k], <<>>, policy), d,
                  SetToSeq({k \in d.openTools : ToolOpen(d, k)}))
BlocksEnded(d, policy) ==
    LET left == IF policy = "skip" THEN {d.itemBlockByKey[k] : k \in d.openTools} ELSE {}
    IN FoldLeft(syntheticBlock,
                PushAll([d EXCEPT !.open = {}, !.pending = <<>>], Ends(SetToSortSeq(d.open \ left, <))), d.pending)

\* closeAll: the document fills the open blocks, a clean terminal validates
\* the calls, the blocks close (a failure leaves the calls open), and only
\* then what was queued goes out.
CloseAll(d, output, class) ==
    LET policy == toolArgumentPolicy(class)
    IN IfClean(CallsFlushed(collectTerminalOutput(d, output, policy), policy), LAMBDA f : BlocksEnded(f, policy))

\* The finish reason of a terminal event.
FinishOf(d, ev) ==
    CASE ev.class = "cancelled" -> "cancelled"
      [] ev.class = "incomplete" -> "length"
      [] d.sawTool \/ \E n \in DOMAIN ev.output : ev.output[n].type \in {"function_call", "provider"} -> "tool_calls"
      [] OTHER -> "stop"

\* response.completed, incomplete, failed and cancelled, and error.
TerminalEvent(d, ev) ==
    IfClean(CloseAll([d EXCEPT !.terminal = TRUE, !.usage = @ \/ ev.usage], ev.output, ev.class), LAMBDA c :
      IF ev.class \in {"failed", "error"} THEN Push(c, Error)
      ELSE PushAll(c, <<MessageDelta(FinishOf(c, ev), c.usage), Done>>))

\* One event of the source through Next.
ResponsesNext(d, ev) ==
    CASE ev.kind = "created" -> IF d.started THEN d ELSE Push([d EXCEPT !.started = TRUE], Start)
      [] ev.kind = "added" -> OutputItemAdded(d, ev)
      [] ev.kind = "part_added" -> ContentPartAdded(d, ev)
      [] ev.kind = "text_delta" -> TextDelta(d, ev)
      [] ev.kind = "text_done" -> TextDone(d, ev)
      [] ev.kind = "reasoning_delta" -> ReasoningDelta(d, ev)
      [] ev.kind = "reasoning_done" -> ReasoningDone(d, ev)
      [] ev.kind \in {"summary_delta", "summary_part_added", "summary_done", "summary_part_done"} -> Summary(d, ev)
      [] ev.kind \in {"args_delta", "args_done"} ->
           LET key == At(d.keyByOutput, ev.pos, <<>>) IN
           IF ev.pos \notin DOMAIN d.itemBlock \/ key \notin d.toolKeys \cap d.openTools THEN d
           ELSE IF ev.kind = "args_delta" THEN toolArgumentsDelta(d, key, d.itemBlock[ev.pos], ev.value)
           ELSE flushToolArguments(d, key, d.itemBlock[ev.pos], ev.value, "complete")
      [] ev.kind = "part_done" -> ContentPartDone(d, ev)
      [] ev.kind = "done" -> OutputItemDone(d, ev)
      [] ev.kind = "terminal" -> TerminalEvent(d, ev)
      [] ev.kind = "broken" -> Hard(d)

ResponsesEOF(d) == [d EXCEPT !.err = "truncated"]

=============================================================================
