--------------------------- MODULE MCWire ---------------------------
(***************************************************************************)
(* Small instances of the parts a request goes through: the operator holds *)
(* it waits under, its admission and answer, the stream relay and its      *)
(* re-sends, the translation between protocols and the parked Cursor runs. *)
(* A behaviour runs the one part that part names.  Holds is extended; the  *)
(* others share registers: x1, x2, ... stand for the variables of that     *)
(* part in the order its module declares them.                             *)
(***************************************************************************)
EXTENDS Holds, Analyzer

CONSTANT Parts    \* the parts a run takes up

VARIABLES part, x1, x2, x3, x4, x5, x6, x7, x8, x9, x10, x11
registers == <<x1, x2, x3, x4, x5, x6, x7, x8, x9, x10, x11>>


Unused == 0

---------------------------------------------------------------------------
(* What upstreams send.                                                    *)

\* The lines of the three wires, built with the operators of Analyzer.


Lines ==
    [chat |->
       {Data(Chat({}, "")), Data(Chat({"reasoning"}, "")),
        Data(Chat({"answer"}, "")), Data(Chat({}, "stop")), Done, Blank,
        Data(InBandError("server")), Data(InBandError("fatal"))},
     responses |->
       {Data(Event("response", {"answer"})), Data(Event("completed", {"answer"})),
        Data(Event("completed", {})), Data(HeadOf(Event("completed", {"answer"}))),
        Data(TailOf(Event("completed", {"answer"}))), Data(Untyped({"answer"})),
        Name("completed"), Blank, Done, Data(InBandError("server"))},
     anthropic |->
       {Data(Event("message_start", {})), Data(Event("block", {"answer"})),
        Data([Event("message_delta", {}) EXCEPT !.finish = "stop"]),
        Data([Event("message_delta", {}) EXCEPT !.finish = "error"]),
        Data(Event("message_stop", {})), Data(Event("error", {})), Blank, Field}]
\* Last lines that end without a newline.
Tails ==
    [chat |-> {Data(Chat({"answer"}, "")), Data(Chat({}, "stop")), Done},
     responses |-> {Data(Event("response", {"answer"})),
                    Data(TailOf(Event("completed", {"answer"}))), Done},
     anthropic |-> {Data(Event("message_stop", {})), Data(Event("block", {"answer"}))}]

\* Upstream answers to a request.
Answer(status, sse, body) == [status |-> status, sse |-> sse, body |-> body]
Answers == {Answer("200", TRUE, "healthy"), Answer("ok", TRUE, "healthy"), Answer("error", FALSE, "healthy"),
            Answer("error", TRUE, "healthy"), Answer("accepted", FALSE, "healthy")} \union
           {Answer("200", FALSE, b) :
              b \in {"healthy", "void", "thinking", "retryable", "fatal", "over", "broken"}}

\* Outputs of a Responses source: a message, one after a foreign item, one without an
\* id, calls with and without identity, reasoning as content and as summaries.
Item(type, id, call, name, args, parts, summary) ==
    [type |-> type, id |-> id, call |-> call, name |-> name, args |-> args, parts |-> parts,
     summary |-> summary]
Part(type, value) == [type |-> type, value |-> value]
Message(id, parts) == Item("message", id, "", "", <<>>, parts, <<>>)
Called(id, call, args) == Item("function_call", id, call, "f", args, <<>>, <<>>)
Reasoning(parts, summary) == Item("reasoning", "r", "", "", <<>>, parts, summary)
Foreign == Item("provider", "", "", "", <<>>, <<>>, <<>>)
Outputs == {<<Message("m", <<Part("text", <<1, 2>>)>>)>>,
            <<Foreign, Message("m", <<Part("text", <<1>>)>>)>>,
            <<Message("", <<Part("text", <<1, 2>>), Part("refusal", <<11>>)>>)>>,
            <<Called("i", "c", <<"{", "}">>)>>, <<Called("", "", <<"{", "x", "}">>)>>,
            <<Reasoning(<<Part("reasoning", <<11>>)>>, <<>>)>>, <<Reasoning(<<>>, <<<<21>>, <<31>>>>)>>}
Protocols == {"chat", "anthropic", "responses"}
Pairs == {pair \in Protocols \X Protocols : pair[1] # pair[2]}

---------------------------------------------------------------------------

(* Registers past the k-th that a part does not use. *)
Blank9 == x10 = Unused /\ x11 = Unused
Rest9 == <<x10, x11>>
Blank5 == x6 = Unused /\ x7 = Unused /\ x8 = Unused /\ x9 = Unused /\ Blank9
Rest5 == <<x6, x7, x8, x9, Rest9>>
Blank4 == x5 = Unused /\ Blank5
Rest4 == <<x5, Rest5>>

\* Two requests of one scope and one run.
Running == INSTANCE CursorRuns WITH
    Scopes <- {"s"}, NoRun <- "none", EventBuf <- 1, QualityRetries <- TRUE,
    ParkedLimit <- 2, TTLs <- {1}, Clients <- {"c1", "c2"},
    ScopeOf <- [c1 |-> "s", c2 |-> "s"], Runs <- {"r1"}, CallIds <- {"a"}, RunMax <- 1,
    MaxFrames <- 3, MaxIds <- 1,
    run <- x1, entries <- x2, byCall <- x3, streamBytes <- x4, ttl <- x5, timer <- x6,
    callbacks <- x7, closing <- x8, pc <- x9, req <- x10, gone <- x11
\* Two requests of different scopes.
Guarding == INSTANCE CursorRuns WITH
    Scopes <- {"s", "t"}, NoRun <- "none", EventBuf <- 1, QualityRetries <- TRUE,
    ParkedLimit <- 2, TTLs <- {1}, Clients <- {"c1", "c2"},
    ScopeOf <- [c1 |-> "s", c2 |-> "t"], Runs <- {"r1"}, CallIds <- {"a"}, RunMax <- 1,
    MaxFrames <- 2, MaxIds <- 1,
    run <- x1, entries <- x2, byCall <- x3, streamBytes <- x4, ttl <- x5, timer <- x6,
    callbacks <- x7, closing <- x8, pc <- x9, req <- x10, gone <- x11
\* Two runs that surface the same call id.
Parking == INSTANCE CursorRuns WITH
    Scopes <- {"s"}, NoRun <- "none", EventBuf <- 1, QualityRetries <- TRUE,
    ParkedLimit <- 2, TTLs <- {1}, Clients <- {"c1"}, ScopeOf <- [c1 |-> "s"],
    Runs <- {"r1", "r2"}, CallIds <- {"a"}, RunMax <- 2, MaxFrames <- 1, MaxIds <- 1,
    run <- x1, entries <- x2, byCall <- x3, streamBytes <- x4, ttl <- x5, timer <- x6,
    callbacks <- x7, closing <- x8, pc <- x9, req <- x10, gone <- x11
\* One run, two call ids, room for one parked frame and a changing bound.
Filling == INSTANCE CursorRuns WITH
    Scopes <- {"s"}, NoRun <- "none", EventBuf <- 1, QualityRetries <- TRUE,
    ParkedLimit <- 1, TTLs <- {1, 2}, Clients <- {"c1"}, ScopeOf <- [c1 |-> "s"],
    Runs <- {"r1"}, CallIds <- {"a", "b"}, RunMax <- 1, MaxFrames <- 2, MaxIds <- 2,
    run <- x1, entries <- x2, byCall <- x3, streamBytes <- x4, ttl <- x5, timer <- x6,
    callbacks <- x7, closing <- x8, pc <- x9, req <- x10, gone <- x11
\* A chat stream with one rescue of each kind.
Relaying == INSTANCE Relay WITH
    Wires <- {"chat"}, Lines <- Lines, Tails <- Tails, HoldMax <- 2, QualityRetries <- 1,
    ThinkingRetries <- 1, MaxLines <- 3,
    wire <- x1, s <- x2, attempt <- x3, left <- x4, lines <- x5, event <- x6,
    verbatim <- x7, canceled <- x8, broken <- x9
\* Anthropic streams.
Streaming == INSTANCE Relay WITH
    Wires <- {"anthropic"}, Lines <- Lines, Tails <- Tails, HoldMax <- 3,
    QualityRetries <- 1, ThinkingRetries <- 1, MaxLines <- 4,
    wire <- x1, s <- x2, attempt <- x3, left <- x4, lines <- x5, event <- x6,
    verbatim <- x7, canceled <- x8, broken <- x9
\* Responses streams, whose events are told over more lines.
Responding == INSTANCE Relay WITH
    Wires <- {"responses"}, Lines <- Lines, Tails <- Tails, HoldMax <- 3,
    QualityRetries <- 1, ThinkingRetries <- 1, MaxLines <- 5,
    wire <- x1, s <- x2, attempt <- x3, left <- x4, lines <- x5, event <- x6,
    verbatim <- x7, canceled <- x8, broken <- x9
\* One request, every kind and every answer.
Serving == INSTANCE Request WITH
    Requests <- {"r"}, Kinds <- [stream : BOOLEAN, translate : BOOLEAN], Answers <- Answers,
    RequestLimit <- 1, BodyLimit <- 1, ResponseLimit <- 1, QualityRetries <- 1,
    ThinkingRetries <- 1, MaxReads <- 1,
    cur <- x1, bytes <- x2, resp <- x3, req <- x4
\* Two requests for one place of each budget.
Sharing == INSTANCE Request WITH
    Requests <- {"r", "s"}, Kinds <- [stream : {FALSE}, translate : {FALSE}],
    Answers <- {Answer("200", FALSE, "void")}, RequestLimit <- 0, BodyLimit <- 1,
    ResponseLimit <- 1, QualityRetries <- 1, ThinkingRetries <- 0, MaxReads <- 1,
    cur <- x1, bytes <- x2, resp <- x3, req <- x4
\* Every pair of protocols.
Translating == INSTANCE Translation WITH
    IncludeUsage <- TRUE, RetainMax <- 4, ToolBlocksMax <- 1, ArgumentsMax <- 3,
    MaxEvents <- 3, Pairs <- Pairs, Outputs <- Outputs, Refused <- {<<"b">>},
    dec <- x1, enc <- x2, client <- x3, source <- x4, outcome <- x5
\* The same, with a call id the client's protocol does not accept.
Refusing == INSTANCE Translation WITH
    IncludeUsage <- TRUE, RetainMax <- 4, ToolBlocksMax <- 1, ArgumentsMax <- 3,
    MaxEvents <- 2, Pairs <- Pairs, Outputs <- Outputs, Refused <- {<<"a">>},
    dec <- x1, enc <- x2, client <- x3, source <- x4, outcome <- x5

PartInit ==
    /\ part \in Parts
    /\ \/ part = "holds" /\ Init /\ x1 = Unused /\ x2 = Unused /\ x3 = Unused /\ x4 = Unused /\ Blank4
       \/ part = "shared_run" /\ Running!Init /\ Init
       \/ part = "foreign_run" /\ Guarding!Init /\ Init
       \/ part = "parked_runs" /\ Parking!Init /\ Init
       \/ part = "full_run" /\ Filling!Init /\ Init
       \/ part = "chat" /\ Relaying!Init /\ Blank9 /\ Init
       \/ part = "anthropic" /\ Streaming!Init /\ Blank9 /\ Init
       \/ part = "responses" /\ Responding!Init /\ Blank9 /\ Init
       \/ part = "request" /\ Serving!Init /\ Blank4 /\ Init
       \/ part = "budgets" /\ Sharing!Init /\ Blank4 /\ Init
       \/ part = "translation" /\ Translating!Init /\ Blank5 /\ Init
       \/ part = "refused" /\ Refusing!Init /\ Blank5 /\ Init

PartNext ==
    /\ UNCHANGED part
    /\ \/ part = "holds" /\ Next /\ UNCHANGED registers
       \/ part = "shared_run" /\ Running!Next /\ UNCHANGED vars
       \/ part = "foreign_run" /\ Guarding!Next /\ UNCHANGED vars
       \/ part = "parked_runs" /\ Parking!Next /\ UNCHANGED vars
       \/ part = "full_run" /\ Filling!Next /\ UNCHANGED vars
       \/ part = "chat" /\ Relaying!Next /\ UNCHANGED <<Rest9, vars>>
       \/ part = "anthropic" /\ Streaming!Next /\ UNCHANGED <<Rest9, vars>>
       \/ part = "responses" /\ Responding!Next /\ UNCHANGED <<Rest9, vars>>
       \/ part = "request" /\ Serving!Next /\ UNCHANGED <<Rest4, vars>>
       \/ part = "budgets" /\ Sharing!Next /\ UNCHANGED <<Rest4, vars>>
       \/ part = "translation" /\ Translating!Next /\ UNCHANGED <<Rest5, vars>>
       \/ part = "refused" /\ Refusing!Next /\ UNCHANGED <<Rest5, vars>>

everything == <<part, registers, vars>>
PartSpec == PartInit /\ [][PartNext]_everything

---------------------------------------------------------------------------
\* A parked Cursor run is driven by one caller of its own scope, indexed and counted
\* exactly, and always about to expire (cursor_store.go).
RunsSound ==
    /\ part = "shared_run" => Running!RunsSound
    /\ part = "foreign_run" => Guarding!RunsSound
    /\ part = "parked_runs" => Parking!RunsSound
    /\ part = "full_run" => Filling!RunsSound

\* However many attempts are relayed, the client reads one turn (relay_stream.go).
OneTurn ==
    /\ part = "chat" => Relaying!OneTurn
    /\ part = "anthropic" => Streaming!OneTurn
    /\ part = "responses" => Responding!OneTurn

\* A stream is booked as what the client read (relay_stream.go).
BookedAsRead ==
    /\ part = "chat" => Relaying!BookedAsRead
    /\ part = "anthropic" => Streaming!BookedAsRead
    /\ part = "responses" => Responding!BookedAsRead

\* A request is answered and recorded once, and every budget is exactly what the
\* requests hold (proxy.go, sse_keepalive.go, inflight.go).
RequestSound ==
    /\ part = "request" => (Serving!AnsweredOnce /\ Serving!BudgetsExact)
    /\ part = "budgets" => (Sharing!AnsweredOnce /\ Sharing!BudgetsExact)

\* A translated stream is well formed, ends once and says everything once and in order
\* (translate.go, responses_apply.go).
TranslationSound ==
    /\ part = "translation" => (Translating!WellFormed /\ Translating!Settled /\ Translating!Exact)
    /\ part = "refused" => (Refusing!WellFormed /\ Refusing!Settled /\ Refusing!Exact)

=============================================================================
