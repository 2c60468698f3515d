------------------------------ MODULE Request ------------------------------
(***************************************************************************)
(* One request from its arrival to its record (internal/proxy: proxy.go    *)
(* ServeHTTP, sse_keepalive.go, inflight.go, relay_serve.go                *)
(* serveNonStreaming, relay_nonstream.go).                                 *)
(*                                                                         *)
(* Requests share two byte budgets and a request limit, each a counter     *)
(* that is raised first and compared after.  A streaming request has a     *)
(* pacer: a ticker beside the handler that writes comments while the       *)
(* handler waits, and that commits the status line when the request is     *)
(* parked, before anyone knows what the upstream will answer.  The gates   *)
(* and the send themselves are the subject of SendGate, StormGate and      *)
(* Admission, the body of a stream that of Relay: here they are what they  *)
(* return.  Cursor targets are the subject of CursorRuns.                  *)
(*                                                                         *)
(* A client may leave (its context is canceled once the server notices) or *)
(* stop reading (only a write that fails shows it).                        *)
(***************************************************************************)
EXTENDS Integers, FiniteSets, FiniteSetsExt

CONSTANTS
    Requests,
    Kinds,          \* [stream, translate] of the requests that may come
    Answers,        \* what the upstream may answer: [status, sse, body]
    RequestLimit, BodyLimit, ResponseLimit,     \* 0 is unlimited
    QualityRetries, ThinkingRetries,
    MaxReads        \* bound on the chunks of a request body

VARIABLES
    cur, bytes, resp,   \* the three process-wide counters
    req                 \* request -> its handler, pacer, connection and record

vars == <<cur, bytes, resp, req>>

---------------------------------------------------------------------------
(* The connection, as the client sees it.  mode is the content type the    *)
(* status line announced; garbled says the client was sent a document in   *)
(* an event stream, events in a document, or a comment inside a line.      *)

Connection == [status |-> "none", mode |-> "none", mid |-> FALSE, garbled |-> FALSE]

NoPacer == [on |-> FALSE, started |-> FALSE, sse |-> FALSE, modeSet |-> FALSE, stopped |-> FALSE]

Fresh ==
    [at |-> "idle", kind |-> [stream |-> FALSE, translate |-> FALSE], n |-> 0,
     charged |-> 0, reads |-> 0, reserved |-> 0, ans |-> [status |-> "200", sse |-> FALSE, body |-> "healthy"],
     quality |-> 0, thinking |-> 0, resent |-> FALSE,
     pacer |-> NoPacer, loop |-> "off", quiet |-> FALSE, wire |-> Connection,
     dead |-> "no", known |-> FALSE, canceled |-> FALSE, held |-> {},
     begun |-> FALSE, recorded |-> 0, status |-> "none", error |-> "none", disconnected |-> FALSE]

\* A status line goes out once; a later one is dropped by the server.
StatusLine(x, status, mode) ==
    IF x.wire.status # "none" \/ x.dead # "no" THEN x
    ELSE [x EXCEPT !.wire.status = status, !.wire.mode = mode]

Bytes(x, mode, mid) ==
    IF x.dead # "no" THEN x
    ELSE [x EXCEPT !.wire.mid = mid,
                   !.wire.garbled = @ \/ x.wire.mode # mode]

---------------------------------------------------------------------------
(* The pacer.                                                              *)

Pacing(x) == x.pacer.on

\* newSSEPacerFor and Arm: the ticker runs, nothing is committed.
Arm(x) == [x EXCEPT !.pacer = [NoPacer EXCEPT !.on = TRUE], !.loop = "idle", !.quiet = FALSE]

MutantGoneUnheard(x) == x

\* A failed keepalive proves that the client is gone: the request is canceled.
gone(x) == [x EXCEPT !.canceled = TRUE]

commitSSELocked(x) ==
    IF x.pacer.started \/ x.pacer.stopped \/ (x.pacer.modeSet /\ ~x.pacer.sse) THEN x
    ELSE [StatusLine(x, "200", "sse") EXCEPT
            !.pacer.started = TRUE, !.pacer.modeSet = TRUE, !.pacer.sse = TRUE, !.quiet = FALSE]

MutantMidLine(x, force) == x.pacer.sse /\ (force \/ x.quiet)

\* writeComment writes only in an event stream, at the start of a line, and, unless it
\* is forced, after a quiet interval; all three are read again under the lock.
Writes(x, force) == x.pacer.sse /\ ~x.wire.mid /\ (force \/ x.quiet)

writeComment(x, force) ==
    IF x.pacer.stopped THEN [ok |-> FALSE, x |-> x]
    ELSE IF ~Writes(x, force) THEN [ok |-> TRUE, x |-> x]
    ELSE [ok |-> x.dead = "no",
          x |-> [Bytes(x, "sse", FALSE) EXCEPT
                   !.quiet = FALSE, !.wire.garbled = @ \/ x.wire.mid]]

Commented(x, force) ==
    LET c == writeComment(x, force) IN IF c.ok THEN c.x ELSE gone(c.x)

\* Start: the request is known to wait, so the stream is committed with one comment,
\* unless its body was already found not to be one.
Start(x) ==
    IF ~Pacing(x) \/ x.pacer.stopped \/ (x.pacer.modeSet /\ ~x.pacer.sse) \/ x.pacer.started THEN x
    ELSE Commented(commitSSELocked(x), TRUE)

\* OnWait: the hook of every gate.
OnWait(x) == IF x.kind.stream THEN Start(x) ELSE x

Mode(sse) == IF sse THEN "sse" ELSE "doc"

\* applyUpstream records the body mode and leaves the status line open; it reports a
\* stream that the pacer committed already.
applyUpstream(x, sse) ==
    IF x.pacer.stopped \/ x.pacer.started THEN x
    ELSE [x EXCEPT !.pacer.sse = sse, !.pacer.modeSet = TRUE]

commitStatus(x, status) ==
    IF x.pacer.stopped \/ x.pacer.started THEN x
    ELSE [StatusLine(x, status, Mode(x.pacer.sse)) EXCEPT !.pacer.started = TRUE, !.quiet = FALSE]

\* applyStatus: an upstream status with its own type, while nothing is committed.
AppliesStatus(x) == Pacing(x) /\ ~x.pacer.stopped /\ ~x.pacer.started

applyStatus(x, status, sse) == commitStatus(applyUpstream(x, sse), status)

\* WriteHeader through the pacer, or straight to the server.
WriteHeader(x, status, sse) ==
    IF ~Pacing(x) THEN StatusLine(x, status, Mode(sse))
    ELSE IF x.pacer.started \/ x.pacer.stopped THEN x
    ELSE [StatusLine(x, status, Mode(sse)) EXCEPT
            !.pacer.started = TRUE, !.quiet = FALSE,
            !.pacer.sse = IF ~x.pacer.modeSet /\ status # "error" THEN TRUE ELSE @,
            !.pacer.modeSet = TRUE]

\* A write through the pacer commits the stream first, and fails once it is stopped.
Write(x, mode, mid) ==
    IF ~Pacing(x) THEN Bytes(x, mode, mid)
    ELSE IF x.pacer.stopped THEN x
    ELSE [Bytes(IF x.pacer.started THEN x ELSE commitSSELocked(x), mode, mid) EXCEPT !.quiet = FALSE]

---------------------------------------------------------------------------
(* The record, and the sinks of an error.                                  *)

markClientGone(x) ==
    [x EXCEPT !.disconnected = TRUE, !.status = IF @ = "error" THEN @ ELSE "499"]

Failed(x) == x.dead # "no"

Written(x) == IF Failed(x) THEN markClientGone(x) ELSE x

markStreamErr(x) ==
    IF x.canceled THEN markClientGone(x)
    ELSE IF x.disconnected THEN x ELSE [x EXCEPT !.error = "stream"]

\* writeProtocolStreamError: the error and the terminal of the client's protocol.
StreamError(x) == Written(Write(x, "sse", FALSE))

\* writeProtocolHTTPError: a status line and a document.
HTTPError(x) == Write(WriteHeader(x, "error", FALSE), "doc", FALSE)

\* commitError: a document while the status line is open, the in-band error once the
\* pacer committed the stream.
commitError(x) ==
    IF x.pacer.stopped THEN x
    ELSE IF x.pacer.sse THEN StreamError(x)
    ELSE IF x.pacer.started THEN x
    ELSE [Bytes(StatusLine(x, "error", "doc"), "doc", FALSE) EXCEPT
            !.pacer.started = TRUE, !.quiet = FALSE]

\* writeClientErrorHdr keeps a status and a type that were decided before.
writeClientError(x, type) ==
    LET y == [x EXCEPT !.status = IF @ = "none" THEN "error" ELSE @,
                       !.error = IF @ = "none" THEN type ELSE @]
    IN  IF Pacing(y) THEN commitError(y) ELSE HTTPError(y)

writeQueueDrainedError(x) ==
    writeClientError([x EXCEPT !.status = IF @ = "none" THEN "error" ELSE @, !.error = "drained"], "rate")

writeStormQueueError(x) ==
    writeClientError([x EXCEPT !.status = "error", !.error = "storm"], "rate")

\* writeTransportFailure: a drain, a storm rejection, or the upstream.
writeTransportFailure(x, why) ==
    IF why = "drained" THEN writeQueueDrainedError(x)
    ELSE IF why = "storm" THEN writeStormQueueError(x)
    ELSE writeClientError(x, "unreachable")

\* absorbResend: the same failures before any byte of a document was written.
ResendFailed(x, why) ==
    IF x.known THEN markClientGone(x)
    ELSE IF why = "drained" THEN writeQueueDrainedError(x)
    ELSE IF why = "storm" THEN writeStormQueueError(x)
    ELSE HTTPError([x EXCEPT !.status = "error", !.error = "unreachable"])

writeResponseBufferBudget(x) ==
    HTTPError([x EXCEPT !.status = "error", !.error = "budget"])

---------------------------------------------------------------------------
(* Admission to the process: the request limit and the body budget.        *)

At(r, at) == req[r].at = at
Becomes(r, x) == req' = [req EXCEPT ![r] = x]
Go(x, at) == [x EXCEPT !.at = at]

\* The first half of acquire: the counter is raised.
Arrive(r, kind) ==
    /\ At(r, "idle")
    /\ cur' = cur + 1
    /\ Becomes(r, [Fresh EXCEPT !.at = "counted", !.kind = kind, !.n = cur'])
    /\ UNCHANGED <<bytes, resp>>

Over(n, limit) == limit > 0 /\ n > limit

\* The second half: over the limit the slot is given back and the client told so.
acquire(r) ==
    /\ At(r, "counted")
    /\ IF Over(req[r].n, RequestLimit)
       THEN /\ cur' = cur - 1 /\ Becomes(r, Go(HTTPError(req[r]), "done"))
       ELSE /\ UNCHANGED cur /\ Becomes(r, Go(req[r], "reading"))
    /\ UNCHANGED <<bytes, resp>>

\* A rejection before the record exists: a bad target, session or throttle header, an
\* unreadable or oversized body, a refused token cap, key or translation.
Reject(r) ==
    /\ At(r, "reading")
    /\ Becomes(r, Go(HTTPError(req[r]), "release"))
    /\ UNCHANGED <<cur, bytes, resp>>

\* chargeRead raises the counter for a chunk that arrived ...
chargeRead(r) ==
    /\ At(r, "reading") /\ req[r].reads < MaxReads
    /\ bytes' = bytes + 1
    /\ Becomes(r, [req[r] EXCEPT !.at = "charging", !.n = bytes', !.reads = @ + 1])
    /\ UNCHANGED <<cur, resp>>

MutantKeepsCharge(r) ==
    /\ At(r, "charging")
    /\ IF Over(req[r].n, BodyLimit)
       THEN /\ UNCHANGED bytes /\ Becomes(r, Go(HTTPError(req[r]), "release"))
       ELSE /\ UNCHANGED bytes
            /\ Becomes(r, [req[r] EXCEPT !.at = "reading", !.charged = @ + 1])
    /\ UNCHANGED <<cur, resp>>

\* ... and backs out when it is over: the client is told to retry (or, past the cap
\* of one body, never to).
charge(r) ==
    /\ At(r, "charging")
    /\ IF Over(req[r].n, BodyLimit)
       THEN /\ bytes' = bytes - 1 /\ Becomes(r, Go(HTTPError(req[r]), "release"))
       ELSE /\ UNCHANGED bytes
            /\ Becomes(r, [req[r] EXCEPT !.at = "reading", !.charged = @ + 1])
    /\ UNCHANGED <<cur, resp>>

---------------------------------------------------------------------------
(* The handler, from the record to the answer.                             *)

\* The request is accepted: from here on it is announced, and its record is owed.
Begin(r) ==
    /\ At(r, "reading")
    /\ Becomes(r, [req[r] EXCEPT !.at = "begun", !.begun = TRUE,
                     !.quality = QualityRetries, !.thinking = ThinkingRetries])
    /\ UNCHANGED <<cur, bytes, resp>>

\* A malformed concurrency header is answered before the pacer exists; otherwise a
\* streaming request arms it.
Hooks(r) ==
    /\ At(r, "begun")
    /\ \/ Becomes(r, Go(writeClientError(req[r], "invalid"), "unwind"))
       \/ Becomes(r, Go(IF req[r].kind.stream THEN Arm(req[r]) ELSE req[r], "storm"))
    /\ UNCHANGED <<cur, bytes, resp>>

Waiting == {"storm", "queue", "send", "resend"}

\* Any gate may park the request: its OnWait hook runs.
Park(r) ==
    /\ req[r].at \in Waiting
    /\ OnWait(req[r]) # req[r]
    /\ Becomes(r, OnWait(req[r]))
    /\ UNCHANGED <<cur, bytes, resp>>

\* waitStormGate lets the request through, or rejects it.
waitStormGate(r) ==
    /\ At(r, "storm")
    /\ \/ Becomes(r, Go(req[r], "queue"))
       \/ ~req[r].canceled /\ Becomes(r, Go(writeStormQueueError(req[r]), "unwind"))
    /\ UNCHANGED <<cur, bytes, resp>>

\* AcquireWith grants a slot, is drained, or is full.
AcquireWith(r) ==
    /\ At(r, "queue")
    /\ \/ Becomes(r, [req[r] EXCEPT !.at = "send", !.held = {"slot"}])
       \/ /\ ~req[r].canceled
          /\ \/ Becomes(r, Go(writeQueueDrainedError(req[r]), "unwind"))
             \/ Becomes(r, Go(writeClientError([req[r] EXCEPT !.error = "full"], "rate"), "unwind"))
    /\ UNCHANGED <<cur, bytes, resp>>

\* What the record takes from a response as it arrives.
Answered(x, a) ==
    [x EXCEPT !.ans = a, !.status = IF a.status = "error" THEN "error" ELSE "200",
              !.error = IF a.status = "error" THEN "upstream" ELSE @,
              !.resent = x.at = "resend", !.at = IF x.at = "resend" THEN "nonstream" ELSE "answered"]

\* doWithRetry: the upstream answered, or the send failed for good.
doWithRetry(r) ==
    /\ req[r].at \in {"send", "resend"}
    /\ \/ \E a \in Answers : Becomes(r, Answered(req[r], a))
       \/ /\ ~req[r].canceled
          /\ \E why \in {"drained", "storm", "unreachable"} :
               Becomes(r, Go(IF At(r, "send") THEN writeTransportFailure(req[r], why)
                             ELSE ResendFailed(req[r], why), "unwind"))
    /\ UNCHANGED <<cur, bytes, resp>>

\* A wait whose context is canceled ends.  The first send asks the request's own
\* context, which the pacer cancels too; a re-send asks the connection's.
Canceled(r) ==
    /\ req[r].at \in Waiting /\ req[r].canceled
    /\ Becomes(r, Go(IF At(r, "resend") THEN ResendFailed(req[r], "unreachable")
                     ELSE markClientGone(req[r]), "unwind"))
    /\ UNCHANGED <<cur, bytes, resp>>

\* An answer that cannot be served under the stream the pacer committed is reported
\* inside it; the record keeps the status the client was sent.
CommittedError(x) ==
    Go(StreamError([x EXCEPT !.status = "200", !.error = "upstream"]), "unwind")

\* The answer of a streaming request, or one that is a stream, decides who owns the
\* status line.
Streaming(x) ==
    LET y == IF Pacing(x) THEN x ELSE Arm(x)
        a == x.ans
        sse == IF x.kind.translate THEN a.status = "200" ELSE a.sse
        already == y.pacer.started /\ y.pacer.sse
    IN  IF a.status = "accepted" /\ AppliesStatus(y) THEN Go(applyStatus(y, "ok", a.sse), "body")
        ELSE IF already THEN IF sse /\ a.status = "200" THEN Go(y, "stream") ELSE CommittedError(y)
        ELSE IF sse /\ a.status # "200"
             THEN Go(applyStatus(y, IF a.status = "error" THEN "error" ELSE "ok", sse), "body")
        ELSE IF sse THEN Go(commitStatus(applyUpstream(y, sse), "200"), "stream")
        ELSE Go(applyUpstream(y, sse), "nonstream")

Dispatch(r) ==
    /\ At(r, "answered")
    /\ Becomes(r, IF req[r].kind.stream \/ req[r].ans.sse THEN Streaming(req[r]) ELSE Go(req[r], "nonstream"))
    /\ UNCHANGED <<cur, bytes, resp>>

---------------------------------------------------------------------------
(* serveNonStreaming: the whole document is read before a byte is written. *)

Document(x, status) == Written(Write(WriteHeader(x, status, FALSE), "doc", FALSE))

\* Statuses that carry no completion are relayed as they are.
NotACompletion(r) ==
    /\ At(r, "nonstream")
    /\ LET x == req[r] IN
       \/ /\ x.ans.status = "error"
          /\ Becomes(r, IF x.kind.translate THEN Go(Document(x, "error"), "unwind")
                        ELSE Go(WriteHeader(x, "error", x.ans.sse), "body"))
       \/ /\ x.ans.status = "accepted"
          /\ Becomes(r, IF AppliesStatus(x) THEN Go(applyStatus(x, "ok", x.ans.sse), "body")
                        ELSE IF Pacing(x) /\ x.pacer.started THEN CommittedError(x)
                        ELSE Go(WriteHeader(x, "ok", x.ans.sse), "body"))
    /\ UNCHANGED <<cur, bytes, resp>>

\* The response budget is raised, then compared, before the first read.
Reserve(r) ==
    /\ At(r, "nonstream") /\ req[r].ans.status \notin {"error", "accepted"}
    /\ resp' = resp + 1
    /\ Becomes(r, [req[r] EXCEPT !.at = "reserving", !.n = resp'])
    /\ UNCHANGED <<cur, bytes>>

Reserved(r) ==
    /\ At(r, "reserving")
    /\ IF Over(req[r].n, ResponseLimit)
       THEN /\ resp' = resp - 1 /\ Becomes(r, Go(writeResponseBufferBudget(req[r]), "unwind"))
       ELSE /\ UNCHANGED resp /\ Becomes(r, [req[r] EXCEPT !.at = "spooling", !.reserved = 1])
    /\ UNCHANGED <<cur, bytes>>

\* A translated document: unreadable, too large or an error is a failure of its own.
Translated(x) ==
    CASE x.ans.body = "broken" ->
           LET y == markStreamErr(x) IN
           IF y.disconnected THEN y ELSE HTTPError([y EXCEPT !.status = "error"])
      [] x.ans.body \in {"over", "fatal", "retryable"} ->
           HTTPError([x EXCEPT !.status = "error", !.error = "upstream"])
      [] OTHER -> Document(x, x.ans.status)

\* A spooled document: an in-band error and a degenerate answer are sent again while
\* their budget lasts, before anything was written; an exhausted budget is a failure.
Budget(x) == IF x.ans.body = "thinking" THEN x.thinking ELSE x.quality

Resends(x) == x.ans.body \in {"retryable", "void", "thinking"} /\ Budget(x) > 0

Absorbed(x) ==
    IF x.ans.body = "thinking" THEN [x EXCEPT !.thinking = @ - 1, !.at = "resend"]
    ELSE [x EXCEPT !.quality = @ - 1, !.at = "resend"]

Spooled(x) ==
    CASE x.ans.body = "broken" ->
           IF x.canceled THEN markClientGone(x)
           ELSE writeClientError([markStreamErr(x) EXCEPT !.status = "error"], "stream")
      [] x.ans.body \in {"void", "thinking"} ->
           HTTPError([x EXCEPT !.status = "error", !.error = "degenerate"])
      [] OTHER ->
           LET y == Written(Write(WriteHeader(x, x.ans.status, x.ans.sse), Mode(x.ans.sse), FALSE))
           IN  IF x.ans.body \in {"fatal", "retryable"} THEN [y EXCEPT !.error = "upstream"] ELSE y

\* The reservation is given back with the document, before a re-send; a document past
\* the cap streams through and keeps it.
serveNonStreaming(r) ==
    /\ At(r, "spooling")
    /\ LET x == req[r] IN
       IF ~x.kind.translate /\ x.ans.body = "over"
       THEN /\ Becomes(r, Go(WriteHeader(x, x.ans.status, x.ans.sse), "body"))
            /\ UNCHANGED resp
       ELSE /\ resp' = resp - 1
            /\ Becomes(r, [(IF x.kind.translate THEN Go(Translated(x), "unwind")
                            ELSE IF Resends(x) THEN Absorbed(x)
                            ELSE Go(Spooled(x), "unwind")) EXCEPT !.reserved = 0])
    /\ UNCHANGED <<cur, bytes>>

---------------------------------------------------------------------------
(* Bodies that stream through, and the end of the handler.                 *)

BodyMode(x) == IF x.at = "stream" THEN "sse" ELSE Mode(x.ans.sse)

\* A chunk may end inside a line; a failed write ends the relay.
RelayChunk(r, mid) ==
    /\ req[r].at \in {"body", "stream"}
    /\ LET x == req[r] IN
       IF Failed(x) THEN /\ resp' = resp - x.reserved
                         /\ Becomes(r, [markClientGone(x) EXCEPT !.at = "unwind", !.reserved = 0])
       ELSE Becomes(r, Write(x, BodyMode(x), mid)) /\ UNCHANGED resp
    /\ UNCHANGED <<cur, bytes>>

\* The upstream's body ends, breaks off, or (in a stream) ends in an error the relay
\* reports on a line of its own.
RelayEnd(r) ==
    /\ req[r].at \in {"body", "stream"}
    /\ LET x == req[r]
           End(y) == Becomes(r, [y EXCEPT !.at = "unwind", !.reserved = 0])
       IN  /\ \/ End(x)
              \/ End(markStreamErr(x))
              \/ At(r, "stream") /\ End(StreamError([x EXCEPT !.error = "upstream"]))
           /\ resp' = resp - x.reserved
    /\ UNCHANGED <<cur, bytes>>

\* The deferred calls, last first: the slot is released and the pacer told to stop ...
Unwind(r) ==
    /\ At(r, "unwind")
    /\ Becomes(r, [req[r] EXCEPT !.at = "stopping", !.held = {},
                     !.pacer.stopped = Pacing(req[r])])
    /\ UNCHANGED <<cur, bytes, resp>>

\* ... and waited for; the record is written ...
Record(r) ==
    /\ At(r, "stopping") /\ req[r].loop \in {"off", "done"}
    /\ Becomes(r, [req[r] EXCEPT !.at = "release", !.canceled = TRUE, !.recorded = @ + 1])
    /\ UNCHANGED <<cur, bytes, resp>>

\* ... and the request's share of the limits is given back.
release(r) ==
    /\ At(r, "release")
    /\ cur' = cur - 1 /\ bytes' = bytes - req[r].charged
    /\ Becomes(r, [req[r] EXCEPT !.at = "done", !.charged = 0])
    /\ UNCHANGED resp

---------------------------------------------------------------------------
(* Beside the handler: the ticker and the client.                          *)

\* A tick reads the flags under the lock, and writes after it: an interval without a
\* write must have passed.
Tick(r) ==
    /\ req[r].loop = "idle" /\ ~req[r].pacer.stopped
    /\ LET x == req[r] IN
       Becomes(r, IF ~x.quiet THEN [x EXCEPT !.quiet = TRUE]
                  ELSE IF x.pacer.started /\ x.pacer.sse THEN [x EXCEPT !.loop = "saw"] ELSE x)
    /\ req'[r] # req[r]
    /\ UNCHANGED <<cur, bytes, resp>>

\* A comment that could not be written ends the ticker and cancels the request.
Comment(r) ==
    /\ req[r].loop = "saw"
    /\ LET c == writeComment(req[r], FALSE) IN
       Becomes(r, IF c.ok THEN [c.x EXCEPT !.loop = "idle"] ELSE [gone(c.x) EXCEPT !.loop = "done"])
    /\ UNCHANGED <<cur, bytes, resp>>

LoopEnds(r) ==
    /\ req[r].loop = "idle" /\ req[r].pacer.stopped
    /\ Becomes(r, [req[r] EXCEPT !.loop = "done"])
    /\ UNCHANGED <<cur, bytes, resp>>

Serving(r) == req[r].at \notin {"idle", "counted", "reading", "charging", "stopping", "release", "done"}

\* The client leaves, or stops reading; only a paced write has a deadline of its own.
Leave(r, how) ==
    /\ Serving(r) /\ req[r].dead = "no"
    /\ how = "stalled" => Pacing(req[r])
    /\ Becomes(r, [req[r] EXCEPT !.dead = how])
    /\ UNCHANGED <<cur, bytes, resp>>

\* The server notices a connection that closed and cancels its context.
Notice(r) ==
    /\ Serving(r) /\ req[r].dead = "left" /\ ~req[r].known
    /\ Becomes(r, [req[r] EXCEPT !.known = TRUE, !.canceled = TRUE])
    /\ UNCHANGED <<cur, bytes, resp>>

---------------------------------------------------------------------------

Init ==
    /\ cur = 0 /\ bytes = 0 /\ resp = 0
    /\ req = [r \in Requests |-> Fresh]

Handler(r) ==
    \/ acquire(r) \/ Reject(r) \/ chargeRead(r) \/ charge(r) \/ Begin(r) \/ Hooks(r)
    \/ waitStormGate(r) \/ AcquireWith(r) \/ doWithRetry(r) \/ Park(r)
    \/ Dispatch(r) \/ NotACompletion(r) \/ Reserve(r) \/ Reserved(r) \/ serveNonStreaming(r)
    \/ (\E mid \in BOOLEAN : RelayChunk(r, mid)) \/ RelayEnd(r)

\* What happens on its own, whatever the upstream and the gates do.
Own(r) == Canceled(r) \/ Unwind(r) \/ Record(r) \/ release(r) \/ Tick(r) \/ Comment(r) \/ LoopEnds(r) \/ Notice(r)

AllDone == (\A r \in Requests : At(r, "done")) /\ UNCHANGED vars

Next ==
    \/ \E r \in Requests :
         \/ \E k \in Kinds : Arrive(r, k)
         \/ Handler(r) \/ Own(r)
         \/ \E how \in {"left", "stalled"} : Leave(r, how)
    \/ AllDone

Spec == Init /\ [][Next]_vars

\* The ticker, the server and the end of the handler run; nothing is assumed of the
\* upstream, the gates or the client.
Fairness == \A r \in Requests : WF_vars(Canceled(r) \/ Unwind(r) \/ Record(r) \/ release(r))
                             /\ WF_vars(Tick(r) \/ Comment(r) \/ LoopEnds(r)) /\ WF_vars(Notice(r))

FairSpec == Spec /\ Fairness

---------------------------------------------------------------------------
(* Properties.                                                             *)

TypeOK ==
    /\ cur \in Int /\ bytes \in Int /\ resp \in Int
    /\ \A r \in Requests :
         /\ req[r].dead \in {"no", "left", "stalled"} /\ req[r].reserved \in 0..1
         /\ req[r].status \in {"none", "200", "error", "499"}
         /\ req[r].loop \in {"off", "idle", "saw", "done"}

\* ServeHTTP, ssePacer and the deferred finalizer: however the ticker's commit, the
\* waits, the answer and the client's departure interleave, a client is sent one kind of body under the
\* status line that announced it, with no comment inside a line; a request that was
\* announced is recorded once, after its ticker ended and its slot was given back, and
\* a client that stayed was answered.  The record calls it disconnected only if the
\* client is gone, and an error when the client was sent an error status (a drained
\* re-send excepted: DrainedIsRecorded).
AnsweredOnce ==
    \A r \in Requests :
        LET x == req[r] IN
        /\ ~x.wire.garbled
        /\ x.recorded = (IF x.begun /\ x.at \in {"release", "done"} THEN 1 ELSE 0)
        /\ x.recorded > 0 =>
             /\ x.loop \in {"off", "done"} /\ x.held = {}
             /\ x.dead = "no" => x.wire.status # "none" /\ ~x.disconnected
             /\ x.dead = "no" /\ x.wire.status = "error" => x.status = "error" \/ x.error = "drained"
             /\ x.status = "error" => x.error # "none"
             /\ x.status = "499" => x.disconnected

Charging(r) == IF At(r, "charging") THEN 1 ELSE 0
Reserving(r) == IF At(r, "reserving") THEN 1 ELSE 0
Admitted(r) == req[r].at \notin {"idle", "counted", "done"}

\* inflightLimiter and responseBufferBudget: each counter is exactly what the requests
\* hold plus what they are about to compare, so nothing leaks on any path out; and
\* however the raises and the comparisons interleave, the requests let in, the body
\* bytes kept and the documents buffered stay within their limits.
BudgetsExact ==
    LET Charged(r) == req[r].charged
        Spool(r) == req[r].reserved
        Total(F(_)) == MapThenSumSet(F, Requests)
    IN  /\ cur = Cardinality({r \in Requests : req[r].at \notin {"idle", "done"}})
        /\ bytes = Total(Charged) + Total(Charging)
        /\ resp = Total(Spool) + Total(Reserving)
        /\ RequestLimit > 0 => Cardinality({r \in Requests : Admitted(r)}) <= RequestLimit
        /\ BodyLimit > 0 => Total(Charged) <= BodyLimit
        /\ ResponseLimit > 0 => Total(Spool) <= ResponseLimit

\* ssePacer.gone: a request that is parked at a gate, and whose client has left or has
\* stopped reading the stream it was parked on, gives its place up, although neither
\* the gate nor the upstream ever answers.
Unheard(r) ==
    \/ req[r].dead = "left"
    \/ req[r].dead = "stalled" /\ req[r].pacer.started /\ req[r].pacer.sse
NotParkedUnheard(r) == ~(req[r].at \in Waiting /\ Unheard(r))
ParkedLeaverUnwinds == \A r \in Requests : []<>NotParkedUnheard(r)

\* TestQueueDrainedResponseIsRetryable (tests/_go/internal/proxy/queue_drain.go): "record =
\* %d/%q, want 503/queue_drained".  A request that an operator's drain releases is
\* recorded with the status its client was sent.
DrainedIsRecorded ==
    \A r \in Requests :
        req[r].recorded > 0 /\ req[r].error = "drained" /\ ~req[r].disconnected => req[r].status = "error"
=============================================================================
