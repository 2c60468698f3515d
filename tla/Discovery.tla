------------------------------ MODULE Discovery ------------------------------
(***************************************************************************)
(* Token refresh and model discovery: internal/proxy/tokenrefresh.go,      *)
(* models.go, serveCursorModels of cursor_bidi.go, format/models.go.       *)
(*                                                                         *)
(* A request whose access token is about to expire exchanges its refresh   *)
(* token first; concurrent requests with the same refresh token, format    *)
(* and base URL share one exchange.  An inference request is then answered *)
(* with the fresh tokens, a discovery goes on with them: it reads pages of *)
(* the upstream's list under one budget of pages, bytes and entries of its *)
(* own, and under the process's budget of response buffers.                *)
(***************************************************************************)
EXTENDS Naturals, Sequences, FiniteSets, FiniteSetsExt

CONSTANTS
    Requests, Inference,    \* the requests; those that are not discoveries
    Refreshes,              \* [Requests -> refresh token], None when it sends none
    None, Tokens,
    Expiring,               \* the requests whose key is an expiring JWT
    Format, BaseURL,        \* of each request: "openai", "anthropic" or "cursor"; its upstream
    Enriched,               \* the provider configures a metadata endpoint
    Answers,                \* [kind, n, members, size, declared, next]: what the upstream may send
    PagesMax, BytesMax, EntriesMax, ResponseLimit,
    MaxExchanges

VARIABLES
    req,                    \* each request's own state
    flights,                \* the exchanges begun: [key, token, stage, ok]
    current,                \* tokenRefreshCoalescer.m: key -> its flight, 0 if none
    good,                   \* the refresh tokens the provider still accepts
    bytes                   \* respBudget.bytes

vars == <<req, flights, current, good, bytes>>

\* tokenRefreshKey.
tokenRefreshKey(r) == <<Format[r], BaseURL[r], Refreshes[r]>>
Keys == {tokenRefreshKey(r) : r \in Requests}

Idle == [pc |-> "new", flight |-> 0, fresh |-> FALSE, pages |-> PagesMax, left |-> BytesMax,
         entries |-> EntriesMax, list |-> 0, whole |-> FALSE, seen |-> {}, held |-> 0, want |-> 0,
         page |-> None, extra |-> FALSE, answer |-> None]

Init ==
    /\ req = [r \in Requests |-> Idle]
    /\ flights = <<>> /\ current = [k \in Keys |-> 0]
    /\ good = Tokens /\ bytes = 0

Set(r, d) == req' = [req EXCEPT ![r] = d]

---------------------------------------------------------------------------
(* The refresh.                                                            *)

\* refreshKeyIfExpired: an unexpiring key, or none to refresh with, passes through.
Refreshing(r) == r \in Expiring /\ Refreshes[r] # None

Proceeds(r, d) == [d EXCEPT !.pc = IF r \in Inference THEN "send" ELSE "fetch"]

PassThrough(r) ==
    /\ req[r].pc = "new" /\ ~Refreshing(r)
    /\ Set(r, Proceeds(r, req[r]))
    /\ UNCHANGED <<flights, current, good, bytes>>

\* do: the first caller leads, the others join the flight in the map.
Join(r) ==
    /\ req[r].pc = "new" /\ Refreshing(r) /\ current[tokenRefreshKey(r)] # 0
    /\ Set(r, [req[r] EXCEPT !.pc = "wait", !.flight = current[tokenRefreshKey(r)]])
    /\ UNCHANGED <<flights, current, good, bytes>>

Lead(r) ==
    /\ req[r].pc = "new" /\ Refreshing(r) /\ current[tokenRefreshKey(r)] = 0
    /\ Len(flights) < MaxExchanges
    /\ flights' = Append(flights, [key |-> tokenRefreshKey(r), token |-> Refreshes[r],
                                   stage |-> "asked", ok |-> FALSE])
    /\ current' = [current EXCEPT ![tokenRefreshKey(r)] = Len(flights')]
    /\ Set(r, [req[r] EXCEPT !.pc = "lead", !.flight = Len(flights')])
    /\ UNCHANGED <<good, bytes>>

\* exchangeToken on the detached context: the provider grants a token it accepts, and
\* may rotate it; anything else is a failed exchange.
exchangeToken(f) ==
    /\ flights[f].stage = "asked"
    /\ \E ok, rotates \in BOOLEAN :
          /\ ok => flights[f].token \in good
          /\ rotates => ok
          /\ flights' = [flights EXCEPT ![f].stage = "answered", ![f].ok = ok]
          /\ good' = IF rotates THEN good \ {flights[f].token} ELSE good
    /\ UNCHANGED <<req, current, bytes>>

\* The entry is deleted before done closes.
DeleteFlight(f) ==
    /\ flights[f].stage = "answered"
    /\ flights' = [flights EXCEPT ![f].stage = "deleted"]
    /\ current' = [current EXCEPT ![flights[f].key] = 0]
    /\ UNCHANGED <<req, good, bytes>>

CloseFlight(f) ==
    /\ flights[f].stage = "deleted"
    /\ flights' = [flights EXCEPT ![f].stage = "closed"]
    /\ UNCHANGED <<req, current, good, bytes>>

\* resolveKey hands the fresh tokens back instead of sending inference;
\* resolveKeyTransparent goes on with them.
Resolved(r, d, ok) ==
    CASE ~ok -> Proceeds(r, d)
      [] r \in Inference -> [d EXCEPT !.pc = "done", !.fresh = TRUE, !.answer = "handback"]
      [] OTHER -> Proceeds(r, [d EXCEPT !.fresh = TRUE])

FlightReturns(r) ==
    /\ req[r].pc \in {"lead", "wait"} /\ flights[req[r].flight].stage = "closed"
    /\ Set(r, Resolved(r, req[r], flights[req[r].flight].ok))
    /\ UNCHANGED <<flights, current, good, bytes>>

\* A waiter's own context ends: the original key goes upstream.
WaitEnds(r) ==
    /\ req[r].pc = "wait" /\ Set(r, Resolved(r, req[r], FALSE))
    /\ UNCHANGED <<flights, current, good, bytes>>

Inferred(r) ==
    /\ req[r].pc = "send" /\ Set(r, [req[r] EXCEPT !.pc = "done", !.answer = "sent"])
    /\ UNCHANGED <<flights, current, good, bytes>>

---------------------------------------------------------------------------
(* Discovery.                                                              *)

\* serveModels returns: releaseResponseBuffer, deferred.
Answered(r, d, a) ==
    /\ bytes' = bytes - d.held
    /\ Set(r, [d EXCEPT !.pc = "done", !.answer = a, !.held = 0])
    /\ UNCHANGED <<flights, current, good>>

\* A failed enrichment degrades to the base list; a failed page is an error.
Fails(r, d, why) ==
    IF d.extra THEN /\ Set(r, [d EXCEPT !.pc = "emit"]) /\ UNCHANGED <<flights, current, good, bytes>>
    ELSE Answered(r, d, why)

\* What the upstream may send: an envelope is told from its list by unwrapEntries only,
\* the pages of the other formats by decoders of their own.
Bodies(r) == {a \in Answers : a.kind = "envelope" => Format[r] = "openai" \/ req[r].extra}

\* MutantForgetsPage: the previous page's reservation is not released first.
MutantForgetsPage(r) ==
    LET d == req[r] IN
    /\ d.pc = "fetch"
    /\ IF d.pages = 0 \/ d.left = 0 THEN Fails(r, d, "limit")
       ELSE /\ \E a \in Bodies(r) :
                  Set(r, [d EXCEPT !.pc = "reserve", !.page = a, !.pages = @ - 1, !.held = 0,
                                   !.want = IF a.declared /\ a.size <= d.left + 1 THEN a.size
                                            ELSE d.left + 1])
            /\ UNCHANGED <<flights, current, good, bytes>>

\* fetchModelsResponse, up to the response's headers.
fetchModelsResponse(r) ==
    LET d == req[r]
        off == [d EXCEPT !.held = 0, !.pages = @ - 1]
    IN  /\ d.pc = "fetch"
        /\ IF d.pages = 0 \/ d.left = 0 THEN Fails(r, d, "limit")
           ELSE /\ bytes' = bytes - d.held
                /\ UNCHANGED <<flights, current, good>>
                /\ \/ Set(r, [off EXCEPT !.pc = "down"])
                   \/ \E a \in Bodies(r) :
                        Set(r, [off EXCEPT !.pc = "reserve", !.page = a,
                                           !.want = IF a.declared /\ a.size <= d.left + 1 THEN a.size
                                                    ELSE d.left + 1])

UpstreamDown(r) == req[r].pc = "down" /\ Fails(r, req[r], "error")

\* acquire adds before it looks at the limit, and takes a refusal back afterwards.
acquire(r) ==
    LET d == req[r]
        fits == ResponseLimit = 0 \/ bytes + d.want <= ResponseLimit
    IN  /\ d.pc = "reserve"
        /\ bytes' = bytes + d.want
        /\ Set(r, [d EXCEPT !.pc = IF fits THEN "read" ELSE "refused", !.held = d.want])
        /\ UNCHANGED <<flights, current, good>>

Refused(r) ==
    LET d == [req[r] EXCEPT !.held = 0] IN
    /\ req[r].pc = "refused"
    /\ bytes' = bytes - req[r].held
    /\ Set(r, [d EXCEPT !.pc = IF d.extra THEN "emit" ELSE "done",
                        !.answer = IF d.extra THEN None ELSE "unavailable"])
    /\ UNCHANGED <<flights, current, good>>

\* The body, up to one byte past what is left; then the status.
readWholeDocument(r) ==
    LET d == req[r]
        a == d.page
        n == IF a.size > d.left THEN d.left + 1 ELSE a.size
        read == [d EXCEPT !.left = IF n > d.left THEN 0 ELSE @ - n]
    IN  /\ d.pc = "read"
        /\ IF n > d.left \/ a.kind \in {"broken", "status"} THEN Fails(r, read, "error")
           ELSE /\ Set(r, [read EXCEPT !.pc = "decode"])
                /\ UNCHANGED <<flights, current, good, bytes>>

\* selectModelArray: of an envelope every requested member must be an array, null being
\* absent and the last of a repeated member counting; the first requested one is the list.
\* The number of its entries, as a set of at most one.
selectModelArray(a, keys) ==
    LET named(k) == {i \in DOMAIN a.members : a.members[i].key = k}
        value(k) == a.members[Max(named(k))]
        present == {j \in DOMAIN keys : named(keys[j]) # {} /\ value(keys[j]).holds # "null"}
    IN  CASE a.kind = "list" -> {a.n}
          [] a.kind = "envelope" ->
               IF present = {} \/ \E j \in present : value(keys[j]).holds # "array" THEN {}
               ELSE {value(keys[Min(present)]).n}
          [] a.kind \notin {"list", "envelope"} -> {}

\* checkModelArrayCount: the entries are counted, with those collected, before they are decoded.
checkModelArrayCount(d, n) == d.list + n <= d.entries

\* unwrapEntries, TranslateAnthropicModels, ParseGetUsableModelsResponse.
unwrapEntries(d, a, keys) ==
    LET found == selectModelArray(a, keys) IN
    CASE found = {} -> [as |-> "foreign", n |-> 0]
      [] found # {} -> [as |-> IF checkModelArrayCount(d, Max(found)) THEN "entries" ELSE "limit",
                        n |-> Max(found)]

\* serveAnthropicModels: only anthropic's page is one of several.
Decode(r) ==
    LET d == req[r]
        a == d.page
        more == Format[r] = "anthropic" /\ a.next # None
        found == unwrapEntries(d, a, <<"data">>)
        got == [d EXCEPT !.list = @ + found.n, !.whole = ~more]
    IN  /\ d.pc = "decode" /\ ~d.extra
        /\ CASE found.as = "foreign" -> Answered(r, d, IF Format[r] = "openai" THEN "verbatim" ELSE "error")
             [] found.as = "limit" -> Answered(r, d, "limit")
             [] found.as = "entries" ->
                  IF more /\ a.next \in d.seen THEN Answered(r, got, "error")
                  ELSE /\ Set(r, [got EXCEPT !.pc = IF more THEN "fetch" ELSE "enrich",
                                             !.seen = IF more THEN @ \union {a.next} ELSE @])
                       /\ UNCHANGED <<flights, current, good, bytes>>

\* emitModelsList charges the entries; enrichModelEntries may fetch once more.
enrichModelEntries(r) ==
    LET d == [req[r] EXCEPT !.entries = @ - req[r].list] IN
    /\ req[r].pc = "enrich"
    /\ Set(r, IF Enriched /\ d.list > 0 THEN [d EXCEPT !.pc = "fetch", !.extra = TRUE]
              ELSE [d EXCEPT !.pc = "emit"])
    /\ UNCHANGED <<flights, current, good, bytes>>

\* The metadata's own entries are charged to what is left of the same budget.
DecodeExtra(r) ==
    LET d == req[r]
        found == unwrapEntries([d EXCEPT !.list = 0], d.page, <<"data", "models">>)
    IN  /\ d.pc = "decode" /\ d.extra
        /\ Set(r, [d EXCEPT !.pc = "emit", !.entries = IF found.as = "entries" THEN @ - found.n ELSE @])
        /\ UNCHANGED <<flights, current, good, bytes>>

\* normalizeModelEntries and ModelsListJSON: rendered whole, or refused as too large.
ModelsListJSON(r) ==
    /\ req[r].pc = "emit"
    /\ \E fits \in BOOLEAN : Answered(r, req[r], IF fits THEN "list" ELSE "error")

\* The discovery deadline or the client's departure ends the request where it waits
\* for the upstream.
ContextEnds(r) ==
    /\ req[r].pc \in {"fetch", "down", "reserve", "read", "enrich"}
    /\ Fails(r, req[r], "error")

Done == (\A r \in Requests : req[r].pc = "done") /\ UNCHANGED vars

Step(r) ==
    \/ PassThrough(r) \/ Join(r) \/ Lead(r) \/ FlightReturns(r) \/ WaitEnds(r) \/ Inferred(r)
    \/ fetchModelsResponse(r) \/ UpstreamDown(r) \/ acquire(r) \/ Refused(r)
    \/ readWholeDocument(r) \/ Decode(r) \/ enrichModelEntries(r) \/ DecodeExtra(r)
    \/ ModelsListJSON(r) \/ ContextEnds(r)

Flight(f) == exchangeToken(f) \/ DeleteFlight(f) \/ CloseFlight(f)

Next ==
    \/ \E r \in Requests : Step(r)
    \/ \E f \in DOMAIN flights : Flight(f)
    \/ Done

Spec == Init /\ [][Next]_vars

---------------------------------------------------------------------------
(* Properties.                                                             *)

\* A refresh token is never sent twice at once to one base URL in one format: a second
\* exchange of a rotating token would lose the pair the first was given
\* (tokenRefreshCoalescer.do).  Over two base URLs or formats it may be: the key
\* holds both.
OneExchange ==
    \A f, g \in DOMAIN flights :
        (f # g /\ flights[f].key = flights[g].key) => flights[f].stage # "asked" \/ flights[g].stage # "asked"

\* A caller never gets the result of an exchange that had ended before it came: what
\* a request waits on is still answered to someone now.
NoCachedTokens ==
    \A k \in Keys : current[k] # 0 =>
        /\ flights[current[k]].key = k
        /\ flights[current[k]].stage \in {"asked", "answered"}

\* The process's response budget is what the discoveries hold, and a finished one
\* holds nothing; those that read stay within the limit.
ReservationsExact ==
    LET held(rs) == MapThenSumSet(LAMBDA r : req[r].held, rs) IN
    /\ bytes = held(Requests)
    /\ \A r \in Requests : req[r].pc = "done" => req[r].held = 0
    /\ ResponseLimit > 0 => held({r \in Requests : req[r].pc # "refused"}) <= ResponseLimit

\* A served list is the upstream's whole list within the request's budgets, or none.
ListWhole ==
    \A r \in Requests :
        /\ req[r].answer = "list" => req[r].whole /\ req[r].list <= EntriesMax
        /\ Cardinality(req[r].seen) <= PagesMax

DiscoverySound == OneExchange /\ NoCachedTokens /\ ReservationsExact /\ ListWhole
=============================================================================
