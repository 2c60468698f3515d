---------------------------- MODULE MCStormGate ----------------------------
(***************************************************************************)
(* The gates of one provider with three models, room for the scopes of two *)
(* and for two in the queue.  A behaviour takes one of four parts: two     *)
(* requests of one model retry, so that a storm, the quota gate and their  *)
(* probes overlap; three requests of two models fail apart or together;    *)
(* reloads switch facets on and off under parked and sent requests of all  *)
(* models; a reload makes the queue smaller than it is.  Each part only    *)
(* leaves steps of Next out.                                               *)
(***************************************************************************)
EXTENDS StormGate

CONSTANTS r1, r2, r3, r4, m1, m2, m3, p

VARIABLE part

\* r2 and r3 ask for the same model.
Split == [r \in Requests |-> CASE r = r1 -> m1 [] r = r4 -> m3 [] OTHER -> m2]

Armed == [enabled |-> TRUE, provider |-> TRUE, model |-> TRUE, quota |-> TRUE,
          maxQueue |-> 2, maxScopes |-> 3]
ModelStorms == [Armed EXCEPT !.provider = FALSE, !.quota = FALSE, !.maxScopes = 2]
QuotaOnly == [Armed EXCEPT !.enabled = FALSE]
Off == [QuotaOnly EXCEPT !.quota = FALSE]
\* The smallest limits that the configuration allows are 1 and 2.
Tight == [Armed EXCEPT !.maxQueue = 1]
AllPolicies == {Armed, ModelStorms, QuotaOnly, Off, Tight}

Absent(S) == \A r \in S : pc'[r] = pc[r]
\* At most n sends of r, and no retry after the last.
Sends(r, n) == attempts[r] < n \/ pc'[r] \in {"upstream", "done"}
Once == \A r \in Requests : Sends(r, 1)
Short == \A s \in Scopes : cooldown'[s] <= 1

Retries == opts' = Armed /\ generation' = 1 /\ Absent({r1, r4}) /\ Sends(r2, 2) /\ Sends(r3, 2)
Outages == opts' = Armed /\ generation' = 1 /\ Absent({r4}) /\ quota' = {} /\ Short
           /\ Sends(r1, 2) /\ Sends(r2, 1) /\ Sends(r3, 1)
Reloads == opts' # Tight /\ Absent({r2}) /\ Once /\ Short /\ releases' = 0
\* One opens the gate, two wait, and behind the reload another opens it again.
Shrinks == opts' \in {Armed, Tight} /\ quota' = {} /\ Once /\ Short
           /\ (\A r \in {r2, r3} : pc'[r] # "upstream")
           /\ (generation = 1 => Absent({r4})) /\ (generation = 2 => Absent({r1}))

Within ==
  \/ part = "retries" /\ Retries
  \/ part = "models" /\ Outages
  \/ part = "reloads" /\ Reloads
  \/ part = "limits" /\ Shrinks

MCInit ==
  /\ Init /\ part \in {"retries", "models", "reloads", "limits"}
  /\ opts = Armed \/ (part = "reloads" /\ opts = Off)
MCNext == Next /\ UNCHANGED part /\ Within
MCSpec == MCInit /\ [][MCNext]_<<vars, part>>
=============================================================================
