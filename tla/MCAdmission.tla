---------------------------- MODULE MCAdmission ----------------------------
(***************************************************************************)
(* Admission on three clients of two keys, behind a provider gate with one *)
(* slot and a bucket of two tokens.  A behaviour takes one of four parts:  *)
(* all the clients come and one may give up; two of one key meet holds,    *)
(* drains and pacing; two of different keys meet edits of the limit; three *)
(* of one key, with no limit, bring other caps and meet a hold.  Each part *)
(* only leaves steps of Next out.                                          *)
(***************************************************************************)
EXTENDS Admission

CONSTANTS r1, r2, r3, r4, k1, k2, b1

VARIABLE part

NoLimit == [concurrency |-> 0, tokens |-> 0]
One == [concurrency |-> 1, tokens |-> 0]
Bucket == [concurrency |-> 0, tokens |-> 2]
Both == [concurrency |-> 1, tokens |-> 2]
Edits == {NoLimit, One, Bucket, Both}

\* All requests but the second share a key, which has a cap of one.
Shared == [r \in Requests |-> IF r = r2 THEN k2 ELSE k1]
Mixed == [g \in Groups |-> IF g = k1 THEN 1 ELSE 0]
Sizes == [r \in Requests |-> IF r = r2 THEN 2 ELSE 1]
Reports == {-1, 0, 2}

Absent(r) == pc'[r] = pc[r]
Intervened == interventions' # interventions

Clients ==
  /\ interventions' <= 1 /\ UNCHANGED <<limit, cap, hold, drained, paced>>
  /\ Absent(r4) /\ job'[b1] = job[b1]
\* A client that gives up does so first here; it may notice as late as it likes.
Policy ==
  /\ Absent(r2) /\ Absent(r4) /\ UNCHANGED <<limit, cap>>
  /\ interventions = 1 => UNCHANGED cancelled
Gate ==
  /\ Absent(r3) /\ Absent(r4) /\ UNCHANGED cap
  /\ Intervened => UNCHANGED <<hold, drained, paced, cancelled>>
CapsRewritten ==
  /\ Absent(r2) /\ UNCHANGED <<limit, drained, paced, cancelled>>
  /\ pc'[r1] \in {"idle", "arriving", "gone"} /\ (cap' = cap \/ ~Absent(r1))
  /\ hold' # "timed" /\ (interventions = 2 => UNCHANGED hold)

Within ==
  \/ part = "clients" /\ Clients
  \/ part = "policy" /\ Policy
  \/ part = "gate" /\ Gate
  \/ part = "caps" /\ CapsRewritten

MCInit ==
  /\ Init /\ part \in {"clients", "policy", "gate", "caps"}
  /\ limit = IF part = "caps" THEN NoLimit ELSE One
MCNext == Next /\ UNCHANGED part /\ Within
MCSpec == MCInit /\ [][MCNext]_<<vars, part>>
=============================================================================
