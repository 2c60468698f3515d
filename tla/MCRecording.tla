---------------------------- MODULE MCRecording ----------------------------
(***************************************************************************)
(* Small instances of Recording and Feed.  A behaviour runs one of them,   *)
(* chosen by part; the other keeps its initial state.  One feed has a ring *)
(* of one place, which evicts; one a ring of two and snapshots of one row; *)
(* one a single request and more disturbances.                             *)
(***************************************************************************)
EXTENDS Recording

CONSTANTS a, b, x, y, Parts, Requests, SubCap, MaxFaults, MoreFaults

VARIABLES
    part, feedRing, nextSeq, feedID, pend, revision, pub, srv, wire, page, source, boot,
    finished, gone, faults

F == INSTANCE Feed WITH ring <- feedRing, RingCap <- 1, SnapLimit <- 0
W == INSTANCE Feed WITH ring <- feedRing, RingCap <- 2, SnapLimit <- 1
E == INSTANCE Feed WITH ring <- feedRing, RingCap <- 1, SnapLimit <- 0, Requests <- {a},
                        MaxFaults <- MoreFaults

feedVars ==
    <<feedRing, nextSeq, feedID, pend, revision, pub, srv, wire, page, source, boot,
      finished, gone, faults>>

PartInit == part \in Parts /\ Init /\ F!Init

PartNext ==
    \/ part = "recording" /\ Next /\ UNCHANGED <<part, feedVars>>
    \/ part = "feed" /\ F!Next /\ UNCHANGED <<part, vars>>
    \/ part = "window" /\ W!Next /\ UNCHANGED <<part, vars>>
    \/ part = "epochs" /\ E!Next /\ UNCHANGED <<part, vars>>

PartSpec == PartInit /\ [][PartNext]_<<part, vars, feedVars>>

\* A settled page shows what the server holds, and its cursor never passes a record it
\* does not have (neither formula depends on the ring's size).
PageSound == F!PageAgrees /\ F!CursorHasNoGap
=============================================================================
