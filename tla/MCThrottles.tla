---------------------------- MODULE MCThrottles ----------------------------
(* One operator and one header on one provider; the repeat of a superseded  *)
(* write may fail.                                                           *)
EXTENDS Throttles

Edit(has, conc, count, window) ==
    [has |-> has, conc |-> conc, count |-> count, window |-> window, anti |-> FALSE, ramp |-> 0]
MCPatches == {Edit({"conc"}, 1, 0, 0), Edit({"rate"}, 0, 1, 1)}
MCPosts == {Edit({"clear"}, 0, 0, 0), Edit({"conc"}, 1, 0, 0)}
=============================================================================
