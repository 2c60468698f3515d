------------------------------ MODULE MCRelay ------------------------------
(* A chat stream whose answer outgrows the hold.                             *)
EXTENDS Relay

MCLines == [chat |-> {Data(Chat({}, "")), Data(Chat({"reasoning"}, "")), Data(Chat({}, "stop")), Done, Blank}]
MCTails == [chat |-> {Data(Chat({}, "stop")), Done}]
=============================================================================
