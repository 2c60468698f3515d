--------------------------- MODULE MCTranslation ---------------------------
(* A Responses source with one reasoning item that has a summary and a      *)
(* content part.                                                             *)
EXTENDS Translation

MCPairs == {<<"responses", "chat">>, <<"responses", "anthropic">>}
MCRefused == {<<"b">>}
MCBoth == {<<[type |-> "reasoning", id |-> "r", call |-> "", name |-> "", args |-> <<>>,
              parts |-> <<[type |-> "reasoning", value |-> <<11>>]>>, summary |-> <<<<21>>>>]>>}
=============================================================================
