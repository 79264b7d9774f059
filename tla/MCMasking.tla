----------------------------- MODULE MCMasking -----------------------------
EXTENDS Masking

(* Runs of digits as telephone, card and identity numbers, dates and       *)
(* addresses have them, and one character of every other kind.             *)
MCPieces == {<<"digit">>, <<"digit", "digit">>,
             <<"digit", "digit", "digit", "digit">>, <<"letter">>, <<"wide">>,
             <<"at">>, <<"dot", "digit">>, <<"comma">>, <<"space">>, <<"dash">>,
             <<"slash">>}
=============================================================================
