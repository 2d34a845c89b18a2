----------------------------- MODULE MCCookLog -----------------------------
(* Every kind of stream alone, and a tee of two of them.       *)
EXTENDS CookLog

MCOutputs == {<<"fd">>, <<"stdio">>, <<"file">>, <<"fd", "file">>}
=============================================================================
