---------------------------- MODULE MCAmazonLog ----------------------------
(* A small instance of AmazonLog: arrays of two characters and a NUL, and   *)
(* strings from the empty one to one that is cut.                          *)
EXTENDS AmazonLog, TLC

SomeStrings == {<<>>, <<"a", "b">>, <<"a", "b", "c">>}

SomeExtMax == (0 :> 1) @@ (1 :> 2)
=============================================================================
