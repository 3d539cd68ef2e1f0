----------------------------- MODULE MCStorage -----------------------------
(* Storage for TLC.  A page of 160 bytes holds a record of 148 bytes and up  *)
(* to 11 bytes of payload; 12 bytes is the smallest record that continues.   *)
EXTENDS Storage, TLC

CONSTANTS e1, e2, e3, e4

MCPayload == (e1 :> 0) @@ (e2 :> 12) @@ (e3 :> 170) @@ (e4 :> 480)
MCBatches == {<<e2, e3>>, <<e2, e4>>}

=============================================================================
