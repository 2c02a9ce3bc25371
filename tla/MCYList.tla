------------------------------ MODULE MCYList ------------------------------
(* Bounds for YList: how many ids each client may create.                   *)
EXTENDS YList, TLC

Clocks211 == (1 :> 2) @@ (2 :> 1) @@ (3 :> 1)
=============================================================================
