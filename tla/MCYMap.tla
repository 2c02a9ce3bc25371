------------------------------- MODULE MCYMap -------------------------------
(* Bounds for YMap: how often each client sets the key.                     *)
EXTENDS YMap, TLC

Sets211 == (1 :> 2) @@ (2 :> 1) @@ (3 :> 1)
Sets11 == (1 :> 1) @@ (2 :> 1)
=============================================================================
