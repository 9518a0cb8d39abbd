---------------------- MODULE MCPersistentSubscription ----------------------
(***************************************************************************)
(* Instances of PersistentSubscription for TLC: an event, a link to it, and *)
(* another event, with a channel that is soon full.                         *)
(***************************************************************************)
EXTENDS PersistentSubscription, TLC

CONSTANTS e1, l1, e2

Links == (l1 :> e1) @@ (e1 :> None) @@ (e2 :> None)
TwoLinks == (l1 :> e1) @@ (e1 :> None)
=============================================================================
