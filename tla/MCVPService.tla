----------------------------- MODULE MCVPService -----------------------------
(* Two nodes, one of which may move to another site.                       *)
EXTENDS VPService, TLC

MCNodeOf == ("a" :> "A") @@ ("b" :> "B") @@ ("b2" :> "B")
MCSiteOf == ("a" :> "s1") @@ ("b" :> "s2") @@ ("b2" :> "s1")
=============================================================================
