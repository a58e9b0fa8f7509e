------------------------------- MODULE MCAtlas -------------------------------
(* Two queries for one destination, the hop of one of them a vantage       *)
(* point, and one vantage point more than the burst allows.                *)
EXTENDS Atlas, TLC

MCHopOf == ("q1" :> "v1") @@ ("q2" :> "h")
MCDestOf == [q \in {"q1", "q2"} |-> "d"]
MCSrcOf == [q \in {"q1", "q2"} |-> "v2"]
MCSiteOf == ("v1" :> "A") @@ ("v2" :> "B") @@ ("v3" :> "C")
MCRoute == [s \in {"v1", "v2", "v3"} |-> IF s = "v2" THEN {} ELSE {"h"}]
=============================================================================
