---------------------------- MODULE MCController ----------------------------
(* A call over HTTP with two spoofed pings, which share a key, and a call  *)
(* over gRPC with two traceroutes that the database holds.                 *)
EXTENDS Controller, TLC

MCAsked == ("ping" :> {"s1", "s2"}) @@ ("trace" :> {"t1", "t2"})
MCMeas == {"s1", "s2", "t1", "t2"}
MCKeyOf == [m \in MCMeas |-> IF m = "s2" THEN "s1" ELSE m]
MCStoredAs == MCKeyOf
=============================================================================
