--------------------------- MODULE MCScamperSocket ---------------------------
(***************************************************************************)
(* Model checking of ScamperSocket: a few measurements on one socket.      *)
(***************************************************************************)
EXTENDS ScamperSocket

CONSTANTS r1, r2

TwoReqs   == {r1, r2}
=============================================================================
