------------------------------- MODULE MCRevtr -------------------------------
(***************************************************************************)
(* Networks for the model checking of Revtr.  s is the source, d the       *)
(* destination, a and b are routers between them.                          *)
(***************************************************************************)
EXTENDS Revtr

\* Two addresses of the source and two of the router a.
LongAddr == {"s", "s2", "d", "a", "a2", "b"}
LongCluster ==
  [h \in LongAddr \cup {"zero"} |-> CASE h = "s2" -> "s" [] h = "a2" -> "a" [] OTHER -> h]
NoTraces == {}

\* A network in which routers also do not tell their address: their hops are
\* "0.0.0.0" in record route replies and in traceroutes.  One forward
\* traceroute names a twice.
MixedVP == {"v", "w"}
MixedList == {<<"v", "w">>}
MixedReplies ==
  {<<"d", "zero", "a2">>, <<"a2", "zero", "s">>, <<"a2", "s">>, <<"d", "a2", "b">>}
MixedAtlas == {<<"a", "zero", "s">>, <<"a2", "s">>}
MixedTraces == {<<"a", "a2", "d">>, <<"a2", "a", "d">>, <<"a", "b">>}
MixedStrays == {<<"b", "s">>, <<"d", "b">>}
NoAdjacency == {<<>>}

\* A network with more vantage points than the budget of a hop pays for.  One of
\* them may be the end of a candidate that a spoofed ping found.
BudgetVP == {"v", "w", "x", "y", "z"}
BudgetList == {<<"v", "w", "x", "y", "z">>}
BudgetReplies == {<<"d", "b", "a">>, <<"b", "a">>}
BudgetAtlas == {<<"a2", "s">>}
BudgetTraces == {<<"a", "d">>}
BudgetAdjacencies == {<<"b", "a">>}
=============================================================================
