------------------------------- MODULE RRReply -------------------------------
(***************************************************************************)
(* processRR of revtr/runner: the hops a record route reply shows between  *)
(* the target of the probe and the source.                                 *)
(***************************************************************************)
EXTENDS RevtrPaths

\* Faulty variant: two neighbours are looked at, not the whole reply.
LastOfRun(hops, i) ==
  IF i < Len(hops) /\ Cluster[hops[i + 1]] = Cluster[hops[i]] THEN i + 1 ELSE i

\* The last index of hops with the cluster of hops[i].
LastOfCluster(hops, i) ==
  Max({j \in DOMAIN hops : Cluster[hops[j]] = Cluster[hops[i]]})

\* From left to right, every hop is replaced by the last one of its cluster
\* and what lies between the two is dropped.
RemoveClusterLoops(hops) ==
  LET from[i \in 1..Len(hops) + 1] ==
        IF i > Len(hops) THEN <<>>
        ELSE LET r == LastOfCluster(hops, i) IN <<hops[r]>> \o from[r + 1]
  IN  from[1]

\* Faulty variant: an answer without a slot to spare counts.
ProcessRRFullReply(raw, target) ==
  LET atTarget == {i \in DOMAIN raw : Cluster[raw[i]] = Cluster[target]}
  IN  IF atTarget = {} THEN <<>>
      ELSE RemoveClusterLoops(SubSeq(raw, Min(atTarget) + 1, Len(raw)))

\* Nothing unless the target answered with at least one slot to spare.
ProcessRR(raw, target) ==
  LET atTarget == {i \in DOMAIN raw : Cluster[raw[i]] = Cluster[target]}
  IN  IF atTarget = {} \/ Len(raw) \in atTarget THEN <<>>
      ELSE RemoveClusterLoops(SubSeq(raw, Max(atTarget) + 1, Len(raw)))

=============================================================================
