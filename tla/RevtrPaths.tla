----------------------------- MODULE RevtrPaths -----------------------------
(***************************************************************************)
(* The data of one reverse traceroute: hops, segments, paths, and the      *)
(* operations on them of revtr/reverse_traceroute.  A path is a sequence   *)
(* of segments, it starts at the destination and grows towards the source. *)
(* The candidates of a reverse traceroute form a stack of paths, the last  *)
(* one is the one being extended.                                          *)
(*                                                                         *)
(* Addresses are abstract.  Zero stands for "0.0.0.0", the value           *)
(* NewRevSegment gives to a hop that is not global unicast.  Cluster is    *)
(* the cluster map: two addresses of one router share a cluster.  Zero is  *)
(* in a cluster of its own, because the map falls back to the text of an   *)
(* address it does not know.                                               *)
(***************************************************************************)
EXTENDS Integers, Sequences, FiniteSets, SequencesExt

CONSTANTS
  Addr,      \* the routable addresses
  Src,       \* where the reverse traceroute has to arrive
  Dst,       \* where it starts
  Zero,      \* an unknown hop
  Cluster,   \* [Addr \cup {Zero} -> cluster id]
  VP         \* the vantage points that can spoof

Hop == Addr \cup {Zero}

ASSUME PathAssumption ==
  /\ Src \in Addr /\ Dst \in Addr /\ Zero \notin Addr
  /\ DOMAIN Cluster = Hop
  /\ \A a \in Addr : Cluster[a] # Cluster[Zero]
  /\ Cluster[Src] # Cluster[Dst]

NoVP == "none"

SegTypes == {"dst", "sym", "tr", "rr", "spoofrr", "ts"}

\* A segment: the hops it adds and, where its type has them, the address it
\* was found from (Hop), the forward traceroute and the number of hops that a
\* symmetric segment assumes, and the vantage point that spoofed.
Segment(type, hops, from) ==
  [type |-> type, hops |-> hops, hop |-> from, tr |-> <<>>, num |-> 0, spf |-> NoVP]

Segments ==
  [type : SegTypes, hops : Seq(Hop), hop : Addr, tr : Seq(Hop), num : Nat, spf : VP \cup {NoVP}]

NewReversePath == << Segment("dst", <<Dst>>, Dst) >>

LastHop(seg) == seg.hops[Len(seg.hops)]
SegReaches(seg) == seg.hops # <<>> /\ Cluster[LastHop(seg)] = Cluster[Src]
NonNull(seg) == Cardinality({i \in DOMAIN seg.hops : seg.hops[i] # Zero})

HopSet(path) == UNION {Range(path[i].hops) : i \in DOMAIN path}
PathLastHop(path) == LastHop(Last(path))
PathReaches(path) == SegReaches(Last(path))

-----------------------------------------------------------------------------
(* RemoveHops: loop removal.                                                *)

\* What is left of hops once everything up to the last hop (by cluster) that
\* the path has already visited is cut off.
CutLoops(hops, seen) ==
  LET common  == (Range(hops) \cap seen) \ {Zero}
      revisit == {i \in DOMAIN hops : \E h \in common : Cluster[h] = Cluster[hops[i]]}
  IN  IF revisit = {} THEN hops ELSE SubSeq(hops, Max(revisit) + 1, Len(hops))

\* Faulty variant: no second look.
StillLoopsNever(hops, seen) == FALSE

\* "Still a loop": the second look does not leave the unknown hops out.
StillLoops(hops, seen) == Range(CutLoops(hops, seen)) \cap seen # {}

-----------------------------------------------------------------------------
(* Order: AddSegments tries short segments first and segments that reach    *)
(* last.  Segments that only the text of their addresses tells apart may    *)
(* come in either order.                                                    *)

\* Faulty variant: segments that reach come first.
ReachingFirst(a, b) ==
  IF LastHop(a) = LastHop(b) THEN NonNull(a) < NonNull(b)
  ELSE /\ ~SegReaches(b)
       /\ SegReaches(a) \/ NonNull(a) < NonNull(b)

Before(a, b) ==
  IF LastHop(a) = LastHop(b) THEN NonNull(a) < NonNull(b)
  ELSE /\ ~SegReaches(a)
       /\ SegReaches(b) \/ NonNull(a) < NonNull(b)

Sorted(segs) ==
  {q \in SetToSeqs(segs) : \A i \in 1..Len(q) - 1 : ~Before(q[i + 1], q[i])}

\* The increasing enumerations of a set of indices (there is exactly one).
Increasing(S) ==
  {f \in [1..Cardinality(S) -> S] : \A i, j \in DOMAIN f : i < j => f[i] < f[j]}

\* The elements of seq at the indices of S, in their order.
Picked(seq, S) ==
  LET at == CHOOSE f \in Increasing(S) : TRUE IN [k \in DOMAIN at |-> seq[at[k]]]

\* AddSegments on a stack: for the segments in order, skip the dead ends, give
\* up at a segment with which a loop remains, skip what loop removal empties,
\* and push the current path extended with the rest.
AddSegmentsInOrder(stack, dead, q) ==
  LET base    == Last(stack)
      seen    == HopSet(base)
      live    == {i \in DOMAIN q : LastHop(q[i]) \notin dead}
      failing == {i \in live : StillLoops(q[i].hops, seen)}
      kept    == {i \in live : /\ \A j \in failing : i < j
                               /\ CutLoops(q[i].hops, seen) # <<>>}
  IN  { [ paths |-> stack \o [k \in DOMAIN f |->
                      Append(base, [q[f[k]] EXCEPT !.hops = CutLoops(@, seen)])],
          added |-> failing = {} /\ kept # {} ] : f \in Increasing(kept) }

AddSegments(stack, dead, segs) ==
  UNION {AddSegmentsInOrder(stack, dead, q) : q \in Sorted(segs)}

-----------------------------------------------------------------------------
(* Symmetric segments.                                                      *)

\* Faulty variant: dead ends count as hops.
SelectIgnoringNothing(tr, n, ignore) ==
  LET valid == {i \in DOMAIN tr : tr[i] # Zero}
  IN  SubSeq(tr, 1, Max({i \in valid : Cardinality({j \in valid : j <= i}) <= n}))

\* The first hops of tr up to the n-th that is known and not ignored, or all.
SelectNonzeroHops(tr, n, ignore) ==
  LET valid == {i \in DOMAIN tr : tr[i] # Zero /\ tr[i] \notin ignore}
      upto  == {i \in valid : Cardinality({j \in valid : j <= i}) = n}
  IN  IF upto # {} THEN SubSeq(tr, 1, Max(upto))
      ELSE SubSeq(tr, 1, Max({i \in DOMAIN tr : tr[i] # Zero}))

\* A forward traceroute read backwards, from the hop before its end to Src.
Backwards(tr) == Reverse(<<Src>> \o Front(tr))

NewDstSymRevSegment(from, tr, ignore) ==
  [Segment("sym", SelectNonzeroHops(Backwards(tr), 1, ignore), from)
     EXCEPT !.tr = tr, !.num = 1]

AddHop(seg, ignore) ==
  [seg EXCEPT !.num = @ + 1,
              !.hops = SelectNonzeroHops(Backwards(seg.tr), seg.num + 1, ignore)]

-----------------------------------------------------------------------------
(* AddBackgroundTRSegment: a traceroute to the source may join any path of  *)
(* the stack, at any of its hops; what follows that hop is cut off.         *)

SameCluster(h) == {g \in Hop : Cluster[g] = Cluster[h]}

Joinable(stack, h) == {p \in DOMAIN stack : HopSet(stack[p]) \cap SameCluster(h) # {}}

\* Faulty variant: the intersection itself is cut off.
TrimHopsAtHop(hops, n, h) ==
  IF Len(hops) = n \/ h \notin Range(SubSeq(hops, 1, n)) THEN SubSeq(hops, 1, n)
  ELSE SubSeq(hops, 1, n - 1) \o <<Last(hops)>>

\* The hops of one segment once it is cut to its first n: RemoveAt is called
\* at the index after h, which is 0 when only the cluster of h is there.
TrimHops(hops, n, h) ==
  IF Len(hops) = n \/ h \in Range(SubSeq(hops, 1, n)) THEN SubSeq(hops, 1, n)
  ELSE SubSeq(hops, Len(hops) - n + 1, Len(hops))

\* RemoveAt past the end of the slice.
TrimPanics(hops, n, h) ==
  Len(hops) > n /\ h \in Range(hops) /\ h \notin Range(SubSeq(hops, 1, n))

\* Where a path meets h first: the segment, and the index in its hops.
JoinSegment(path, h) == Min({j \in DOMAIN path : Range(path[j].hops) \cap SameCluster(h) # {}})
JoinHop(hops, h)     == Min({i \in DOMAIN hops : hops[i] \in SameCluster(h)})

TrimPath(path, h) ==
  LET j == JoinSegment(path, h)
  IN  Append(SubSeq(path, 1, j - 1),
             [path[j] EXCEPT !.hops = TrimHops(@, JoinHop(@, h), h)])

TrimPathPanics(path, h) ==
  LET hops == path[JoinSegment(path, h)].hops
  IN  TrimPanics(hops, JoinHop(hops, h), h)

=============================================================================
