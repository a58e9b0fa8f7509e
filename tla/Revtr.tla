-------------------------------- MODULE Revtr --------------------------------
(***************************************************************************)
(* One reverse traceroute run by the engine of revtr/runner: the goroutine  *)
(* batch.run calls one step after the other until a step returns nil.  The  *)
(* services it asks (atlas, vantage point service, controller, adjacency    *)
(* table) are the environment: each call fails or answers with any value    *)
(* of the sets below.                                                       *)
(*                                                                          *)
(*   trToSource      does the atlas hold a traceroute from here to Src?     *)
(*   recordRoute     record route pings, direct then spoofed, in batches    *)
(*   timestamp       timestamp pings towards the adjacencies of the hop     *)
(*   backgroundTRS   what the atlas measured since trToSource asked         *)
(*   assumeSymmetric a forward traceroute, assumed to be symmetric          *)
(***************************************************************************)
EXTENDS RRReply

CONSTANTS
  RateLimit,         \* vantage points of one batch of record route pings
  MaxUnresponsive,   \* unanswered spoofed pings after which a hop is given up
  BackoffChoices,    \* may a request ask to back off from the end host
  Cancellable,       \* may the context of the batch be cancelled
  SpooferLists,      \* answers of GetRRSpoofers: sequences of vantage points
  RRReplies,         \* record route slots of a reply
  AdjacencyLists,    \* answers of the adjacency table
  AtlasTraces,       \* traceroutes of the atlas, they end at Src
  ForwardTraces,     \* traceroutes from Src
  StrayTraces        \* traceroutes the atlas gives for hops they do not pass

ASSUME RevtrAssumption ==
  /\ RateLimit \in Nat \ {0, 1} /\ MaxUnresponsive \in Nat \ {0}
  /\ BackoffChoices \subseteq BOOLEAN /\ Cancellable \in BOOLEAN
  /\ SpooferLists \subseteq Seq(VP) /\ RRReplies \subseteq Seq(Hop)
  /\ AdjacencyLists \subseteq Seq(Addr)
  /\ AtlasTraces \subseteq {t \in Seq(Hop) : t # <<>> /\ Last(t) = Src}
  /\ ForwardTraces \subseteq Seq(Hop) \ {<<>>}
  /\ StrayTraces \subseteq {t \in Seq(Hop) : t # <<>> /\ Last(t) # Zero}

NonSpoofed == "non_spoofed"

\* ip is the primary key of vantage_points, and GetRRSpoofers groups by it.
ASSUME SpooferAssumption ==
  /\ IsFiniteSet(VP) /\ NonSpoofed \notin VP
  /\ \A list \in SpooferLists : IsInjective(list)

VARIABLES
  ctxDone,      \* the context of the batch is done
  backoffEndhost, \* BackoffEndhost: start by assuming the last link symmetric
  pc,           \* where run is: at its select, inside a step, or stopped
  step,         \* the step run calls next, or the one it is in
  paths,        \* the stack of candidate paths
  deadEnd,      \* last hops known not to lead to Src
  vpsLeft,      \* RRHop2VPSLeft
  rrResponsive, \* rrSpoofRRResponsive: -1 responsive, else pings without answer
  adjsLeft,     \* TSHop2AdjsLeft
  tsResponsive, \* hops not in tsHopResponsive
  stampsZero,   \* TSDstToStampsZero
  sendSpoofed,  \* TSSrcToHopToSendSpoofed
  tokens,       \* hops for which the atlas gave a token
  strayed,      \* history: the last traceroute of the atlas was a stray one
  stopReason,   \* StopReason
  sent          \* history: how often each vantage point probed each hop

rrVars   == <<vpsLeft, rrResponsive, sent>>
tsVars   == <<adjsLeft, tsResponsive, stampsZero, sendSpoofed>>
atlasVars == <<tokens, strayed>>
batchVars == <<ctxDone, backoffEndhost>>
vars     == <<batchVars, pc, step, paths, deadEnd, rrVars, tsVars, atlasVars, stopReason>>

Uninit     == <<"uninitialized">>
Steps      == {"backoffEndhost", "trToSource", "recordRoute", "timestamp",
               "backgroundTRS", "assumeSymmetric"}
Panics     == {"not possible", "should never get here", "did not reach",
               "slice bounds out of range", "index out of range"}
Stopped    == {"returned"} \cup Panics

Init ==
  /\ ctxDone = FALSE
  /\ pc = "select"
  /\ backoffEndhost \in BackoffChoices
  /\ step = IF backoffEndhost THEN "backoffEndhost" ELSE "trToSource"
  /\ paths = <<NewReversePath>>
  /\ deadEnd = {}
  /\ vpsLeft = [h \in Hop |-> Uninit]
  /\ rrResponsive = [h \in Hop |-> 0]
  /\ adjsLeft = [h \in Hop |-> Uninit]
  /\ tsResponsive = Hop
  /\ stampsZero = {}
  /\ sendSpoofed = [h \in Hop |-> "unset"]
  /\ tokens = {} /\ strayed = FALSE
  /\ stopReason = ""
  /\ sent = [h \in Hop |-> [v \in VP \cup {NonSpoofed} |-> 0]]

CurrPath == Last(paths)
LastSeg  == Last(CurrPath)

-----------------------------------------------------------------------------
(* How a step ends.                                                         *)

Calls(s) == pc = "select" /\ ~ctxDone /\ step = s
In(s)    == Calls(s) \/ (pc = "loop" /\ step = s)

Goto(s)   == pc' = "select" /\ step' = s /\ UNCHANGED stopReason
Loop      == pc' = "loop" /\ UNCHANGED <<step, stopReason>>
Panic(p)  == pc' = p /\ UNCHANGED <<step, stopReason>>
Return(r) == pc' = "returned" /\ stopReason' = r /\ UNCHANGED step

\* AddSegments, then Reaches.  checkbgTRs comes before the next step.
ExtendWith(segs, next) ==
  \E r \in AddSegments(paths, deadEnd, segs) :
    /\ paths' = r.paths
    /\ CASE ~r.added                     -> Loop
         [] r.added /\ PathReaches(Last(r.paths))  -> Return("REACHES")
         [] r.added /\ ~PathReaches(Last(r.paths)) ->
              pc' = "checkbg" /\ step' = next /\ UNCHANGED stopReason

\* AddBackgroundTRSegment with the part of the traceroute from addr on, and
\* the two panics of its callers.
JoinTrace(trace, addr) ==
  LET first == Min({i \in DOMAIN trace : trace[i] \in SameCluster(addr)})
      hops  == SubSeq(trace, first, Len(trace))
      segs  == {Segment("tr", hops, addr)}
      p     == Min(Joinable(paths, hops[1]))
      found == TrimPath(paths[p], hops[1])
  IN  IF Joinable(paths, hops[1]) = {} THEN Panic("not possible") /\ UNCHANGED paths
      ELSE IF TrimPathPanics(paths[p], hops[1]) THEN Panic("slice bounds out of range") /\ UNCHANGED paths
      ELSE \E r \in AddSegments(Append(paths, found), deadEnd, segs) :
             IF r.added
             THEN /\ paths' = r.paths
                  /\ IF PathReaches(Last(r.paths)) THEN Return("REACHES")
                     ELSE Panic("did not reach")
             ELSE Panic("not possible") /\ UNCHANGED paths

\* Traceroutes, each with the address at which it is said to intersect.
Through(traces) == {ta \in traces \X Addr : ta[2] \in Range(ta[1])}

\* Those that pass one of the hops, or an alias of it.
Intersecting(hops) == {ta \in Through(AtlasTraces) : \E h \in hops : ta[2] \in SameCluster(h)}

\* The address may be an alias that the cluster map does not know, because it
\* remembers a lookup that failed.  To a token the atlas may even answer with
\* the path of another request, if it was restarted and counts again from one.
Mistaken == {ta \in Through(StrayTraces) : Last(ta[1]) = Src}

JoinAnswer(hops, strays) ==
  /\ hops # {}
  /\ \E ta \in Intersecting(hops) \cup strays :
       /\ JoinTrace(ta[1], ta[2])
       /\ strayed' = (ta \notin Intersecting(hops))

-----------------------------------------------------------------------------
(* trToSource                                                               *)

TrToSource ==
  LET asked == Range(LastSeg.hops) \ {Zero}
  IN
  /\ Calls("trToSource")
  /\ \/ \* the atlas cannot be asked
        Goto("recordRoute") /\ UNCHANGED <<atlasVars, paths>>
     \/ \* tokens for some hops, nothing for the others
        /\ tokens' \in SUBSET asked
        /\ Goto("recordRoute") /\ UNCHANGED <<strayed, paths>>
     \/ JoinAnswer(asked, Mistaken) /\ UNCHANGED tokens
  /\ UNCHANGED <<batchVars, deadEnd, rrVars, tsVars>>

-----------------------------------------------------------------------------
(* recordRoute                                                              *)

\* InitializeRRVPs for the hops of the last segment that have no list yet.
\* When the vantage point service fails the hop stays without one.
RRVPs(answer) ==
  [h \in Hop |-> IF h \notin DOMAIN answer THEN vpsLeft[h]
                 ELSE IF answer[h] = Uninit THEN Uninit
                 ELSE <<NonSpoofed>> \o answer[h]]

LeftFor(left, h) == IF left[h] = Uninit THEN <<>> ELSE left[h]

\* Faulty variant: nobody asks whether the hop has answered yet.
UsableForEver(left) == {i \in DOMAIN LastSeg.hops : LeftFor(left, LastSeg.hops[i]) # <<>>}

\* The hops of the last segment that are worth a probe.
Usable(left) ==
  {i \in DOMAIN LastSeg.hops :
     /\ rrResponsive[LastSeg.hops[i]] < MaxUnresponsive
     /\ LeftFor(left, LastSeg.hops[i]) # <<>>}

Take(seq, n) ==
  [vps |-> SubSeq(seq, 1, Min({n, Len(seq)})),
   rest |-> SubSeq(seq, Min({n, Len(seq)}) + 1, Len(seq))]

\* The next batch for a hop: the direct probe alone, else the vantage point
\* that found the last segment and others, else the next ones.
NextBatch(left) ==
  IF NonSpoofed \in Range(Take(left, RateLimit).vps) THEN Take(left, 1)
  ELSE IF LastSeg.type = "spoofrr"
  THEN LET others == Picked(left, {i \in DOMAIN left : left[i] # LastSeg.spf})
           batch  == Take(others, RateLimit - 1)
       IN  [batch EXCEPT !.vps = <<LastSeg.spf>> \o @]
  ELSE Take(left, RateLimit)

RRHops(target) == IF target = Zero THEN {} ELSE {ProcessRR(raw, target) : raw \in RRReplies}

\* One segment for every known hop of a reply: the hops up to it.
RRSegments(type, hops, target, vp) ==
  { [Segment(type, SubSeq(hops, 1, i), target) EXCEPT !.spf = vp] :
      i \in {j \in DOMAIN hops : hops[j] # Zero} }

DirectRR(target) ==
  /\ \/ Loop /\ UNCHANGED paths
     \/ \E hops \in RRHops(target) :
          ExtendWith(RRSegments("rr", hops, target, NoVP), "trToSource")
  /\ UNCHANGED rrResponsive

SpoofedRR(target, vps) ==
  \E answering \in SUBSET Range(vps) : \E hops \in [answering -> RRHops(target)] :
    /\ rrResponsive' =
         [rrResponsive EXCEPT ![target] =
            IF answering # {} THEN -1 ELSE IF @ = -1 THEN -1 ELSE @ + Len(vps)]
    /\ ExtendWith(UNION {RRSegments("spoofrr", hops[v], target, v) : v \in answering},
                  "timestamp")

RecordRoute ==
  /\ In("recordRoute")
  /\ \E answer \in [{h \in Range(LastSeg.hops) : vpsLeft[h] = Uninit}
                      -> SpooferLists \cup {Uninit}] :
       LET left   == RRVPs(answer)
           target == LastSeg.hops[Max(Usable(left))]
           batch  == NextBatch(left[target])
       IN  IF Usable(left) = {}
           THEN /\ vpsLeft' = left
                /\ Goto("timestamp") /\ UNCHANGED <<paths, rrResponsive, sent>>
           ELSE /\ vpsLeft' = [left EXCEPT ![target] = batch.rest]
                /\ sent' = [sent EXCEPT ![target] =
                     [v \in DOMAIN @ |-> IF v \in Range(batch.vps) THEN @[v] + 1 ELSE @[v]]]
                /\ IF batch.vps = <<NonSpoofed>> THEN DirectRR(target)
                   ELSE SpoofedRR(target, batch.vps)
  /\ UNCHANGED <<batchVars, deadEnd, tsVars, atlasVars>>

-----------------------------------------------------------------------------
(* timestamp                                                                *)

NoTSReply == Loop /\ UNCHANGED <<paths, stampsZero>>

\* The ping of a round is answered, or comes back with an error, which counts
\* as an answer too.  The answer shows that adj is on the way back, or that the
\* target does not stamp, or neither.  If its stamps are too close to each other
\* a second ping looks for a bug of Linux; if that one comes back without stamps
\* the engine reads past the end of a slice.
AnsweredTS(target, adj) ==
  /\ sendSpoofed' = [sendSpoofed EXCEPT ![target] = "no"]
  /\ tsResponsive' = tsResponsive \ {target}
  /\ \/ NoTSReply
     \/ ExtendWith({Segment("ts", <<adj>>, target)}, "trToSource") /\ UNCHANGED stampsZero
     \/ Loop /\ stampsZero' = stampsZero \cup {target} /\ UNCHANGED paths
     \/ Panic("index out of range") /\ UNCHANGED <<paths, stampsZero>>

\* Spoofed pings, when the vantage point service names spoofers.  The option
\* is composed and left out of the measurement, so no answer has a stamp.
SpoofedTS(target) ==
  /\ tsResponsive' = tsResponsive \ {target}
  /\ Loop /\ stampsZero' \in {stampsZero, stampsZero \cup {target}} /\ UNCHANGED paths

ProbeAdjacent(target, adj) ==
  CASE target \in stampsZero ->      \* the probes are collected and not sent
         NoTSReply /\ UNCHANGED <<tsResponsive, sendSpoofed>>
    [] target \notin stampsZero /\ sendSpoofed[target] # "yes" ->
         \/ AnsweredTS(target, adj)
         \/ /\ sendSpoofed[target] = "unset"
            /\ sendSpoofed' = [sendSpoofed EXCEPT ![target] = "yes"]
            /\ SpoofedTS(target)
         \/ /\ sendSpoofed[target] = "no"
            /\ NoTSReply /\ UNCHANGED <<tsResponsive, sendSpoofed>>
    [] target \notin stampsZero /\ sendSpoofed[target] = "yes" ->
         /\ UNCHANGED sendSpoofed
         /\ \/ \* no spoofers left
               Goto("backgroundTRS") /\ UNCHANGED <<paths, stampsZero, tsResponsive>>
            \/ SpoofedTS(target)

Timestamp ==
  LET target == LastHop(LastSeg)
  IN
  /\ In("timestamp")
  /\ IF pc = "select" /\ target \notin tsResponsive
     THEN Goto("backgroundTRS") /\ UNCHANGED <<paths, tsVars>>
     ELSE \E answer \in AdjacencyLists \cup {Uninit} :
            LET list == IF adjsLeft[target] = Uninit THEN answer ELSE adjsLeft[target]
            IN  IF list \in {Uninit, <<>>}
                THEN /\ adjsLeft' = [adjsLeft EXCEPT ![target] = list]
                     /\ Goto("backgroundTRS")
                     /\ UNCHANGED <<paths, tsResponsive, stampsZero, sendSpoofed>>
                ELSE /\ adjsLeft' = [adjsLeft EXCEPT ![target] = Tail(list)]
                     /\ ProbeAdjacent(target, Head(list))
  /\ UNCHANGED <<batchVars, deadEnd, rrVars, atlasVars>>

-----------------------------------------------------------------------------
(* backgroundTRS, as a step of its own and inside checkbgTRs.               *)

\* Faulty variant: the tokens are not cleared.
RetrieveKeepingTokens(notFound) ==
  /\ \/ notFound /\ UNCHANGED <<strayed, paths>>
     \/ JoinAnswer(tokens, Through(StrayTraces))
  /\ UNCHANGED <<batchVars, deadEnd, rrVars, tsVars, tokens>>

RetrieveTraceroutes(notFound) ==
  /\ tokens' = {}
  /\ \/ notFound /\ UNCHANGED <<strayed, paths>>
     \/ JoinAnswer(tokens, Through(StrayTraces))
  /\ UNCHANGED <<batchVars, deadEnd, rrVars, tsVars>>

BackgroundTRS == Calls("backgroundTRS") /\ RetrieveTraceroutes(Goto("assumeSymmetric"))

CheckBgTRs == pc = "checkbg" /\ RetrieveTraceroutes(Goto(step))

-----------------------------------------------------------------------------
(* assumeSymmetric                                                          *)

IsInitial(path) == Len(path) = 1 /\ path[1].type = "dst"

\* Faulty variant: gives up with two paths left.
FailedTooEarly(stack) == Len(stack) <= 2

Failed(stack) == stack = <<>> \/ (backoffEndhost /\ Len(stack) = 1 /\ IsInitial(stack[1]))

\* FailCurrPath: the last hop is a dead end, and so is every path on top of
\* the stack that ends in one, unless it ends in an assumption that can still
\* be extended.
StaysOnTop(path, dead) == PathLastHop(path) \notin dead \/ Last(path).type = "sym"

AfterFail(stack, dead) ==
  SubSeq(stack, 1, Max({0} \cup {n \in DOMAIN stack : \/ StaysOnTop(stack[n], dead)
                                                      \/ Failed(SubSeq(stack, 1, n))}))

\* Faulty variant: the dead end is not remembered.
FailCurrPathForgetting ==
  /\ paths' = AfterFail(paths, deadEnd) /\ UNCHANGED deadEnd
  /\ IF Failed(paths') THEN Return("FAILED") ELSE Goto("trToSource")

FailCurrPath ==
  /\ deadEnd' = deadEnd \cup {LastHop(LastSeg)}
  /\ paths' = AfterFail(paths, deadEnd')
  /\ IF Failed(paths') THEN Return("FAILED") ELSE Goto("trToSource")

HopsButLastSeg == HopSet(Front(CurrPath))

ExtendSymmetric(reached) ==
  LET newSeg == AddHop(LastSeg, HopsButLastSeg \cup deadEnd)
  IN  IF LastHop(newSeg) \in deadEnd
      THEN Panic("should never get here") /\ UNCHANGED <<paths, deadEnd>>
      ELSE /\ paths' = Append(paths, Append(Front(CurrPath), newSeg))
           /\ IF SegReaches(newSeg) THEN Return(reached) ELSE Goto("trToSource")
           /\ UNCHANGED deadEnd

AssumeFrom(trace, reached) ==
  LET seg == NewDstSymRevSegment(LastHop(LastSeg), trace, HopSet(CurrPath) \cup deadEnd)
  IN  \E r \in AddSegments(paths, deadEnd, {seg}) :
        IF r.added
        THEN /\ paths' = r.paths
             /\ IF PathReaches(Last(r.paths)) THEN Return(reached) ELSE Goto("trToSource")
             /\ UNCHANGED deadEnd
        ELSE FailCurrPath

\* issueTraceroute succeeds only if the traceroute arrives at its destination.
TracesTo(hop) == {t \in ForwardTraces : hop # Zero /\ Last(t) \in SameCluster(hop)}

AssumeOneHop(reached) ==
  IF LastSeg.type = "sym" THEN ExtendSymmetric(reached)
  ELSE \/ FailCurrPath   \* no traceroute
       \/ \E t \in TracesTo(LastHop(LastSeg)) : AssumeFrom(t, reached)

AssumeSymmetric ==
  /\ Calls("assumeSymmetric")
  /\ AssumeOneHop("REACHES")
  /\ UNCHANGED <<batchVars, rrVars, tsVars, atlasVars>>

\* The same for the first link; to arrive is trivial then.
StepBackoffEndhost ==
  /\ Calls("backoffEndhost")
  /\ AssumeOneHop("TRIVIAL")
  /\ UNCHANGED <<batchVars, rrVars, tsVars, atlasVars>>

-----------------------------------------------------------------------------
(* run                                                                      *)

\* Somebody cancels the context; run notices at its next select.
CancelContext ==
  /\ Cancellable /\ ~ctxDone /\ pc \notin Stopped
  /\ ctxDone' = TRUE
  /\ UNCHANGED <<backoffEndhost, pc, step, paths, deadEnd, rrVars, tsVars, atlasVars, stopReason>>

Canceled ==
  /\ pc = "select" /\ ctxDone
  /\ Return("CANCELED")
  /\ UNCHANGED <<batchVars, paths, deadEnd, rrVars, tsVars, atlasVars>>

Run == \/ StepBackoffEndhost \/ TrToSource \/ RecordRoute \/ Timestamp
       \/ CheckBgTRs \/ BackgroundTRS \/ AssumeSymmetric \/ Canceled

Terminated == pc \in Stopped /\ UNCHANGED vars

Next == Run \/ CancelContext \/ Terminated

Spec == Init /\ [][Next]_vars

\* Every service is called with a deadline, so a step always ends.
FairSpec == Spec /\ WF_vars(Run)

-----------------------------------------------------------------------------

Running == pc \notin Stopped

\* Loop removal, over a whole run: no candidate path visits an address twice,
\* whatever the order in which probes, traceroutes and assumptions added its
\* segments.  Only a symmetric segment that assumeSymmetric has extended may
\* go back to an earlier hop, because AddAndReplaceSegment removes no loops.
NoHopTwice ==
  \A p \in Range(paths) : \A j \in 2..Len(p) :
    p[j].type # "sym" => Range(p[j].hops) \cap HopSet(SubSeq(p, 1, j - 1)) = {}

\* The tokens of the atlas are used while the path they were asked for is
\* still there to be joined: they name hops of the current path, and none is
\* left over when trToSource asks again.
TokensOnCurrentPath ==
  Running => /\ tokens \subseteq HopSet(CurrPath)
             /\ step \in {"trToSource", "assumeSymmetric"} /\ pc = "select" => tokens = {}

\* What a returned reverse traceroute says of itself is true of its paths.  To
\* fail means to have given up the destination itself.
Outcome ==
  /\ stopReason # "" <=> pc = "returned"
  /\ stopReason \in {"REACHES", "TRIVIAL"} => PathReaches(CurrPath)
  /\ stopReason = "FAILED" => Dst \in deadEnd /\ ~\E p \in Range(paths) : PathReaches(p)
  /\ stopReason = "CANCELED" => ctxDone /\ paths # <<>>

\* A hop that never answered is charged with every spoofed ping sent to it, over
\* all batches, and is left alone after the batch that takes it to the limit.
UnresponsiveBudget ==
  \A h \in Hop : rrResponsive[h] >= 0 =>
    /\ rrResponsive[h] = SumFunctionOnSet(sent[h], VP)
    /\ rrResponsive[h] < MaxUnresponsive + RateLimit

\* Reaches looks at the last path only, "Assume that any path reaches if and
\* only if the last one reaches".  A candidate that has arrived at the source is
\* overlooked only if it was made from one with an unknown hop: AddSegments may
\* then give up after it has pushed a path that arrives.
ArrivalIsSeen == Running => \A p \in Range(paths) : PathReaches(p) => Zero \in HopSet(Front(p))

\* The promise as it stands.
NoneHasReached == Running => ~\E p \in Range(paths) : PathReaches(p)

\* A router with two addresses in S.
TwoNames(S) == \E g, h \in S : g # h /\ Cluster[g] = Cluster[h]

SourceGivenUp  == deadEnd \cap SameCluster(Src) # {}
PassesSource(s) == Range(s.hops) \cap SameCluster(Src) # {}

\* What it takes for each panic.  A traceroute joined to a path arrives, unless
\* the atlas gave a stray one.  The place to cut the path is in the segment,
\* unless an assumed link names a router twice.  A traceroute can be added where
\* it meets a path, unless it is a stray one, the source has been given up or
\* passed by an assumption, or the path has an unknown hop.  An assumption ends
\* at a hop that was given up only if that is the source.  (The panic that reads
\* the answer to a timestamp ping needs no more than such an answer.)
PanicsAreExplained ==
  /\ pc = "did not reach" => strayed
  /\ pc = "should never get here" => Src \in deadEnd
  /\ pc = "slice bounds out of range" =>
       \E p \in Range(paths) : \E s \in Range(p) : s.type = "sym" /\ TwoNames(Range(s.hops))
  /\ pc = "not possible" =>
       \/ strayed \/ SourceGivenUp
       \/ \E p \in Range(paths) : \/ Zero \in HopSet(p)
                                  \/ \E s \in Range(p) : s.type = "sym" /\ PassesSource(s)

\* Where trace continues a path that it meets at the router with addr.
Meeting(trace, addr) == trace[Min({i \in DOMAIN trace : trace[i] \in SameCluster(addr)})]

\* The first path of the stack that passes the router of h knows it by another
\* address and was extended beyond it.
KnownByAlias(h) ==
  LET path == paths[Min(Joinable(paths, h))]
      hops == path[JoinSegment(path, h)].hops
  IN  JoinHop(hops, h) < Len(hops) /\ hops[JoinHop(hops, h)] # h

\* A traceroute to the source continues the path at the router where the two
\* meet: AddBackgroundTRSegment has cut off what the path had after it.  Only a
\* path that has the intersection under another address, and hops after it in
\* the same segment, is cut somewhere else.
JoinsAtIntersection ==
  \A p \in Range(paths) : \A j \in 2..Len(p) : p[j].type = "tr" =>
    \/ PathLastHop(SubSeq(p, 1, j - 1)) \in SameCluster(p[j].hop)
    \/ \E t \in AtlasTraces \cup StrayTraces :
         p[j].hop \in Range(t) /\ KnownByAlias(Meeting(t, p[j].hop))

\* A traceroute of the atlas that intersects the path can always be added to
\* it: "Failed to add TR segment. That's not possible".
AddingTracerouteIsPossible == pc # "not possible"

\* No vantage point probes the same hop twice.
ProbedOnce == \A h \in Hop : \A v \in VP : sent[h][v] <= 1

\* Every reverse traceroute stops: each round uses up vantage points or
\* adjacencies, lengthens the path, or learns a dead end.
Terminates == <>(pc \in Stopped)

=============================================================================
