------------------------------ MODULE AtlasProofs ------------------------------
(***************************************************************************)
(* Proofs about Atlas, for any clients, queries and vantage points, and    *)
(* any number of tokens and restarts.                                      *)
(***************************************************************************)
EXTENDS Atlas, SequenceTheorems, TLAPS

Fills == 1 .. MaxToken

FillRecords == [pc : {"none", "sources", "claim", "reserve", "start", "trace", "abandoned"},
                q : Query \union {None}, srcs : SUBSET Source, traces : SUBSET Source]

FillTypes ==
  /\ fill \in [Fills -> FillRecords]
  /\ \A f \in Fills : fill[f].pc # "none" => fill[f].q \in Query
  /\ running \in [Dest -> SUBSET Source]
  /\ nextID \in 0 .. MaxToken

Claiming(f) == fill[f].pc \in {"reserve", "start", "trace", "abandoned"}

\* What a fill has claimed is marked as running, and claimed by no other fill
\* to that destination; it traces only from there.
ClaimInv ==
  /\ \A f \in Fills : Claiming(f) => /\ fill[f].srcs \subseteq running[DestOf[fill[f].q]]
                                     /\ fill[f].traces \subseteq fill[f].srcs
  /\ \A f, g \in Fills :
       Claiming(f) /\ Claiming(g) /\ f # g /\ DestOf[fill[f].q] = DestOf[fill[g].q]
         => fill[f].srcs \intersect fill[g].srcs = {}

FillInv == FillTypes /\ ClaimInv

-----------------------------------------------------------------------------

\* A fill that ends, and takes its claim back, leaves the others theirs.
LEMMA RemoveKeepsClaims ==
  ASSUME FillInv, NEW f \in Fills, Claiming(f), Remove(f),
         fill' = [fill EXCEPT ![f] = NoFill], nextID' = nextID
  PROVE  FillInv'
<1> USE AtlasAssumption DEF FillInv, FillTypes, FillRecords, ClaimInv, Claiming, NoFill
<1> DEFINE d == DestOf[fill[f].q]
<1>1. d \in Dest
  OBVIOUS
<1>2. running' = [running EXCEPT ![d] = @ \ fill[f].srcs]
  BY DEF Remove
<1>3. \A e \in Dest : running'[e] = IF e = d THEN running[e] \ fill[f].srcs ELSE running[e]
  BY <1>1, <1>2
<1>4. \A g \in Fills : g # f => fill'[g] = fill[g]
  OBVIOUS
<1>5. FillTypes'
  BY <1>1, <1>2
<1>6. ~Claiming(f)'
  OBVIOUS
<1>7. ASSUME NEW g \in Fills, Claiming(g)'
      PROVE  /\ fill'[g].srcs \subseteq running'[DestOf[fill'[g].q]]
             /\ fill'[g].traces \subseteq fill'[g].srcs
  <2>1. g # f /\ fill'[g] = fill[g]
    BY <1>4, <1>6, <1>7
  <2>2. Claiming(g) /\ DestOf[fill[g].q] \in Dest
    BY <1>7, <2>1
  <2>3. DestOf[fill[g].q] = d => fill[g].srcs \intersect fill[f].srcs = {}
    BY <2>1, <2>2
  <2>4. fill[g].srcs \subseteq running[DestOf[fill[g].q]] /\ fill[g].traces \subseteq fill[g].srcs
    BY <2>2
  <2> QED
    <3> HIDE DEF FillInv, FillTypes, ClaimInv, Claiming, NoFill, FillRecords, d
    <3> QED
      BY <1>3, <2>1, <2>2, <2>3, <2>4
<1> QED
  BY <1>4, <1>5, <1>6, <1>7

\* A fill that changes where it is, but not its claim.
LEMMA MoveKeepsClaims ==
  ASSUME FillInv, NEW f \in Fills, UNCHANGED <<running, nextID>>,
         NEW r \in FillRecords, fill' = [fill EXCEPT ![f] = r],
         r.pc # "none" => r.q \in Query,
         \/ r.pc \in {"none", "sources", "claim"}
         \/ Claiming(f) /\ r.q = fill[f].q /\ r.srcs = fill[f].srcs /\ r.traces \subseteq fill[f].traces
  PROVE  FillInv'
<1> USE DEF FillInv, FillTypes, ClaimInv, Claiming
<1>1. fill'[f] = r /\ \A g \in Fills : g # f => fill'[g] = fill[g]
  OBVIOUS
<1>2. FillTypes'
  <2>1. \A g \in Fills : fill'[g].pc # "none" => fill'[g].q \in Query
    BY <1>1
  <2> QED
    BY <2>1
<1>3. ClaimInv'
  <2>1. \A g \in Fills : Claiming(g)' => /\ Claiming(g) /\ fill'[g].q = fill[g].q
                                         /\ fill'[g].srcs = fill[g].srcs
                                         /\ fill'[g].traces \subseteq fill[g].traces
    BY <1>1
  <2> QED
    BY <2>1
<1> QED
  BY <1>2, <1>3

\* What TryAdd claims nobody had claimed.
LEMMA TryAddClaims == FillInv /\ (\E f \in Fills : TryAdd(f)) => FillInv'
<1> SUFFICES ASSUME FillInv, NEW f \in Fills, TryAdd(f) PROVE FillInv'
  OBVIOUS
<1> DEFINE d == DestOf[fill[f].q]
           new == fill[f].srcs \ running[d]
<1>1. /\ d \in Dest /\ new \subseteq Source /\ fill[f].pc = "claim"
      /\ running' = [running EXCEPT ![d] = @ \union new] /\ nextID' = nextID
  BY AtlasAssumption DEF FillInv, FillTypes, FillRecords, TryAdd
<1>2. CASE new = {}
  <2>1. running' = running /\ fill' = [fill EXCEPT ![f] = NoFill]
    BY <1>1, <1>2 DEF TryAdd, FillInv, FillTypes, FillRecords
  <2>2. NoFill \in FillRecords /\ NoFill.pc = "none" /\ NoFill.pc \in {"none", "sources", "claim"}
    BY DEF NoFill, FillRecords
  <2> QED
    BY <1>1, <2>1, <2>2, MoveKeepsClaims
<1>3. CASE new # {}
  <2>1. PICK seen \in SUBSET new :
          fill' = [fill EXCEPT ![f].pc = "reserve", ![f].srcs = new, ![f].traces = seen]
    BY <1>3 DEF TryAdd
  <2>2. /\ fill'[f].pc = "reserve" /\ fill'[f].srcs = new /\ fill'[f].traces = seen
        /\ fill'[f].q = fill[f].q /\ \A g \in Fills : g # f => fill'[g] = fill[g]
    BY <2>1 DEF FillInv, FillTypes, FillRecords
  <2>3. FillTypes'
    BY <1>1, <2>1, <2>2, ZenonT(60) DEF FillInv, FillTypes, FillRecords
  <2>4. /\ running'[d] = running[d] \union new
        /\ \A e \in Dest : running[e] \subseteq running'[e]
    BY <1>1 DEF FillInv, FillTypes, FillRecords
  <2>5. ASSUME NEW g \in Fills, Claiming(g)'
        PROVE  /\ fill'[g].srcs \subseteq running'[DestOf[fill'[g].q]]
               /\ fill'[g].traces \subseteq fill'[g].srcs
    <3>1. CASE g = f
      BY <2>2, <2>4, <3>1
    <3>2. CASE g # f
      <4>1. Claiming(g) /\ fill'[g] = fill[g] /\ DestOf[fill[g].q] \in Dest
        BY <2>2, <2>5, <3>2, AtlasAssumption DEF Claiming, FillInv, FillTypes, FillRecords
      <4> QED
        BY <2>4, <4>1 DEF FillInv, ClaimInv
    <3> QED
      BY <3>1, <3>2
  <2>6. ASSUME NEW g \in Fills, g # f, Claiming(g)', DestOf[fill'[g].q] = d
        PROVE  fill'[g].srcs \intersect new = {}
    BY <2>2, <2>6 DEF FillInv, ClaimInv, Claiming
  <2>7. ASSUME NEW g \in Fills, NEW h \in Fills, Claiming(g)', Claiming(h)', g # h,
               DestOf[fill'[g].q] = DestOf[fill'[h].q]
        PROVE  fill'[g].srcs \intersect fill'[h].srcs = {}
    <3>1. CASE g # f /\ h # f
      BY <2>2, <2>7, <3>1 DEF FillInv, ClaimInv, Claiming
    <3>2. CASE g = f
      BY <2>2, <2>6, <2>7, <3>2
    <3>3. CASE h = f
      BY <2>2, <2>6, <2>7, <3>3
    <3> QED
      BY <3>1, <3>2, <3>3
  <2> QED
    BY <2>3, <2>5, <2>7 DEF FillInv, ClaimInv
<1> QED
  BY <1>2, <1>3

-----------------------------------------------------------------------------

\* No step of a fill, a client or the database breaks the claims.
LEMMA FillStep == FillInv /\ [Next]_vars => FillInv'
<1> SUFFICES ASSUME FillInv, [Next]_vars PROVE FillInv'
  OBVIOUS
<1>1. ASSUME UNCHANGED <<running, fill, nextID>> PROVE FillInv'
  BY <1>1 DEF FillInv, FillTypes, FillRecords, ClaimInv, Claiming
<1>2. ASSUME NEW c \in Client, (\E q \in Query : Ask(c, q)) \/ UseToken(c) \/ LookUp(c)
      PROVE  FillInv'
  BY <1>1, <1>2 DEF Ask, UseToken, LookUp
<1>3. ASSUME NEW c \in Client, NEW q \in Query, AskAndFill(c, q) PROVE FillInv'
  <2> DEFINE r == [NoFill EXCEPT !.pc = "sources", !.q = q]
             f == nextID + 1
  <2>1. r \in FillRecords /\ r.pc = "sources" /\ r.q \in Query
    BY DEF NoFill, FillRecords
  <2>2. f \in Fills /\ fill' = [fill EXCEPT ![f] = r] /\ running' = running /\ nextID' = f
    BY <1>3, AtlasAssumption DEF AskAndFill, FillInv, FillTypes, FillRecords, Fills
  <2> HIDE DEF r, f
  <2>3. \A g \in Fills : /\ fill'[g] \in FillRecords
                         /\ fill'[g].pc # "none" => fill'[g].q \in Query
                         /\ Claiming(g)' => Claiming(g) /\ fill'[g] = fill[g]
    BY <2>1, <2>2 DEF FillInv, FillTypes, FillRecords, Claiming
  <2>4. FillTypes'
    BY <2>1, <2>2, <2>3, AtlasAssumption DEF FillInv, FillTypes, FillRecords, Fills
  <2>5. ClaimInv'
    BY <2>2, <2>3 DEF FillInv, ClaimInv
  <2> QED
    BY <2>4, <2>5 DEF FillInv
<1>4. ASSUME NEW f \in Fills, GetSrcs(f) PROVE FillInv'
  <2>1. PICK R \in SUBSET Source : fill' = [fill EXCEPT ![f].pc = "claim", ![f].srcs = R]
    BY <1>4 DEF GetSrcs, OnePerSite
  <2> DEFINE r == [fill[f] EXCEPT !.pc = "claim", !.srcs = R]
  <2>2. r \in FillRecords /\ r.pc = "claim" /\ r.q \in Query
    BY <1>4, ZenonT(60) DEF GetSrcs, FillInv, FillTypes, FillRecords
  <2>3. fill' = [fill EXCEPT ![f] = r] /\ UNCHANGED <<running, nextID>>
    BY <1>4, <2>1 DEF GetSrcs, FillInv, FillTypes, FillRecords
  <2> HIDE DEF r
  <2> QED
    BY <2>2, <2>3, MoveKeepsClaims
<1>5. ASSUME NEW f \in Fills, TryAdd(f) PROVE FillInv'
  BY <1>5, TryAddClaims
<1>6. ASSUME NEW f \in Fills, NEW pc \in {"start", "trace", "abandoned"}, Claiming(f),
             fill' = [fill EXCEPT ![f].pc = pc], UNCHANGED <<running, nextID>>
      PROVE  FillInv'
  <2> DEFINE r == [fill[f] EXCEPT !.pc = pc]
  <2>1. /\ r \in FillRecords /\ r.q \in Query /\ r.q = fill[f].q /\ r.srcs = fill[f].srcs
        /\ r.traces = fill[f].traces
    BY <1>6 DEF FillInv, FillTypes, FillRecords, Claiming
  <2>2. fill' = [fill EXCEPT ![f] = r]
    BY <1>6 DEF FillInv, FillTypes, FillRecords
  <2> HIDE DEF r
  <2> QED
    BY <1>6, <2>1, <2>2, MoveKeepsClaims
<1>7. ASSUME NEW f \in Fills, Reserve(f) PROVE FillInv'
  BY <1>6, <1>7 DEF Reserve, Claiming
<1>8. ASSUME NEW f \in Fills, Start(f) PROVE FillInv'
  BY <1>6, <1>8, RemoveKeepsClaims DEF Start, Claiming
<1>9. ASSUME NEW f \in Fills, Result(f) PROVE FillInv'
  <2>1. PICK s \in fill[f].traces : fill' = [fill EXCEPT ![f].traces = @ \ {s}]
    BY <1>9 DEF Result
  <2> DEFINE r == [fill[f] EXCEPT !.traces = @ \ {s}]
  <2>2. /\ r \in FillRecords /\ r.q \in Query /\ r.q = fill[f].q /\ r.srcs = fill[f].srcs
        /\ r.traces \subseteq fill[f].traces
    BY <1>9 DEF Result, FillInv, FillTypes, FillRecords
  <2>3. fill' = [fill EXCEPT ![f] = r] /\ UNCHANGED <<running, nextID>> /\ Claiming(f)
    BY <1>9, <2>1 DEF Result, FillInv, FillTypes, FillRecords, Claiming
  <2> HIDE DEF r
  <2> QED
    BY <2>2, <2>3, MoveKeepsClaims
<1>10. ASSUME NEW f \in Fills, StreamEnds(f) PROVE FillInv'
  BY <1>10, RemoveKeepsClaims DEF StreamEnds, Claiming
<1>11. ASSUME NEW t, Age(t) PROVE FillInv'
  BY <1>1, <1>11 DEF Age
<1>12. CASE Restart
  <2>1. fill' = [f \in Fills |-> NoFill] /\ running' = [d \in Dest |-> {}] /\ nextID' = 0
    BY <1>12 DEF Restart, FillInv, FillTypes
  <2>2. NoFill \in FillRecords /\ NoFill.pc = "none" /\ 0 \in 0 .. MaxToken
    BY AtlasAssumption DEF NoFill, FillRecords
  <2> QED
    BY <2>1, <2>2 DEF FillInv, FillTypes, ClaimInv, Claiming
<1>13. CASE UNCHANGED vars
  BY <1>1, <1>13 DEF vars
<1>14. DOMAIN fill = Fills
  BY DEF FillInv, FillTypes, FillRecords
<1> QED
  BY <1>2, <1>3, <1>4, <1>5, <1>7, <1>8, <1>9, <1>10, <1>11, <1>12, <1>13, <1>14 DEF Next, Fill

\* The claims hold from the start.
THEOREM FillInvariance == Spec => []FillInv
<1>1. Init => FillInv
  BY AtlasAssumption DEF Init, NoFill, FillInv, FillTypes, FillRecords, ClaimInv, Claiming, Fills
<1> QED
  BY <1>1, FillStep, PTL DEF Spec

\* runningTraces keeps two fills from tracing from one vantage point to one
\* destination at the same time.
THEOREM NoTraceRunsTwice == Spec => []NoTraceTwice
<1>1. FillInv => NoTraceTwice
  BY DEF FillInv, FillTypes, FillRecords, ClaimInv, Claiming, NoTraceTwice, Fills
<1> QED
  BY <1>1, FillInvariance, PTL

-----------------------------------------------------------------------------
(* Tokens and the paths they are exchanged for.                            *)

Traces == [src : Source, dst : Dest, hops : SUBSET (Hop \union Source)]
Entries == [id : Nat, q : Query]
ClientRecords == [pc : {"idle", "token", "lookup", "done"}, q : Query \union {None},
                  token : Nat, epoch : Nat, req : Query \union {None},
                  path : Traces \union {None}]

ClientTypes ==
  /\ store \subseteq Traces
  /\ cache \in Seq(Entries)
  /\ crashes \in Nat
  /\ client \in [Client -> ClientRecords]

\* The cache holds ids that have been given out since the last restart.
CacheInv == \A i \in DOMAIN cache : cache[i].id \in 1 .. nextID

\* A client whose token was given out since the last restart finds its own
\* query under it, and looks that up; a path it has is a path for its query.
Mine(r) ==
  /\ r.epoch <= crashes
  /\ r.pc \in {"token", "lookup"} => r.token # 0
  /\ r.pc # "done" => r.path = None
  /\ r.pc = "token" /\ r.epoch = crashes =>
       /\ r.token <= nextID
       /\ \A i \in DOMAIN cache : cache[i].id = r.token => cache[i].q = r.q
  /\ r.pc = "lookup" => r.req \in Query /\ (r.epoch = crashes => r.req = r.q)
  /\ r.pc = "done" /\ r.path # None =>
       \/ /\ r.path.dst = DestOf[r.q] /\ HopOf[r.q] \in r.path.hops
          /\ r.q \in IgnoreSource => r.path.src # SrcOf[r.q]
       \/ r.token # 0 /\ r.epoch < crashes

ClientInv == ClientTypes /\ CacheInv /\ \A c \in Client : Mine(client[c])

\* lru.Add leaves entries that were there and the new one.
LEMMA AddTokenKeeps ==
  ASSUME cache \in Seq(Entries), NEW id \in Nat, NEW q \in Query, AddToken(id, q)
  PROVE  /\ cache' \in Seq(Entries)
         /\ \A i \in DOMAIN cache' : \/ cache'[i] = [id |-> id, q |-> q]
                                     \/ \E j \in DOMAIN cache : cache'[i] = cache[j]
<1> DEFINE new == [id |-> id, q |-> q]
           all == Append(cache, new)
<1>1. new \in Entries
  BY DEF Entries
<1> HIDE DEF new
<1>2. /\ all \in Seq(Entries) /\ Len(all) = Len(cache) + 1 /\ Len(cache) \in Nat
      /\ \A i \in 1 .. Len(all) : IF i <= Len(cache) THEN all[i] = cache[i] ELSE all[i] = new
  BY <1>1
<1>3. cache' = all \/ cache' = Tail(all)
  BY DEF AddToken, new
<1> HIDE DEF all
<1>4. /\ Tail(all) \in Seq(Entries) /\ Len(Tail(all)) = Len(cache)
      /\ \A i \in 1 .. Len(Tail(all)) : Tail(all)[i] = all[i + 1]
  BY <1>2
<1>5. DOMAIN all = 1 .. Len(all) /\ DOMAIN Tail(all) = 1 .. Len(Tail(all)) /\ DOMAIN cache = 1 .. Len(cache)
  BY <1>2, <1>4
<1>6. CASE cache' = all
  BY <1>2, <1>5, <1>6 DEF new
<1>7. CASE cache' = Tail(all)
  BY <1>2, <1>4, <1>5, <1>7 DEF new
<1> QED
  BY <1>3, <1>6, <1>7

\* Removing an entry leaves the others.
LEMMA WithoutKeeps ==
  ASSUME cache \in Seq(Entries), NEW i \in DOMAIN cache
  PROVE  /\ Without(i) \in Seq(Entries)
         /\ \A k \in DOMAIN Without(i) : \E j \in DOMAIN cache : Without(i)[k] = cache[j]
<1>1. Len(cache) \in Nat \ {0} /\ DOMAIN cache = 1 .. Len(cache) /\ i \in 1 .. Len(cache)
  OBVIOUS
<1>2. \A k \in 1 .. Len(cache) - 1 : (IF k < i THEN k ELSE k + 1) \in DOMAIN cache
  BY <1>1
<1>3. Len(cache) - 1 \in Nat /\ Without(i) \in [1 .. Len(cache) - 1 -> Entries]
  BY <1>1, <1>2 DEF Without
<1>4. Without(i) \in Seq(Entries)
  BY <1>3, SeqDef
<1>5. \A k \in DOMAIN Without(i) : Without(i)[k] = cache[IF k < i THEN k ELSE k + 1]
  BY DEF Without
<1> QED
  BY <1>2, <1>3, <1>4, <1>5

\* A client moves, and the cache and the ids given out are the same.
LEMMA ClientMoves ==
  ASSUME ClientInv, NEW c \in Client, NEW r \in ClientRecords, Mine(r),
         client' = [client EXCEPT ![c] = r], UNCHANGED <<store, cache, nextID, crashes>>
  PROVE  ClientInv'
<1>1. ClientTypes' /\ CacheInv'
  BY DEF ClientInv, ClientTypes, CacheInv
<1>2. \A b \in Client : client'[b] = IF b = c THEN r ELSE client[b]
  BY DEF ClientInv, ClientTypes
<1>3. ASSUME NEW b \in Client PROVE Mine(client[b])'
  BY <1>2 DEF ClientInv, Mine
<1> QED
  BY <1>1, <1>3 DEF ClientInv

\* What a query is answered with passes its hop to its destination.
LEMMA IntersectingAnswers ==
  ASSUME ClientTypes, NEW q \in Query, NEW p \in Intersecting(q) \union {None}
  PROVE  /\ p \in Traces \union {None}
         /\ p # None => /\ p.dst = DestOf[q] /\ HopOf[q] \in p.hops
                        /\ q \in IgnoreSource => p.src # SrcOf[q]
  BY DEF ClientTypes, Intersecting

\* A new token is known to nobody else, and leads to the query it is for.
LEMMA TokenIsNew ==
  ClientInv /\ nextID \in Nat /\ (\E c \in Client, q \in Query : AskAndFill(c, q)) => ClientInv'
<1> SUFFICES ASSUME ClientInv, nextID \in Nat, NEW c \in Client, NEW q \in Query, AskAndFill(c, q)
             PROVE  ClientInv'
  OBVIOUS
<1> DEFINE r == [pc |-> "token", q |-> q, token |-> nextID + 1,
                 epoch |-> crashes, req |-> None, path |-> None]
<1>1. /\ nextID' = nextID + 1 /\ client' = [client EXCEPT ![c] = r]
      /\ UNCHANGED <<store, crashes>> /\ AddToken(nextID + 1, q)
  BY DEF AskAndFill
<1>2. /\ cache' \in Seq(Entries)
      /\ \A i \in DOMAIN cache' : \/ cache'[i] = [id |-> nextID + 1, q |-> q]
                                  \/ \E j \in DOMAIN cache : cache'[i] = cache[j]
  <2>1. cache \in Seq(Entries) /\ nextID + 1 \in Nat
    BY DEF ClientInv, ClientTypes
  <2> QED
    BY <1>1, <2>1, AddTokenKeeps
<1>3. r \in ClientRecords
  BY DEF ClientRecords, ClientInv, ClientTypes
<1>4. ClientTypes'
  BY <1>1, <1>2, <1>3 DEF ClientInv, ClientTypes
<1>5. ASSUME NEW i \in DOMAIN cache'
      PROVE  /\ cache'[i].id \in 1 .. nextID + 1
             /\ cache'[i].id = nextID + 1 => cache'[i].q = q
             /\ cache'[i].id # nextID + 1 => \E j \in DOMAIN cache : cache'[i] = cache[j]
  BY <1>2 DEF ClientInv, CacheInv
<1>6. CacheInv'
  BY <1>1, <1>5 DEF CacheInv
<1>7. ASSUME NEW b \in Client PROVE Mine(client[b])'
  <2>1. CASE b = c
    <3>1. client'[b] = r
      BY <1>1, <2>1 DEF ClientInv, ClientTypes
    <3> QED
      BY <1>1, <1>5, <3>1 DEF Mine, ClientInv, ClientTypes
  <2>2. CASE b # c
    <3>1. client'[b] = client[b] /\ Mine(client[b]) /\ client[b] \in ClientRecords
      BY <1>1, <2>2 DEF ClientInv, ClientTypes
    <3> QED
      BY <1>1, <1>5, <3>1 DEF Mine, ClientRecords
  <2> QED
    BY <2>1, <2>2
<1> QED
  BY <1>4, <1>6, <1>7 DEF ClientInv

\* GetPathsWithToken goes on with the query that was cached, and the token is
\* gone for the others.
LEMMA TokenIsUsed == ClientInv /\ (\E c \in Client : UseToken(c)) => ClientInv'
<1> SUFFICES ASSUME ClientInv, NEW c \in Client, UseToken(c) PROVE ClientInv'
  OBVIOUS
<1>1. client[c] \in ClientRecords /\ Mine(client[c]) /\ client[c].pc = "token"
  BY DEF ClientInv, ClientTypes, UseToken
<1>2. CASE Cached(client[c].token) = {}
  <2> DEFINE r == [client[c] EXCEPT !.pc = "done"]
  <2>1. r \in ClientRecords /\ client' = [client EXCEPT ![c] = r]
    BY <1>1, <1>2 DEF UseToken, ClientRecords
  <2>2. Mine(r)
    BY <1>1 DEF ClientRecords, Mine
  <2>3. UNCHANGED <<store, cache, nextID, crashes>>
    BY <1>2 DEF UseToken
  <2> HIDE DEF r
  <2> QED
    BY <2>1, <2>2, <2>3, ClientMoves
<1>3. CASE Cached(client[c].token) # {}
  <2>1. PICK i \in Cached(client[c].token) :
          /\ client' = [client EXCEPT ![c].pc = "lookup", ![c].req = cache[i].q]
          /\ cache' = Without(i)
    BY <1>3 DEF UseToken
  <2> DEFINE r == [client[c] EXCEPT !.pc = "lookup", !.req = cache[i].q]
  <2>2. i \in DOMAIN cache /\ cache[i].id = client[c].token /\ cache[i].q \in Query
    <3>1. cache[i] \in Entries
      BY <2>1 DEF Cached, ClientInv, ClientTypes
    <3> QED
      BY <2>1, <3>1 DEF Cached, Entries
  <2>3. r \in ClientRecords /\ client' = [client EXCEPT ![c] = r] /\ Mine(r)
    BY <1>1, <2>1, <2>2 DEF ClientRecords, Mine
  <2> HIDE DEF r
  <2>4. /\ cache' \in Seq(Entries)
        /\ \A k \in DOMAIN cache' : \E j \in DOMAIN cache : cache'[k] = cache[j]
    BY <2>1, <2>2, WithoutKeeps DEF ClientInv, ClientTypes
  <2>5. UNCHANGED <<store, nextID, crashes>>
    BY DEF UseToken
  <2>6. ClientTypes' /\ CacheInv'
    BY <2>3, <2>4, <2>5 DEF ClientInv, ClientTypes, CacheInv
  <2>7. ASSUME NEW b \in Client PROVE Mine(client[b])'
    <3>1. client'[b] = IF b = c THEN r ELSE client[b]
      BY <2>3 DEF ClientInv, ClientTypes
    <3>2. Mine(client'[b])
      BY <2>3, <3>1 DEF ClientInv
    <3> QED
      BY <2>4, <2>5, <3>2 DEF Mine
  <2> QED
    BY <2>6, <2>7 DEF ClientInv
<1> QED
  BY <1>2, <1>3

\* No step breaks it.  The types of fills are needed where a result is stored.
LEMMA ClientStep == FillInv /\ ClientInv /\ [Next]_vars => ClientInv'
<1> SUFFICES ASSUME FillInv, ClientInv, [Next]_vars PROVE ClientInv'
  OBVIOUS
<1>1. ASSUME UNCHANGED <<cache, nextID, client, crashes>>, store' \subseteq Traces PROVE ClientInv'
  BY <1>1 DEF ClientInv, ClientTypes, CacheInv, Mine
<1>2. ASSUME NEW c \in Client, NEW q \in Query, Ask(c, q) PROVE ClientInv'
  <2>1. PICK p \in Intersecting(q) \union {None} :
          client' = [client EXCEPT ![c] = [@ EXCEPT !.pc = "done", !.q = q, !.path = p]]
    BY <1>2 DEF Ask
  <2> DEFINE r == [client[c] EXCEPT !.pc = "done", !.q = q, !.path = p]
  <2>2. client[c] \in ClientRecords /\ Mine(client[c])
    BY DEF ClientInv, ClientTypes
  <2>3. /\ p \in Traces \union {None}
        /\ p # None => /\ p.dst = DestOf[q] /\ HopOf[q] \in p.hops
                       /\ q \in IgnoreSource => p.src # SrcOf[q]
    BY IntersectingAnswers DEF ClientInv
  <2>4. r \in ClientRecords /\ Mine(r)
    BY <2>2, <2>3 DEF ClientRecords, Mine
  <2>5. client' = [client EXCEPT ![c] = r] /\ UNCHANGED <<store, cache, nextID, crashes>>
    BY <1>2, <2>1 DEF Ask, ClientInv, ClientTypes
  <2> HIDE DEF r
  <2> QED
    BY <2>4, <2>5, ClientMoves
<1>3. ASSUME NEW c \in Client, NEW q \in Query, AskAndFill(c, q) PROVE ClientInv'
  BY <1>3, TokenIsNew DEF FillInv, FillTypes
<1>4. ASSUME NEW c \in Client, UseToken(c) PROVE ClientInv'
  BY <1>4, TokenIsUsed
<1>5. ASSUME NEW c \in Client, LookUp(c) PROVE ClientInv'
  <2>1. PICK p \in Intersecting(client[c].req) \union {None} :
          client' = [client EXCEPT ![c].pc = "done", ![c].path = p, ![c].req = None]
    BY <1>5 DEF LookUp
  <2> DEFINE r == [client[c] EXCEPT !.pc = "done", !.path = p, !.req = None]
  <2>2. client[c] \in ClientRecords /\ Mine(client[c]) /\ client[c].pc = "lookup"
    BY <1>5 DEF ClientInv, ClientTypes, LookUp
  <2>3. client[c].req \in Query
    BY <2>2 DEF Mine
  <2>4. /\ p \in Traces \union {None}
        /\ p # None => LET q == client[c].req IN
             /\ p.dst = DestOf[q] /\ HopOf[q] \in p.hops
             /\ q \in IgnoreSource => p.src # SrcOf[q]
    BY <2>3, IntersectingAnswers DEF ClientInv
  <2>5. r \in ClientRecords
    BY <2>2, <2>4 DEF ClientRecords
  <2>6. client[c].epoch < crashes \/ client[c].req = client[c].q
    BY <2>2 DEF Mine, ClientRecords, ClientInv, ClientTypes
  <2>7. Mine(r)
    BY <2>2, <2>4, <2>6 DEF Mine, ClientRecords
  <2>8. client' = [client EXCEPT ![c] = r] /\ UNCHANGED <<store, cache, nextID, crashes>>
    BY <1>5, <2>1 DEF LookUp, ClientInv, ClientTypes
  <2> HIDE DEF r
  <2> QED
    BY <2>5, <2>7, <2>8, ClientMoves
<1>6. ASSUME NEW f \in Fills, Result(f) PROVE ClientInv'
  <2>1. PICK s \in fill[f].traces :
          \/ store' = store
          \/ store' = store \union {[src |-> s, dst |-> DestOf[fill[f].q], hops |-> {s} \union Route[s]]}
    BY <1>6 DEF Result
  <2>2. s \in Source /\ DestOf[fill[f].q] \in Dest /\ Route[s] \subseteq Hop
    BY <1>6, <2>1, AtlasAssumption DEF Result, FillInv, FillTypes, FillRecords
  <2>3. [src |-> s, dst |-> DestOf[fill[f].q], hops |-> {s} \union Route[s]] \in Traces
    BY <2>2 DEF Traces
  <2>4. store' \subseteq Traces
    BY <2>1, <2>3 DEF ClientInv, ClientTypes
  <2> QED
    BY <1>1, <1>6, <2>4 DEF Result
<1>7. ASSUME NEW f \in Fills,
             GetSrcs(f) \/ TryAdd(f) \/ Reserve(f) \/ Start(f) \/ StreamEnds(f)
      PROVE  ClientInv'
  BY <1>1, <1>7 DEF GetSrcs, TryAdd, Reserve, Start, StreamEnds, ClientInv, ClientTypes
<1>8. ASSUME NEW t, Age(t) PROVE ClientInv'
  BY <1>1, <1>8 DEF Age, ClientInv, ClientTypes
<1>9. CASE Restart
  <2>1. cache' = <<>> /\ crashes' = crashes + 1 /\ store' = store
    BY <1>9 DEF Restart
  <2>2. ASSUME NEW c \in Client
        PROVE  client'[c] \in ClientRecords /\ Mine(client[c])'
    <3>1. client[c] \in ClientRecords /\ Mine(client[c]) /\ crashes \in Nat
      BY DEF ClientInv, ClientTypes
    <3>2. CASE client[c].pc = "lookup"
      <4>1. client'[c] = [client[c] EXCEPT !.pc = "done", !.req = None]
        BY <1>9, <3>2 DEF Restart
      <4>2. client'[c].pc = "done" /\ client'[c].epoch = client[c].epoch
            /\ client'[c].path = client[c].path /\ client'[c] \in ClientRecords
        BY <3>1, <4>1 DEF ClientRecords
      <4>3. client[c].path = None /\ client[c].epoch <= crashes
        BY <3>1, <3>2 DEF Mine
      <4> QED
        BY <2>1, <3>1, <4>2, <4>3 DEF ClientRecords, Mine
    <3>3. CASE client[c].pc # "lookup"
      <4>1. client'[c] = client[c]
        BY <1>9, <3>3 DEF Restart
      <4> QED
        BY <2>1, <3>1, <3>3, <4>1 DEF ClientRecords, Mine
    <3> QED
      BY <3>2, <3>3
  <2>3. ClientTypes'
    <3>1. client' \in [Client -> ClientRecords]
      BY <1>9, <2>2 DEF Restart
    <3>2. cache' \in Seq(Entries) /\ crashes' \in Nat /\ store' \subseteq Traces
      BY <2>1 DEF ClientInv, ClientTypes
    <3> QED
      BY <3>1, <3>2 DEF ClientTypes
  <2> QED
    BY <2>1, <2>2, <2>3 DEF ClientInv, CacheInv
<1>10. CASE UNCHANGED vars
  BY <1>1, <1>10 DEF vars, ClientInv, ClientTypes
<1>11. DOMAIN fill = Fills
  BY DEF FillInv, FillTypes
<1> QED
  BY <1>2, <1>3, <1>4, <1>5, <1>6, <1>7, <1>8, <1>9, <1>10, <1>11 DEF Next, Fill

\* A client gets a path for its own query, or comes back with a token from
\* before a restart of the server.
THEOREM PathsAreOwn == Spec => []OwnPath
<1>1. Init => ClientInv
  BY AtlasAssumption DEF Init, ClientInv, ClientTypes, ClientRecords, CacheInv, Mine
<1>2. ClientInv => OwnPath
  BY DEF ClientInv, Mine, OwnPath
<1> QED
  BY <1>1, <1>2, ClientStep, FillInvariance, PTL DEF Spec

=============================================================================
