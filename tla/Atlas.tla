-------------------------------- MODULE Atlas --------------------------------
(***************************************************************************)
(* The traceroute atlas (atlas/server/server.go, atlas/repo/repo.go and    *)
(* the streams of atlas/api/api.go).                                       *)
(*                                                                         *)
(* A client asks for a traceroute to a destination that intersects a hop.  *)
(* If none is stored it gets a token, and the server runs traceroutes to   *)
(* the destination from one vantage point of each site (fillAtlas); with   *)
(* the token the client asks once more later.  The map of running traces   *)
(* keeps two fills from running one traceroute twice.                      *)
(*                                                                         *)
(* A query is one hop, destination and source; all queries ask for one     *)
(* freshness, and a stored traceroute is fresh until Age.  Of several that *)
(* match, the database may give any (the code asks for the newest).        *)
(* Aliases of a hop are the same hop.                                      *)
(***************************************************************************)
EXTENDS Naturals, Sequences, FiniteSets

CONSTANTS Client, \* each asks once
          Query, Hop, Dest, Source, Site,
          HopOf, DestOf, SrcOf, \* of a query; a hop may be a vantage point
          IgnoreSource,         \* queries not answered by traces of their source
          SiteOf, Route,        \* of a vantage point: the hops its traceroutes pass
          CacheSize, Burst,     \* of the token cache and the rate limiter
          MaxToken, MaxStored, MaxCrashes, \* bounds of the model
          None

ASSUME AtlasAssumption ==
  /\ HopOf \in [Query -> Hop] /\ DestOf \in [Query -> Dest] /\ SiteOf \in [Source -> Site]
  /\ Route \in [Source -> SUBSET Hop]
  /\ IgnoreSource \subseteq Query /\ IsFiniteSet(Source)
  /\ CacheSize \in Nat \ {0} /\ Burst \in Nat /\ MaxToken \in Nat /\ MaxStored \in Nat /\ MaxCrashes \in Nat

VARIABLES store,    \* traceroutes: [src, dst, hops]
          cache,    \* the token cache, the token used last at the end: <<[id, q], ...>>
          nextID,
          running,  \* dstToSrcs of runningTraces
          fill,     \* token -> the fillAtlas started with it: [pc, q, srcs, traces]
          client,   \* [pc, q, token, epoch] of a client, the query the cache had for its
                    \* token (req), and the path it got
          crashes

vars == <<store, cache, nextID, running, fill, client, crashes>>

NoFill == [pc |-> "none", q |-> None, srcs |-> {}, traces |-> {}]

Init ==
  /\ store = {} /\ cache = <<>> /\ nextID = 0 /\ crashes = 0
  /\ running = [d \in Dest |-> {}]
  /\ fill = [t \in 1 .. MaxToken |-> NoFill]
  /\ client = [c \in Client |-> [pc |-> "idle", q |-> None, token |-> 0, epoch |-> 0,
                               req |-> None, path |-> None]]

(* The traceroutes FindIntersectingTraceroute may answer a query with.     *)
Intersecting(q) ==
  {t \in store : /\ t.dst = DestOf[q] /\ HopOf[q] \in t.hops
                 /\ q \in IgnoreSource => t.src # SrcOf[q]}

-----------------------------------------------------------------------------
(* The token cache: lru.Add evicts the entry used least recently.          *)

AddToken(id, q) ==
  LET all == Append(cache, [id |-> id, q |-> q])
  IN cache' = IF Len(all) > CacheSize THEN Tail(all) ELSE all

Cached(id) == {i \in DOMAIN cache : cache[i].id = id}
Without(i) == [j \in 1 .. Len(cache) - 1 |-> cache[IF j < i THEN j ELSE j + 1]]

-----------------------------------------------------------------------------
(* GetIntersectingPath                                                     *)

(* A query fails, or is answered with a stored path.                       *)
Ask(c, q) ==
  /\ client[c].pc = "idle"
  /\ \E p \in Intersecting(q) \union {None} :
       client' = [client EXCEPT ![c] = [@ EXCEPT !.pc = "done", !.q = q, !.path = p]]
  /\ UNCHANGED <<store, cache, nextID, running, fill, crashes>>

(* Faulty variant: the next id is read, and written, but not atomically    *)
(* incremented.                                                            *)
AskSharesToken(c, q) ==
  /\ client[c].pc = "idle" /\ Intersecting(q) = {} /\ nextID < MaxToken
  /\ \E id \in {nextID + 1} \union (IF nextID > 0 THEN {nextID} ELSE {}) :
       /\ nextID' = id
       /\ cache' = Append(SelectSeq(cache, LAMBDA e : e.id # id), [id |-> id, q |-> q])
       /\ client' = [client EXCEPT ![c] = [pc |-> "token", q |-> q, token |-> id,
                                           epoch |-> crashes, req |-> None, path |-> None]]
       /\ fill' = [fill EXCEPT ![id] = [NoFill EXCEPT !.pc = "sources", !.q = q]]
  /\ UNCHANGED <<store, running, crashes>>

(* Without an intersection it gets a token, and a fill is started.         *)
AskAndFill(c, q) ==
  /\ client[c].pc = "idle" /\ Intersecting(q) = {} /\ nextID < MaxToken
  /\ nextID' = nextID + 1
  /\ AddToken(nextID + 1, q)
  /\ client' = [client EXCEPT ![c] = [pc |-> "token", q |-> q, token |-> nextID + 1,
                                      epoch |-> crashes, req |-> None, path |-> None]]
  /\ fill' = [fill EXCEPT ![nextID + 1] = [NoFill EXCEPT !.pc = "sources", !.q = q]]
  /\ UNCHANGED <<store, running, crashes>>

(* GetPathsWithToken: the token is removed before the path is looked up.   *)
UseToken(c) ==
  /\ client[c].pc = "token"
  /\ IF Cached(client[c].token) = {}
     THEN /\ client' = [client EXCEPT ![c].pc = "done"]
          /\ UNCHANGED cache
     ELSE \E i \in Cached(client[c].token) :
            /\ client' = [client EXCEPT ![c].pc = "lookup", ![c].req = cache[i].q]
            /\ cache' = Without(i)
  /\ UNCHANGED <<store, nextID, running, fill, crashes>>

(* The lookup is for the query that was found in the cache.                *)
LookUp(c) ==
  /\ client[c].pc = "lookup"
  /\ \E p \in Intersecting(client[c].req) \union {None} :
       client' = [client EXCEPT ![c].pc = "done", ![c].path = p, ![c].req = None]
  /\ UNCHANGED <<store, cache, nextID, running, fill, crashes>>

-----------------------------------------------------------------------------
(* fillAtlas                                                               *)

(* One vantage point of each site, that of the hop if it is one.           *)
OnePerSite(S, hop) ==
  {R \in SUBSET S : /\ {SiteOf[s] : s \in R} = {SiteOf[s] : s \in S}
                    /\ \A r, s \in R : SiteOf[r] = SiteOf[s] => r = s
                    /\ hop \in S => hop \in R}

(* getSrcs: of the vantage points known now, those with a fresh traceroute *)
(* to the destination are left out, unless the query for them fails.       *)
GetSrcs(f) ==
  LET q == fill[f].q
      used == {t.src : t \in {u \in store : u.dst = DestOf[q]}} \intersect Source
  IN /\ fill[f].pc = "sources"
     /\ \E known \in SUBSET Source, old \in {used, {}} :
          \E R \in OnePerSite(known \ old, HopOf[q]) :
            fill' = [fill EXCEPT ![f].pc = "claim", ![f].srcs = R]
     /\ UNCHANGED <<store, cache, nextID, running, client, crashes>>

(* Faulty variant: sources that are running already are returned too.      *)
TryAddAll(f) ==
  LET d == DestOf[fill[f].q]
  IN /\ fill[f].pc = "claim"
     /\ running' = [running EXCEPT ![d] = @ \union fill[f].srcs]
     /\ fill' = [fill EXCEPT ![f] = IF fill[f].srcs = {} THEN NoFill
                                    ELSE [@ EXCEPT !.pc = "reserve", !.traces = fill[f].srcs]]
     /\ UNCHANGED <<store, cache, nextID, client, crashes>>

(* TryAdd marks the sources and returns those that were not.  When nothing *)
(* ran to the destination the slice it returns is the one the map holds: a *)
(* later TryAdd sorts it, maybe while this fill reads it, and the fill may *)
(* then miss sources, or see them twice.                                   *)
TryAdd(f) ==
  LET d == DestOf[fill[f].q]
      new == fill[f].srcs \ running[d]
  IN /\ fill[f].pc = "claim"
     /\ running' = [running EXCEPT ![d] = @ \union new]
     /\ IF new = {}
        THEN fill' = [fill EXCEPT ![f] = NoFill]
        ELSE \E seen \in (IF running[d] = {} THEN SUBSET new \ {{}} ELSE {new}) :
               fill' = [fill EXCEPT ![f].pc = "reserve", ![f].srcs = new, ![f].traces = seen]
     /\ UNCHANGED <<store, cache, nextID, client, crashes>>

(* The rate limiter; a fill above its burst returns at once.               *)
Reserve(f) ==
  /\ fill[f].pc = "reserve"
  /\ fill' = [fill EXCEPT ![f].pc = IF Cardinality(fill[f].srcs) > Burst
                                    THEN "abandoned" ELSE "start"]
  /\ UNCHANGED <<store, cache, nextID, running, client, crashes>>

Remove(f) == running' = [running EXCEPT ![DestOf[fill[f].q]] = @ \ fill[f].srcs]

(* Faulty variant: the error path returns without Remove.                  *)
StartForgets(f) ==
  /\ fill[f].pc = "start"
  /\ \/ fill' = [fill EXCEPT ![f].pc = "trace"]
     \/ fill' = [fill EXCEPT ![f] = NoFill]
  /\ UNCHANGED <<store, cache, nextID, running, client, crashes>>

Start(f) ==
  /\ fill[f].pc = "start"
  /\ \/ /\ fill' = [fill EXCEPT ![f].pc = "trace"]
        /\ UNCHANGED running
     \/ /\ fill' = [fill EXCEPT ![f] = NoFill]
        /\ Remove(f)
  /\ UNCHANGED <<store, cache, nextID, client, crashes>>

(* A traceroute comes back.  It is stored, with its source as hop 0, if it *)
(* reached the destination and the transaction commits.                    *)
Result(f) ==
  /\ fill[f].pc = "trace"
  /\ \E s \in fill[f].traces, stored \in {FALSE, Cardinality(store) < MaxStored} :
       /\ fill' = [fill EXCEPT ![f].traces = @ \ {s}]
       /\ store' = IF stored
                   THEN store \union {[src |-> s, dst |-> DestOf[fill[f].q], hops |-> {s} \union Route[s]]}
                   ELSE store
  /\ UNCHANGED <<cache, nextID, running, client, crashes>>

(* The stream ends, complete, with an error, or after 80 seconds.          *)
StreamEnds(f) ==
  /\ fill[f].pc = "trace"
  /\ fill' = [fill EXCEPT ![f] = NoFill]
  /\ Remove(f)
  /\ UNCHANGED <<store, cache, nextID, client, crashes>>

-----------------------------------------------------------------------------
(* Traceroutes get stale; a server that is restarted knows the store only. *)

Age(t) ==
  /\ store' = store \ {t}
  /\ UNCHANGED <<cache, nextID, running, fill, client, crashes>>

Restart ==
  /\ crashes < MaxCrashes
  /\ crashes' = crashes + 1
  /\ cache' = <<>> /\ nextID' = 0
  /\ running' = [d \in Dest |-> {}]
  /\ fill' = [f \in DOMAIN fill |-> NoFill]
  /\ client' = [c \in Client |-> IF client[c].pc = "lookup"
                                 THEN [client[c] EXCEPT !.pc = "done", !.req = None]
                                 ELSE client[c]]
  /\ UNCHANGED store

-----------------------------------------------------------------------------

Fill(f) == GetSrcs(f) \/ TryAdd(f) \/ Reserve(f) \/ Start(f) \/ Result(f) \/ StreamEnds(f)

Next == \/ \E c \in Client : \/ \E q \in Query : Ask(c, q) \/ AskAndFill(c, q)
                             \/ UseToken(c) \/ LookUp(c)
        \/ \E f \in DOMAIN fill : Fill(f)
        \/ \E t \in store : Age(t)
        \/ Restart

Spec == Init /\ [][Next]_vars

(* The goroutine of a fill is scheduled: every call it makes returns, the  *)
(* stream of traceroutes after 80 seconds at most.                         *)
FairSpec == Spec /\ \A f \in 1 .. MaxToken : WF_vars(Fill(f))

-----------------------------------------------------------------------------
(* runningTraces: two fills never run a traceroute from one source to one  *)
(* destination at the same time, however their claims and ends interleave. *)
NoTraceTwice ==
  \A f, g \in DOMAIN fill :
    /\ fill[f].pc = "trace" /\ fill[g].pc = "trace" /\ f # g
    /\ DestOf[fill[f].q] = DestOf[fill[g].q]
    => fill[f].traces \intersect fill[g].traces = {}

(* The path a client gets leads from its own hop to its own destination,   *)
(* and not through a traceroute it wanted ignored.  Only a restart of the  *)
(* server between the token and its use can hand it the path of another:   *)
(* ids start again, and clients keep theirs.                               *)
OwnPath ==
  \A c \in Client : LET q == client[c].q IN
    client[c].pc = "done" /\ client[c].path # None =>
      \/ /\ client[c].path.dst = DestOf[q] /\ HopOf[q] \in client[c].path.hops
         /\ q \in IgnoreSource => client[c].path.src # SrcOf[q]
      \/ client[c].token # 0 /\ client[c].epoch < crashes

(* A source marked as running is released, or a fill above the burst of    *)
(* the rate limiter has left it marked: it is then not used again for that *)
(* destination while the server lives.                                     *)
SourcesAreReleased ==
  \A d \in Dest, s \in Source :
    s \in running[d] ~> \/ s \notin running[d]
                        \/ \E f \in DOMAIN fill : /\ fill[f].pc = "abandoned"
                                                  /\ DestOf[fill[f].q] = d /\ s \in fill[f].srcs
=============================================================================
