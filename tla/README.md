# Reverse Traceroute: a TLA+ development

This directory models the measurement system of the repository in TLA+, checks
the models with TLC on small instances and proves the main safety results of
its concurrent components and of the engine with TLAPS, for every size.  Paths
of source files are relative to `src/`.

| file | what it is |
| --- | --- |
| `RevtrPaths.tla` | data of a reverse traceroute: segments, paths, loop removal, joins |
| `RRReply.tla` | `processRR`: what a record route reply says of the way back |
| `RRPacket.tla` | the replies it is given: routers stamp a packet one after the other |
| `Revtr.tla` | the engine that runs one reverse traceroute, with its properties |
| `RevtrWeb.tla` | the server's web side: pages, web sockets, statuses of a run |
| `RevtrBatch.tla` | the server's API side: quota, batches, what is stored and answered |
| `Controller.tla` | pings and traceroutes over cache, database and router; spoofed probes |
| `Atlas.tla` | intersection queries, tokens, running traceroutes, fills |
| `VPService.tla` | the list of vantage points, their tests and quarantines |
| `PlController.tla` | the socket directory, the table of sockets, streams, shutdown |
| `ScamperSocket.tla` | a scamper control socket, its goroutines and its callers |
| `Measurements.tla` | abstract specification the socket implements |
| `VantagePoint.tla` | the agent on a vantage point and the keeper of its scamper |
| `ScamperWriter.tla`, `Warts.tla` | results as scamper writes them; their decoding |
| `Records.tla` | results converted, stored and read back |
| `RevtrProofs.tla` | theorems about the engine, its paths and record route replies |
| `RevtrWebProofs.tla`, `RevtrBatchProofs.tla` | theorems about the server |
| `ControllerProofs.tla`, `PlControllerProofs.tla` | theorems about the controllers |
| `AtlasProofs.tla` | theorems about the atlas |
| `VantagePointProofs.tla` | theorems about `VPService` and `VantagePoint` |
| `ScamperSocketProofs.tla` | theorems about the socket |
| `MC*.tla`, `*.cfg` | instances for TLC, one `.cfg` per run |

Operators named `...Keeping...`, `...Forgetting` and the like, marked "Faulty
variant", are plausible bugs of the code.  No specification uses them: they
replace the definition below them when one wants to see that a property can
fail (`mutants` in `PROJECT.json`).

## 1. The system

A user asks for the path packets take from a destination *back* to a source he
controls.  No traceroute shows it; the engine pieces it together.

    v1api, v2api ── revtr server ── engine (batch.run, one goroutine a request)
                                      │          │            │
                                    atlas     vpservice    controller ── cache, database
                                      └──────────┴──────────┐ │
                                                            router
                                                              │
                                  plcontroller ── scamper.Client ── Socket (one per
                                      │                              vantage point)
                                   spoofmap ◄── recSpoof ── plvp (agent on the
                                                            vantage point)

### Inventory

**Engine** (`revtr/runner`). State: one `ReverseTraceroute` per request, owned
by one goroutine. Operations: the steps `backoffEndhost`, `trToSource`,
`recordRoute`, `timestamp`, `backgroundTRS`, `assumeSymmetric`, and
`checkbgTRs` between them. Calls: atlas, vantage point service, controller,
adjacency table, all with deadlines. Hard: a step reads what steps long before
it cached (tokens, lists of vantage points, dead ends), each call may fail, the
context may be cancelled at any time. Correct when: it ends; the outcome it
reports is true of its paths; no path loops; no dead end is tried again; a hop
that does not answer is left alone in time; its `panic` assertions fail for known
causes only.

**Data of the engine** (`revtr/reverse_traceroute`, `revtr/clustermap`). State:
the stack of candidate paths, segments, dead ends. Operations: `AddSegments`
with `RemoveHops` and the order of `magicSort`, `AddBackgroundTRSegment`,
`FailCurrPath`, `AddAndReplaceSegment`, `AddHop`. Hard: addresses, aliases and
unknown hops ("0.0.0.0") are compared in different ways in different places.

**Control socket** (`scamper/socket.go`). State: `state`, `userID` under `mu`;
`cmdMap` under its own lock; a channel per command; the bounded channel
`write`. Goroutines: `readConn`, one more per result, `writeConn`, the callers,
whoever calls `Stop`. Hard: all of it is concurrency. Correct when: a caller
gets its own result; nobody waits for its timeout on a closed socket; `mu`,
held while sending to a bounded channel, is no deadlock; goroutines end.

**plcontroller** (`plcontroller/`, `scamper/client.go`, `watcher/`). State: a
socket per address, claims in the database, the streams of callers.
Operations: `Ping` and `Traceroute` streams of `runPing` and `runTraceroute`,
`handlEvents` on the socket directory, shutdown. Hard: the socket of an address
may be another one than when the measurement, or the event, began. Correct when:
directory, table and database come to agree, and no command is left behind.

**Controller** (`controller/`). State: the map of spoofed ids and their groups,
the cache, the database. `doPing`, `doTraceroute`: looked up, measured, spoofed,
fanned in to one stream; `Notify`, called for vantage points. Hard: lost and
late probes against timeouts; goroutines that send on channels nobody reads any
more. Correct when: a probe reaches its own group or nobody, a group's channel
is closed once, a call that is over leaves nothing in the map.

**revtr server** (`revtr/server`, `revtr/repository`, `cmd/revtr`). State: the
maps `revtrs`, `running` and `rr.rts`, an output channel per run, batches in the
database. Operations: `AddRevtr`, `StartRevtr`, web sockets; `RunRevtr`,
`GetRevtr`. Hard: two locks and a channel with several readers; a quota checked
before it is used; results stored while they are read; a crash in between.
Correct when: a run is measured once, tabs see how it ends, answers are whole.

**Atlas** (`atlas/`). State: tokens in a cache, the set of running traceroutes,
the database. Operations: `GetIntersectingPath`, `GetPathsWithToken`,
`fillAtlas`. Hard: fills choose and claim sources in separate steps; tokens
outlive the server that gave them. Correct when: no traceroute runs twice at a
time, no source stays marked, a token leads to its own query.

**Vantage point service** (`vpservice/`). State: vantage points, quarantines and
events, in the database. Operations: following the controller's list, testing,
quarantining, releasing; operators' requests. Hard: three parties decide on what
they read earlier. Correct when: events match the table, quarantines end when
they should and not before.

**Agent and process manager** (`plvp/`, `mproc/`). State: the process, its
retries, the probes gathered. Hard: shutdown while the keeper is about to restart
the process. Correct when: nothing is left running, and probes are sent.

**Results** (`uuencode/`, `warts/`, `datamodel/`, `dataaccess/sql`). Functions
from scamper's output to rows and back. Correct when: nothing is lost on the way.

**Others**: `router` (one service and a count of references), `spoofmap` (unused
in this release), caches, tools, configuration.

## 2. Plan

Most important behaviour first.

1. `RevtrPaths`, `RRReply`, `Revtr`: the engine. *Done.*
2. `ScamperSocket` with the abstract `Measurements`, and its proofs. *Done.*
3. `Controller`, with the spoofed probes. *Done.*
4. `PlController`: several sockets per address, directory events. *Done.*
5. `RevtrWeb`, `RevtrBatch`: the server. *Done.*
6. `Atlas`, `VPService`, `VantagePoint`. *Done.*
7. `ScamperWriter`, `Warts`, `Records`: results on their way. *Done.*
8. Proofs of the safety invariants of all components. *Done*, but for the results
   (`DecodedIsSent`, `StoredIsFound`), which section 13 explains.

Runs stay at two or three actors, ids or sockets: each hazard listed in
`PROJECT.json` needs two actors and one shared entry.

The components meet at three places, and the models say there what the other
side may do. The engine asks services that may answer anything or nothing. A
stream that `Controller` opens gives results in any order or ends; that is what
`PlController` promises of its streams, and a measurement of those is one of
`Measurements`, which `ScamperSocket` implements. A probe that `VantagePoint`
sends goes to plcontroller, which drops it in this release; `Controller` counts
on no probe.

## 3. The engine: `RevtrPaths`, `RRReply`, `Revtr`

### How the model follows the code

* `batch.run` is a loop over steps. `pc = "select"` is the loop's `select`, and
  `step` the function it calls next. `recordRoute` and `timestamp` loop inside:
  `pc = "loop"` is the next round of that loop, which does not look at the
  context. `pc = "checkbg"` is the call of `checkbgTRs` after new segments were
  added. Stopping is `"returned"`, or the name of a panic.
* One action is one round: no other goroutine touches a `ReverseTraceroute`
  while its step runs, so nothing can be observed between the statements.
* `paths` is `*rt.Paths`, a stack whose last element is `CurrPath`; `deadEnd`,
  `vpsLeft`, `rrResponsive`, `adjsLeft`, `stampsZero`, `sendSpoofed` are the maps
  of the same names; `tsResponsive` is the complement of `tsHopResponsive`.
  `sent` is a history variable.
* The environment is nondeterministic: `TrToSource` may find a traceroute, get
  any subset of tokens, or fail; probes are answered by any subset of vantage
  points with any reply in `RRReplies`; and so on. The constants are the network.
* `Cluster` is the cluster map: two addresses in one cluster are aliases. The
  code uses clusters in some comparisons and addresses in others; so does the
  model, one by one. `Zero` is "0.0.0.0".
* `AddSegments` returns a set: segments that the sort finds equal may come in
  either order (they come from a Go map).
* `issueSpoofedTimestamps` composes the time stamp option and leaves it out of
  the measurement. `SpoofedTS` therefore never finds a hop.
* The atlas answers with a traceroute that passes a hop it was asked for
  (`Intersecting`), or with a stray one (`StrayTraces`): to a token of its own it
  may give the path of another request, when it was restarted in between and
  counts from one again; and its own lookup may know an alias that the cluster
  map of the engine lacks, because that keeps a lookup that failed for six hours
  (`clustermap/cluster_map.go:21-25`). `Cluster` is what the map holds during one
  run, failed lookups included; that an entry expires in the middle of a run is
  left out. `strayed` remembers that the last traceroute was a stray one.
* Restrictions on inputs: addresses are global unicast or unknown; source and
  destination are not aliases; traceroutes of the atlas are not empty and end at
  their source, which for a stray one need not be that of the run. The atlas
  stores and joins them so.

### Runs

| run | checks | network |
| --- | --- | --- |
| `MCRevtrSteps` | `NoHopTwice`, `TokensOnCurrentPath`, `Outcome`, `PanicsAreExplained`, `ArrivalIsSeen`, `JoinsAtIntersection` | two vantage points for each hop, unknown hops in replies and in the atlas, aliases of the source and of a router, a forward traceroute that names a router twice, stray traceroutes, cancellation; about 1,040,000 states |
| `MCRevtrEnds` | `UnresponsiveBudget`, `Terminates` | five vantage points for each hop, batches of two, a budget of three; adjacencies; aliases; with and without backing off from the end host; about 110,000 states |

The engine does panic, and it does overlook an arrival, unlike what its comments
say (they are quoted below). Three properties of
`MCRevtrSteps` therefore say what it takes, for any network. They name a panic's
causes (`PanicsAreExplained`), the paths on which an arrival may be overlooked
(`ArrivalIsSeen`) and those that are cut at the wrong place
(`JoinsAtIntersection`). In the run all panics occur but the one of the timestamp
answers, which occurs in `MCRevtrEnds`, and each cause occurs as the only
one of its panic, except that an assumption passes the source: no run reaches
that, and the proof does not exclude it.

### What the engine does not keep

These disagreements with its own comments were found with the networks of
`MCRevtr`; to see one, name the property in the `.cfg` of the run.

* `AddingTracerouteIsPossible` ("That's not possible", `revtr_runner.go:187`
  and `747`) fails in `MCRevtrSteps`: `RemoveHops` skips
  unknown hops when it cuts loops (`segments.go:98-103`) and counts them when it
  looks for those that remain (`segments.go:121`). Other causes are a stray
  traceroute, and a source that has become a dead end.
* `NoneHasReached` ("Assume that any path reaches if and only if the last one
  reaches", `revese_traceroute.go:234`) fails in `MCRevtrSteps`: `AddSegments`
  returns false after it has pushed a path that arrived
  (`revese_traceroute.go:333`). It takes an unknown hop on the path.
* `ProbedOnce` ("and it hasn't been used yet, use it",
  `revese_traceroute.go:676`) fails in `MCRevtrEnds`: when a candidate that a
  spoofed ping found comes to the top of the stack again, its spoofer is put into
  every batch (`revese_traceroute.go:686-702`).
* `JoinsAtIntersection` has the exception `KnownByAlias` ("After reaching the hop
  where they intersect, delete any subsequent hops",
  `revese_traceroute.go:570-573`): the intersection is found by cluster (566), the
  place to cut by address (583). A path that knows the intersection by another
  address, and has hops after it in the same segment, is then continued at another
  hop; if an assumed link names the router twice, the slice may even be out of
  bounds.

A timestamp ping that comes back with an error and no response makes
`processTSCheckForLinuxBug` index out of range. That takes nothing but such an
answer, so `PanicsAreExplained` does not speak of it.

*Bounds.* `RateLimit` is 2 (5 in the code). In `MCRevtrSteps`
`MaxUnresponsive` is 2 and there are two vantage points: one batch, and the hop
has had its share. `MCRevtrEnds` has the hop probed in a second batch, which
takes it over the limit of three, and a fifth vantage point that must then be left
alone; a candidate that comes back has its spoofer in both batches. Adjacencies,
and with them the timestamp step, are in that run only: in `MCRevtrSteps` they
multiply the states, and what it checks is proved with them. Two routers
between source and destination suffice for a detour, a dead end, an alias and an
unknown hop. Nothing is bounded by a counter: the engine ends by itself, and
`Terminates` says so.

*Fairness.* `FairSpec` is weak fairness of `Run`. Every call of a service has a
deadline (`context.WithTimeout` or a client with one), so the goroutine of a run
always takes its next step. Nothing is assumed of what services answer: the
fairness is of the whole step, not of a way it may end.

## 4. The control socket: `ScamperSocket`, `Measurements`

### How the model follows the code

* A measurement `r` stands for its caller (`runPing`, `runTraceroute`), its
  command, its channel and its result. `Register` is `DoMeasurement` up to the
  send on `s.write`, `Enqueue` that send and the unlock: between the two the caller
  holds `mu`. `Refused` are the early returns.
* A reader is the goroutine started for a result: `GetCmd`, `RmCmd`, `Send`
  are three actions, because the lock of `cmdMap` is released between them.
  A result that cannot be parsed leads to a send on a nil channel, and one in
  which nothing is found to a read of the first of no objects.
* `CloseSocket` is one action although `Stop` has several statements: `mu` is
  held throughout and `forEach` holds the lock of `cmdMap` until every channel
  is closed, so nobody sees the middle. It is called by plcontroller (`Stop`)
  and by `handleErr`.
* `WriteCommand` and `Flush` may fail, which resets the buffer and loses the
  commands in it. `ConnectionFails` is the vantage point going away.
* `GiveUp` is the timeout or the end of the caller's context and may come at any
  time, also when a result is ready; then `RemoveMeasurement`.
* A send on a closed channel, like that read, is `process = "panicked"`: it ends the whole process
  and is reachable, when `Stop` comes between `GetCmd` and `RmCmd` of a reader.
  No text of the repository excludes it; the liveness properties allow for it.
* Left out: the two header messages scamper sends first, the text of commands,
  the length of the write buffer (a flush may come at any time).

### Runs

`MCScamperSocket` checks the invariants `OwnAnswer`, `RoomToSend`,
`NobodyForgotten`, `LockHolderIsServed`, and the temporal `ClosedReleasesCallers`
and `Implements`, on two measurements, three ids and a write channel for one command:
about 96,000 states. The types, `TypeOK`, are left to their proof.

`NoLeak`, which the tests of the socket ask for (`util.LeakCheck`,
`scamper_test.go:47`), does not hold: a reader that could not parse its result
sends on a nil channel for ever (`socket.go:282`).

*Bounds.* Two measurements are enough for a result that arrives for the other
one, and for a caller that waits for room while another fills the channel; the
invariants are proved for any number. A write channel with room for one command
(50 in the code) is full as soon as one command waits, so that the next caller
waits with `mu` held.
Ids do not wrap around in the passing runs (2^32 in the code); the proofs
say which results survive a wrap.

*Fairness.* Goroutines that can run do: weak fairness of the caller's steps,
of each reader, of `readConn` and of `writeConn`. Strong fairness of `HandleErr`,
since Go's mutex hands itself over to a waiter that has starved. A read from a
connection that is closed or down fails. Not assumed: that a timeout fires,
that scamper answers, that a flush succeeds. `ClosedReleasesCallers` therefore
says that callers are released without their timeouts.

`Measurements` is what plcontroller relies on: a measurement starts only on an
open connection and ends in one of four ways, the abort only after closing.
`Implements` is the refinement, with `closed` and `status` computed from
the socket's state.

## 5. plcontroller: `PlController`

### How the model follows the code

* A vantage point has `Port` connections in its life, one after the other; the
  socket file of each appears and later goes. `events` is the queue of the
  watcher, `handler` the place of `handlEvents` in its handling of one event,
  since each call of the database or of the client is a step that measurements
  run beside.
* `client` is `socketMap`: one socket per address. `Add` stops the socket it
  replaces; the removal of a file removes by address.
* A socket is what `Measurements` promises: it takes commands, answers them or
  closes. What matters here is which socket a caller holds, and under which id of
  which socket it removes its command in the end.
* `BeginStop`, `RemoveVP`, `EndStop` are the shutdown: the claims of the sockets
  then in the table are given up, and the streams end with an error.
* The database may hold any claims at first, since the clearing of them at
  start-up may fail. A claim that matches no row is not noticed; another
  controller may claim a vantage point, give that up, and clears the claims of
  all when it starts (`unclaimed`).

### Run

`MCPlController`: `TablesAgree`, `NoCommandLeft`, `AnswerFindsCaller`, with one
vantage point, two connections and one stream of two measurements; 3.1 million
states. The second connection may come before the first has gone, and between
any two steps of a measurement: that is the case all the hazards of this table
are about. A second vantage point has a socket of its own and shares only the
queue. There is no liveness here, and no fairness.

`RemoveMeasurement` looks the socket up by address again (`client.go:182`). If
it was replaced in between, the id is removed from the new one, where it may be
that of another measurement. `AnswerFindsCaller` says that this is the only way
in which a caller on an open socket loses its answer.

## 6. The controller: `Controller`

### How the model follows the code

* A call of `doPing` or `doTraceroute` is a few goroutines: one looks up cache
  and database, one measures at the vantage points, one asks spoofers and one
  collects their probes; they fan in to one channel. Each has its own part of
  the state of the call, and each send is a step of its own.
* `Notify` stands for the report of a probe: once for each id, at any time after
  the pings were asked for, or never. The last one closes the group's channel.
* The collector of a call ends with that channel or with the context, which
  kills the group; a goroutine of `Add` then removes the ids that are left.
* `Http` calls read to the end of the channel. gRPC calls stop when their
  context ends, and then `doTraceroute` may send to a channel nobody reads
  (`controller.go:743`, `777`, `788`): that goroutine stays for ever. Deadlock
  is not checked for that reason and because all calls end.
* The goroutine that copies results to the cache captures the loop variable
  (`controller.go:349`, `772`), so that a result may be stored under the key of a
  later one. `CopyToCache` may take any key of the loop.

### Run

`MCController`: `GroupCanReceive`, `EndedInTimeIsAnswered`, `ContextEndsCall`;
one HTTP call with two spoofed pings that share a key,
and one gRPC call with two traceroutes the database holds. Two calls share the
map of spoofed ids, the cache and the database, and nothing else; a group of two
can be complete, half complete, or empty when the context ends. 240,000 states.

*Fairness.* Weak fairness of each goroutine of a call. What they wait for has a
deadline or is ready. Probes may be lost, and a context need not end.

## 7. The server, web side: `RevtrWeb`

### How the model follows the code

* `RunRevtr` is the page that calls `AddRevtr`; `Handler(t)` the web socket of a
  tab; `Monitor(t)` the goroutine that writes to the connections; `Engine(t)` the
  run, or what a second `StartRevtr` made of it, named by the tab that started it.
* `rrMu` is the lock of the map `rr.rts`, and each output channel has a lock of
  its own. Monitors take the second and then the first, handlers the other way
  round: hence `HangsOnlyByInversion`.
* A status is sent without blocking; `accepted` is the last one that found room.
* A run is a number of statuses; what it measures is the subject of `Revtr`.
* A panic of any goroutine ends the process (`up`).

### Run

`MCRevtrWeb`: `NoChannelPanic`, `ShowsTheLast`, `HangsOnlyByInversion`; one
run, two tabs, four statuses, a channel for two of them (5 in the code). With
four statuses and room for two, some find the channel full; with two tabs each
monitor takes statuses the other waits for. Several runs share only `rr.mu`,
which a tab of one run holds as long as two tabs of it can.

*Fairness.* Goroutines are scheduled and locks are granted in the end: weak
fairness of the page, the handlers, the monitors and the run.

### What the code does otherwise

* The comment at `cmd/revtr/main.go:445` says that a run is taken out of the map
  when it is finished; `main.go:320` takes it out with its first status. A tab
  that comes later is told that its key is invalid while the run goes on.
* `AddRevtr` prints the first path, which asks the network for round trip times,
  while it holds `mu` (`server.go:437`): all other pages wait.
* `getRTT` asserts the type of nil if the stream ends without a result
  (`server.go:574`). In a page the panic is recovered (`AddRevtrFails`), in a run
  it ends the process (`EnginePanics`).

## 8. The server, API side: `RevtrBatch`

### How the model follows the code

* `RunRevtr` checks the quota, inserts the rows of the batch, and starts a
  goroutine that stores results; these are steps, since each is a statement or a
  transaction of its own. `working` is what the goroutine waits for.
* `GetRevtr` reads the rows and then the hops; between the two a result may be
  stored.
* Statements may fail. A crash loses `working` and keeps the tables; nothing
  takes an unfinished batch up again after a restart.

### Run

`MCRevtrBatch`: `QuotaBound`, `AnswerIsWhole`, `BatchEnds`; two requests at a
time, a quota of two, requests of up to two measurements, four rows and one
crash. Two requests that overlap exceed the quota, which `QuotaBound` bounds by
one request for each that overlaps; four rows are two full requests.

*Fairness.* Weak fairness of `Store`: the engine ends (`Terminates`), and the
goroutine is scheduled. `BatchEnds` names the two ways in which a row may still
not end: a crash, or a statement that failed.

## 9. The atlas: `Atlas`

### How the model follows the code

* A client asks for an intersection, gets a path or a token, waits, and asks
  with the token, once; the cache removes it before the path is looked up.
  The cache holds the tokens used last.
* `Fill` is one step of `fillAtlas`: choosing sources, one of each site;
  claiming those not running; passing the rate limiter; tracing; storing and
  releasing. The choice and the claim are separate steps, as in the code.
* A restart loses tokens, claims and the count of ids. A token of before may then
  be somebody else's (`server.go:439`), which `OwnPath` allows for and for
  nothing else.
* `TryAdd` may return the slice that the map keeps and a later call sorts: the
  fill that reads it may then miss sources.
* A fill of more sources than the burst of the limiter returns at once and leaves
  its sources marked (`server.go:258`). `SourcesAreReleased` says that this is
  the only way.

### Run

`MCAtlas`: `NoTraceTwice`, `OwnPath`, `SourcesAreReleased`; two clients, two
queries for one destination, three vantage points at three sites, two tokens,
a cache and a limiter for two, a crash. Two fills for one destination want the
same sources; three sources are above the burst; after the restart ids start
again while a client keeps its token.

*Fairness.* Weak fairness of `Fill`: every call in it returns, since the stream
of traceroutes is read for 80 seconds at most. Deadlock is not checked: clients
ask once.

## 10. The vantage point service: `VPService`

### How the model follows the code

* `check` is `checkCapabilitiesAndUpdate` and `try` is `tryUnquarantine`, each
  with what it read and has not yet acted on. Operators quarantine and release at
  any time. Every statement may fail.
* A node is an address with its host name, and `VP` gives it a site; `b` and
  `b2` are one node at two sites, so a list may move it.
* `balance` counts the events written for a node: the code writes them next to
  the statements that add and delete rows, in the same transaction.
* Time is a flag of a row: its back-off has elapsed, or it has expired.

### Runs

`MCVPService`: `EventsMatch`, `ManualStands`, `WorkingIsReleased`,
`TableFollows`; two nodes, one of which may change its site, tests of up to two.
Each hazard is about one node that two of the three parties have read; the
second node shows that they do not confuse two.

*Fairness.* The two goroutines tick for ever (weak fairness of their steps), time
passes, and statements do not fail every time (strong fairness of `Update`,
`ReadQuarantined` and `Release`).

`MCVPServiceBackoff` finds `BackoffIsStored` violated. The statement that
stores the next back-off has its two arguments swapped (`repo.go:609`): no row
matches, and the first back-off is used for ever. For that reason `NextBackoff`,
which would overflow at the seventeenth attempt, never gets there.

Further: the comment on `shouldQuarantine` says the opposite of what the code
does; and a vantage point that moves to another site under its old address makes
`UpdateActiveVPs` roll back this list and all that follow (`repo.go:298`), the
case `Clash` of `TableFollows`. The lists of the model hold a node once.

## 11. The agent: `VantagePoint`

### How the model follows the code

* `run` is the goroutine that sets the agent up. It may fail (`SetUpFails`), in
  which case `main` exits, and starts scamper last, if it does at all: a start
  that fails is ignored.
* A signal is handled in a goroutine that `main` has started before, so that it
  may come while `run` is under way: `IntAll` and `Quit` then reach only what
  there is so far. `ExitAgent` ends the agent and all its goroutines (`up`);
  scamper is a process of its own, and only `Exit` ends it.
* `keeper` is the goroutine of `keepAlive`; it holds `mu` of the manager while
  it sleeps before a restart. `ender` is a call of `EndKeepAlive`, and `stop` the
  shutdown, which begins with `IntAll`.
* `remRetry` is unsigned: decremented at zero it becomes `MaxUint` (2^64 - 1 in
  the code, 3 here).
* The poller hands probes and errors over by channels. The timer of
  `monitorSpoofedPings` starts again with each packet, so that a batch is sent
  only when packets pause. The error of `Send` is ignored and its batch is lost.

### Run

`MCVantagePoint`: `NoneLeftRunning`, `RestartsAreBounded`, `ReadIsSent`; two
probes, two restarts, room for one probe. Two probes give batches of one and of
two; two restarts let the shutdown come before, between and after them.
`NoneLeftRunning` names one exception: nobody who starts scamper asks whether a
signal has come, and a scamper started after `IntAll` (`late`) is not interrupted
and outlives the agent.

*Fairness.* Weak fairness of the steps that hand a packet over, take it and send
the batch, and of the timer, while the agent lives. `ReadIsSent` excepts runs in
which packets never pause, and probes that were read when the agent ended: it does
not wait for what it has gathered. Of the keeper only safety is claimed.

## 12. Results: `RRReply`, `RRPacket`, `ScamperWriter`, `Warts`, `Records`

`ScamperWriter` is scamper's side: it writes a ping or traceroute as warts,
uuencoded. `Warts` is the decoder of the repository, field by field by the flags
that are set, with the table of addresses that replies refer to. `Records`
converts what was decoded, stores it and reads it back. `RRReply` is `processRR`.

`MCRRReply` checks `NoRouterTwice`, `WayBackIsComplete` of `RRPacket` on every record
route reply of up to six slots over six addresses and unknown hops, and
`DecodedIsSent`, `StoredIsFound` on pings and traceroutes of each kind whose
replies name up to three addresses. Six slots hold two nested loops of aliases;
a packet has nine. Three addresses let a reply refer to one in the table, to a
new one, and to one that another reply put there.

Three traits of the code shape these properties. A traceroute without hops is
stored and then makes its lookup fail (`sql.go:502`). A traceroute older than the
staleness that was asked for is not found (`sql.go:426`), and one without hops then
does no harm: `StoredIsFound` looks at the last second a traceroute is young
enough and at the next one, after its start has been rounded. A ping is never too
old, because its start in nanoseconds is compared with a date (`sql.go:580`): for
pings `StoredIsFound` asks for no freshness.

## 13. Proofs

Each theorem is about the specification as it is written, for every value of the
constants that its module's assumption allows: any number of clients, vantage
points, tabs or measurements, any network, any bound. The assumptions are the
`ASSUME`s of the modules (`RevtrAssumption`, `WebAssumption`, ...): which set a
value is from, capacities that are positive, sets that are finite because a
request, a map or a pool is. `ScamperSocketProofs` alone assumes more, and says so.

Hardly any of the properties is inductive. For each component an invariant is:
what its types are, and what must be true between the steps for the property to
be true after them. A proof has a lemma per part of it, with one step per
action; the `...Invariance` theorem puts them together, and the properties
follow from the invariant.

### The engine: `RevtrProofs`

| theorem | result |
| --- | --- |
| `EngineInvariance` | the inductive invariant `EngineInv` |
| `PathsHaveNoLoops` | `NoHopTwice` |
| `TokensAreOnPath` | `TokensOnCurrentPath` |
| `OutcomesAreTrue` | `Outcome` |
| `UnresponsiveHopsAreGivenUp` | `UnresponsiveBudget` |
| `TraceroutesJoinPaths` | `JoinsAtIntersection` |
| `ArrivalsAreSeen` | `ArrivalIsSeen` |
| `PanicsHaveReasons` | `PanicsAreExplained` |
| `NamesAreGiven`, `PassesAreExcused` | the invariants `NamedInv` and `PassInv` that the last three need |
| `RepliesHaveNoLoops` | `NoRouterTwice` |
| `RepliesAreComplete` | `WayBackIsComplete` |

`TypeInv` includes that no segment on a path is empty or ends in an unknown hop,
and that one which a spoofed ping found names its vantage point: later steps read
them without looking. `StackInv` says that every path of the stack is without
loops, and what is at the bottom of it: the destination alone, while the run goes
on, and above that, when the run backs off from the end host, a path that ends in
an assumed link. `Outcome` needs this: `FailCurrPath` pops paths, a run gives up
when the destination itself is a dead end, and only the bottom of the stack
ensures that a dead end that empties the stack is the destination. `TokenInv` says
that whoever asks the atlas, or assumes a link, starts without tokens, so that
tokens are on the path they were got for.

The lemmas about the data come first, and every step of the engine goes through
them: `AddSegments` puts on the stack copies of its last path, each extended by a
segment that has no hop of it; `AddBackgroundTRSegment` keeps the beginning of a path
and `FailCurrPath` that of the stack; `Picked` keeps the order of a list. Assumed
segments are exempt from `NoHopTwice`, as in the code, and the lemmas follow them as
well.

*The budget.* `UnresponsiveBudget` compares the counter of a hop with a sum over the
vantage points, and is inductive with `BudgetInv`: a list of vantage points names
nobody twice, so that a batch adds its length to the sum. This is where
`SpooferAssumption` is needed: vantage points are finitely many and the lists come
from a query that groups by them. The sum is a fold over a set; its laws are proved
from a smallest set for which they would fail.

*Joins, arrivals, panics.* These hold in every network, with aliases, unknown hops
and stray traceroutes; what they except is a condition on the paths, the dead ends
or the last answer of the atlas, not on the constants. How each action changes the
stack is proved once (`StackCases`): a traceroute is joined and the run is over
(`JoinStops`), or new paths are the current one with one more segment
(`PathsStayGood`). Three invariants of the paths follow.

* `NamedInv`: while the run goes on no candidate holds a traceroute of the atlas,
  and only an assumption names a router twice. So a traceroute is added to a path
  once, to one whose cut is known (`TrimPathKeeps`), and `JoinsAtIntersection` and
  the panic of the slice bounds follow.
* `ArrivalIsSeen` is inductive by itself. A reply that reaches is cut into
  segments one of which ends at the source; the sort puts it last, and
  `AddSegments` gives up at none when the path has no unknown hop, because then
  nothing that is left loops (`KnownHopsDoNotLoop`, `ReachingIsAdded`).
* `PassInv`: unless the source was given up, a path passes the source only at or
  after a segment with an unknown hop, or in an assumption. A reply that passes
  the source also shows the part that ends there (`ShownNamesOnce`), and that part
  would have ended the run. Without such a segment the path has not met the
  source, so a traceroute to the source brings it something new and can be added:
  that is what "not possible" rests on (`NotPossibleIs`, `JoinPanics`).

`AssumeSymmetric` goes back on the forward traceroute until a hop is not given up,
or to its start, the source; so it ends in a dead end only if that is the source
(`DeadEndIsSource`).

*Replies.* `RRPacket` lets routers stamp a packet in any way. `RepliesHaveNoLoops`
and `RepliesAreComplete` follow from one lemma about `ProcessRR` (`ReplyIs`), for
any number of slots and any clusters. `RemoveClusterLoops` is a recursive
function; that it is defined where it is applied, and what it returns, is proved
from a least counterexample.

### The server: `RevtrWebProofs`, `RevtrBatchProofs`

| theorem | result |
| --- | --- |
| `StartInvariance` | the inductive invariant `StartInv` |
| `ChannelsDoNotPanic` | `NoChannelPanic` |
| `TabsShowTheLast` | `ShowsTheLast` |
| `BatchInvariance` | the inductive invariant `BatchInv` |
| `AnswersAreWhole` | `AnswerIsWhole` |
| `QuotaIsBounded` | `QuotaBound` |

A channel is closed by whoever ran its engine. That this happens once, and that
nobody sends afterwards, depends on a single engine per run, hence on the `nil` that
`StartRevtr` finds in the map: it is there before any tab has been let in
(`NilOnceInv`), and the tab that takes it is the only one that starts an engine
(`OneEngineInv`). What a tab shows is followed from the engine on (`ShowInv`): the
end of the channel is the last status there was room for; a tab that is the only
watcher has in hand, or shows, what was taken last. With two watchers it may not.

A whole answer depends on two reads of the database: a row that the reader saw
completed is still completed, and its path has been read or is to be read
(`WholeInv`); ids have no gaps and batches come in the order of their rows
(`RowsInv`). `QuotaBound` is inductive with them. A call that is admitted has at most
`MaxRequest` measurements, and either found, with its own, less than the quota in the
window, or an empty window; the other calls have at most `MaxRequest` each.

### The controller: `ControllerProofs`

| theorem | result |
| --- | --- |
| `SpoofInvariance` | the inductive invariant `SpoofInv` |
| `GroupsCanReceive` | `GroupCanReceive` |
| `SpoofedAreAnswered` | `EndedInTimeIsAnswered` |

`Notify` sends to the channel of a group while it holds the lock of the map, so
the channel must have room: the probes in it and the ids still registered are
together no more than the pings that were spoofed, and the count of the group is
the number of ids (`GroupInv`). No ping is forgotten: while the context lasts each
is registered, in the channel or answered, and the collector ends only when none is
registered or in the channel (`CollectInv`).

### plcontroller: `PlControllerProofs`

| theorem | result |
| --- | --- |
| `TableInvariance` | the inductive invariant `TableInv` |
| `TablesDoAgree` | `TablesAgree` |
| `SocketInvariance` | the inductive invariant `SocketInv` |
| `CallInvariance` | the inductive invariant `CallInv` |
| `CommandsAreRemoved` | `NoCommandLeft` |
| `AnswersFindCallers` | `AnswerFindsCaller` |

Directory, table and database differ only by what is on its way: events that
`handlEvents` has not taken, the one it has in hand, what the database refused or
another controller has undone, and `Stop` (`FileInv`, `ClaimInv`). A file is dialed once, and an open socket is in
the table or in the hands of `handlEvents`, which has given it to nobody
(`SocketInv`). Ids are unique on a socket; every command in a map belongs to a
measurement that waits for it or is about to give up; and who waits has its command,
with the one exception that the property names: the command of an older socket of
the same vantage point with the same id, given up there and removed here
(`CallInv`, `Displaced`).

### The atlas: `AtlasProofs`

| theorem | result |
| --- | --- |
| `FillInvariance` | the inductive invariant `FillInv` |
| `NoTraceRunsTwice` | `NoTraceTwice` |
| `PathsAreOwn` | `OwnPath` |

`fillAtlas` chooses sources and then claims those that are not taken: what a fill has
claimed is marked as running, and claimed by no other fill to that destination
(`ClaimInv`). A token leads to its own query as long as the server that gave it runs:
the cache holds ids given out since its start, and a client whose token is that
young finds its own query under it, or nothing (`CacheInv`, `Mine`).

### Vantage points: `VantagePointProofs`

| theorem | result |
| --- | --- |
| `QuarInvariance` | the inductive invariant `QuarInv` |
| `EventsRecordQuarantines` | `EventsMatch` |
| `ManualQuarantinesStand` | `ManualStands`, a property of steps |
| `ProcessInvariance` | the inductive invariant `ProcessInv` |
| `NoProcessOutlivesStop` | `NoneLeftRunning` |
| `RestartsBounded` | `RestartsAreBounded` |

For the service `EventsMatch` is nearly inductive. `ManualStands` depends on what a
pass of `tryUnquarantine` read earlier: the rows it is about to release had elapsed or
expired when it read them (`ReleaseInv`).

For the agent: who sleeps before a restart holds `mu`, so that `IntAll` comes before
or after the restart (`KeeperInv`); after `IntAll` nobody sleeps there and what runs
has been signalled, unless `run` started it late (`InterruptedInv`); a keeper that sleeps has a start left,
whatever has become of `remRetry`, and while the process is to be kept alive
`remRetry` counts the starts that are left (`RestartsInv`). The module extends both
`VPService` and `VantagePoint`, whose specification is therefore named `AgentSpec`.

### The control socket: `ScamperSocketProofs`

For any `Req`, `IdSpace` and `WriteCap`:

| theorem | result | assumes few measurements |
| --- | --- | --- |
| `TypeCorrect` | `TypeOK` | no |
| `LockHoldersAreServed` | `LockHolderIsServed` | no |
| `Refinement` | `Implements` | no |
| `Invariance` | the inductive invariant `Inv` | yes |
| `OwnAnswers` | `OwnAnswer` | yes |
| `SendsNeverBlock` | `RoomToSend` | yes |
| `StopForgetsNobody` | `NobodyForgotten` | yes |

"Few measurements" is `FewMeasurements`: finitely many, fewer than ids. When ids
wrap around while an old command is still in use, the results that depend on
them fail. `userID` never returns to the id of an old command otherwise.

`OwnAnswer` is not inductive: a reader sends to the channel it found under its
id, so one must know that ids are unique (`IdInv`), that a command or its result
is in one place only, queue, buffer, scamper or reader (`StageInv`), and that a
reader's target is its own measurement (`ChannelInv`). `CallerInv` follows where
a waiting caller's answer will come from: its command in `cmdMap`, a reader that
has found it, a result or a closed channel. `LockInv` says that whoever holds
`mu` keeps the socket open. `KnownInv` adds to `TypeOK` that what is on its way
has an id, which `TypeOK` alone needs to be inductive. The proof has a lemma per
part, with one step per action; `Invariance` puts them together.

`Refinement` maps each step to a step of `Measurements` or a stutter; it needs
only `TypeInv` and that a closed channel means a closed socket (`ClosedStep`).

### Only model-checked

* Liveness under fairness, and with it `ENABLED`, is beyond the prover: `Terminates`
  of the engine, `BatchEnds`, `HangsOnlyByInversion`, `ContextEndsCall`,
  `SourcesAreReleased`, `WorkingIsReleased`, `TableFollows`, `ReadIsSent`,
  `ClosedReleasesCallers`. That the fairness is justified is argued in the sections
  of the modules.
* `DecodedIsSent`, `StoredIsFound` say what a long chain of recursive definitions,
  from bytes to rows, computes for every input. That is induction over data, over
  powers of 256 that the provers do not evaluate. They stay with TLC.
* `BackoffIsStored` does not hold: its run shows that.

## 14. Not modelled

* Formatting, logs, metrics, the text of commands and error messages.
* `spoofmap/spoofMap.go`: the body of plcontroller's `recSpoof` is left out of this
  release, so that nothing is ever registered and `Receive` refuses every probe.
  `controller/spoofmap.go`, which `Notify` of the controller reports to, is part
  of `Controller`; whoever calls it is its environment.
* The uuencoder (scamper is the one that encodes), variants for other
  architectures, generated protocol buffers.
* Tables of users, aliases and adjacencies, and the rankings of spoofers: reads,
  or inserts of one row; the models take what they return as given.
* The count of references in `router`: it guards no state of a call.
* `KillAll` and processes without keep-alive of `mproc`; errors of fsnotify.
* Three measurements on one socket: beyond TLC here together with liveness; the
  safety of it is proved for any number.
* Tools and configuration.
