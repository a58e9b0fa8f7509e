----------------------------- MODULE Controller -----------------------------
(***************************************************************************)
(* The controller: doPing and doTraceroute of controller/controller.go,    *)
(* the spoofed probes they wait for (controller/spoofmap.go), and the      *)
(* handlers that call them (controller/controllerapi.go).                  *)
(*                                                                         *)
(* A call looks its measurements up in the cache, then in the database,    *)
(* runs what is left at the vantage points, and answers on one channel     *)
(* that it closes at the end.  Answers to spoofed pings do not come back   *)
(* on the stream that asked for them: vantage points report them, and      *)
(* Notify hands them to the call that registered their id.                 *)
(*                                                                         *)
(* Calls over gRPC stop reading when their context ends; the handlers of   *)
(* the HTTP interface (Http) read to the end and then fill a batch.  The   *)
(* router knows one service, so a call has at most one stream of each      *)
(* sort; an id of nextSpoofID is named by its call and measurement.        *)
(***************************************************************************)
EXTENDS Naturals, Sequences, FiniteSets

CONSTANTS Call,      \* calls of doPing and doTraceroute
          Http,      \* calls made by HTTP handlers
          Trace,     \* calls of doTraceroute
          Asked,     \* [Call -> set of measurements]
          Key,       \* what results are cached under
          None,
          KeyOf,     \* the key a measurement is looked up under
          StoredAs,  \* the key its result is stored under
          Spoof,     \* spoofed pings
          CheckCache, CheckDb, \* measurements that may be answered from there
          Recent     \* keys of results the database already holds

Meas == UNION {Asked[c] : c \in Call}

ASSUME ControllerAssumption ==
  /\ Http \subseteq Call /\ Trace \subseteq Call /\ IsFiniteSet(Meas) /\ Recent \subseteq Key
  /\ None \notin Key
  /\ \A m \in Meas : KeyOf[m] \in Key /\ StoredAs[m] \in Key

VARIABLES cache,    \* [Key -> the key of the result it holds, or None]
          db,       \* keys of results recent enough to be used
          writes,   \* goroutines that copy a database hit into the cache
          call,     \* [pc, ctx, left, toSend] of a call
          answer,   \* answers a call has sent: the key of the result each holds
          pinger,   \* the goroutine that reads the stream of a call
          spoofer,  \* the goroutines that ask for spoofed pings
          sm,       \* the map of spoofed ids: <<call, measurement>>
          group,    \* [count, ch, closed, kill] of a call's ids
          collector, \* the goroutine that collects spoofed answers
          batch     \* AddPingsToBatch of an HTTP call

vars == <<cache, db, writes, call, answer, pinger, spoofer, sm, group, collector, batch>>

Errored == "error"

Init ==
  /\ cache \in [Key -> {None}]
  /\ db = Recent
  /\ writes = {}
  /\ call = [c \in Call |-> [pc |-> "idle", ctx |-> "live", left |-> {}, toSend |-> <<>>]]
  /\ answer = [c \in Call |-> <<>>]
  /\ pinger = [c \in Call |-> "none"]
  /\ spoofer = [c \in Call |-> "none"]
  /\ sm = {}
  /\ group = [c \in Call |-> [count |-> 0, ch |-> <<>>, closed |-> FALSE, kill |-> FALSE]]
  /\ collector = [c \in Call |-> "none"]
  /\ batch = [c \in Call |-> "none"]

Live(c) == call[c].ctx = "live"
Goto(c, pc) == call' = [call EXCEPT ![c].pc = pc]
\* a function like f that also maps the members of S by g
Extend(f, S, g(_)) == [m \in DOMAIN f \union S |-> IF m \in S THEN g(m) ELSE f[m]]

(* Two measurements of a call with one key become one.                     *)
OnePerKey(S) == {R \in SUBSET S : /\ {KeyOf[m] : m \in R} = {KeyOf[m] : m \in S}
                                  /\ \A m, n \in R : KeyOf[m] = KeyOf[n] => m = n}

-----------------------------------------------------------------------------
(* A call begins, and its context may end at any time after that.          *)

Begin(c) ==
  /\ call[c].pc = "idle"
  /\ call' = [call EXCEPT ![c].pc = "cache", ![c].left = Asked[c]]
  /\ UNCHANGED <<cache, db, writes, answer, pinger, spoofer, sm, group, collector, batch>>

ContextEnds(c) ==
  /\ call[c].pc \notin {"idle", "ended"} /\ Live(c)
  /\ call' = [call EXCEPT ![c].ctx = "done"]
  /\ UNCHANGED <<cache, db, writes, answer, pinger, spoofer, sm, group, collector, batch>>

(* Cache and database.  A lookup that fails, or is overtaken by the end of *)
(* the context, finds nothing; one whose entries cannot be decoded, less.  *)

LookInCache(c) ==
  /\ call[c].pc = "cache"
  /\ \E R \in OnePerKey(call[c].left \intersect CheckCache) :
     \E found \in SUBSET {m \in R : cache[KeyOf[m]] # None} :
       call' = [call EXCEPT ![c].pc = "sendCached",
                  ![c].left = (@ \ CheckCache) \union (R \ found),
                  ![c].toSend = [m \in found |-> cache[KeyOf[m]]]]
  /\ UNCHANGED <<cache, db, writes, answer, pinger, spoofer, sm, group, collector, batch>>

(* ret <- p without looking at the context: a ping's channel has room for  *)
(* all answers, a traceroute's needs a reader.                             *)
SendHit(c) ==
  /\ call[c].pc \in {"sendCached", "sendStored"}
  /\ c \in Trace => Live(c) \/ c \in Http
  /\ \E m \in DOMAIN call[c].toSend :
       /\ answer' = [answer EXCEPT ![c] = Extend(@, {m}, LAMBDA n : call[c].toSend[n])]
       /\ call' = [call EXCEPT ![c].toSend = [n \in DOMAIN @ \ {m} |-> @[n]]]
  /\ UNCHANGED <<cache, db, writes, pinger, spoofer, sm, group, collector, batch>>

HitsSent(c) ==
  /\ call[c].pc \in {"sendCached", "sendStored"} /\ DOMAIN call[c].toSend = {}
  /\ Goto(c, IF call[c].pc = "sendCached" THEN "db" ELSE "run")
  /\ UNCHANGED <<cache, db, writes, answer, pinger, spoofer, sm, group, collector, batch>>

(* Each hit is copied into the cache by a goroutine that uses the loop's   *)
(* variable key: by the time it runs that may be any key of the loop.      *)
LookInDb(c) ==
  /\ call[c].pc = "db"
  /\ \E R \in OnePerKey(call[c].left \intersect CheckDb) :
     \E found \in SUBSET {m \in R : KeyOf[m] = StoredAs[m] /\ KeyOf[m] \in db} :
       /\ call' = [call EXCEPT ![c].pc = "sendStored",
                     ![c].left = (@ \ CheckDb) \union (R \ found),
                     ![c].toSend = [m \in found |-> KeyOf[m]]]
       /\ writes' = writes \union {[keys |-> {KeyOf[n] : n \in R}, key |-> KeyOf[m]] : m \in found}
  /\ UNCHANGED <<cache, db, answer, pinger, spoofer, sm, group, collector, batch>>

CopyToCache(w) ==
  /\ writes' = writes \ {w}
  /\ \E k \in w.keys : cache' \in {cache, [cache EXCEPT ![k] = w.key]}
  /\ UNCHANGED <<db, call, answer, pinger, spoofer, sm, group, collector, batch>>

Expire(k) ==
  /\ cache[k] # None
  /\ cache' = [cache EXCEPT ![k] = None]
  /\ UNCHANGED <<db, writes, call, answer, pinger, spoofer, sm, group, collector, batch>>

-----------------------------------------------------------------------------
(* What is left is run.  spoofMap.Add registers the ids of spoofed pings,  *)
(* also of those that are then not asked for because of their SAddr: to    *)
(* the collector they are pings whose probes are lost.                     *)

Plain(c) == call[c].left \ Spoof
Spoofed(c) == call[c].left \intersect Spoof

Run(c) ==
  /\ call[c].pc = "run"
  /\ Goto(c, "wait")
  /\ pinger' = [pinger EXCEPT ![c] = IF Plain(c) = {} THEN "ended" ELSE "start"]
  /\ spoofer' = [spoofer EXCEPT ![c] = IF Spoofed(c) = {} THEN "ended" ELSE "start"]
  /\ sm' = sm \union ({c} \X Spoofed(c))
  /\ group' = [group EXCEPT ![c].count = Cardinality(Spoofed(c)),
                            ![c].closed = (Spoofed(c) = {})]
  /\ collector' = [collector EXCEPT ![c] = "receive"]
  /\ UNCHANGED <<cache, db, writes, answer, batch>>

(* The stream of the pings, or traceroutes, that are not spoofed           *)

StartPings(c) ==
  /\ pinger[c] = "start"
  /\ pinger' = [pinger EXCEPT ![c] = "reading"]
  /\ UNCHANGED <<cache, db, writes, call, answer, spoofer, sm, group, collector, batch>>

(* errorAllPing: an error is sent, or lost to the end of the context.      *)
StartFails(c) ==
  /\ pinger[c] = "start"
  /\ \E told \in (IF Live(c) THEN {Plain(c)} ELSE SUBSET Plain(c)) :
       answer' = [answer EXCEPT ![c] = Extend(@, told, LAMBDA m : Errored)]
  /\ pinger' = [pinger EXCEPT ![c] = "ended"]
  /\ UNCHANGED <<cache, db, writes, call, spoofer, sm, group, collector, batch>>

(* A result is stored, cached, which may fail, and answered.  If storing   *)
(* fails no lookup finds the result, as LookInDb allows.                   *)
Stored(m) == /\ cache' \in {cache, [cache EXCEPT ![StoredAs[m]] = StoredAs[m]]}
             /\ db' = db \union {StoredAs[m]}

PingResult(c) ==
  /\ pinger[c] = "reading"
  /\ \E m \in Plain(c) \ DOMAIN answer[c] :
       /\ Stored(m)
       /\ \/ /\ answer' = [answer EXCEPT ![c] = Extend(@, {m}, LAMBDA n : KeyOf[n])]
             /\ UNCHANGED pinger
          \/ /\ ~Live(c)
             /\ pinger' = [pinger EXCEPT ![c] = "ended"]
             /\ UNCHANGED answer
  /\ UNCHANGED <<writes, call, spoofer, sm, group, collector, batch>>

(* The stream ends, complete or not, or the context does.                  *)
PingsEnd(c) ==
  /\ pinger[c] = "reading"
  /\ pinger' = [pinger EXCEPT ![c] = "ended"]
  /\ UNCHANGED <<cache, db, writes, call, answer, spoofer, sm, group, collector, batch>>

-----------------------------------------------------------------------------
(* Spoofed pings: a stream to the receivers and one to the senders.  Their *)
(* failures are logged; nobody tells the collector.                        *)

AskSpoofed(c) ==
  /\ spoofer[c] = "start"
  /\ \E pc \in {"asked", "ended"} : spoofer' = [spoofer EXCEPT ![c] = pc]
  /\ UNCHANGED <<cache, db, writes, call, answer, pinger, sm, group, collector, batch>>

AskedEnds(c) ==
  /\ spoofer[c] = "asked"
  /\ spoofer' = [spoofer EXCEPT ![c] = "ended"]
  /\ UNCHANGED <<cache, db, writes, call, answer, pinger, sm, group, collector, batch>>

(* Faulty variant: the id stays in the map until the group is killed.      *)
NotifyKeepsId(c, m) ==
  /\ <<c, m>> \in sm /\ group[c].count > 0
  /\ spoofer[c] # "start"
  /\ group' = [group EXCEPT ![c].count = @ - 1,
                            ![c].ch = Append(@, m),
                            ![c].closed = @ \/ group[c].count = 1]
  /\ UNCHANGED <<cache, db, writes, call, answer, pinger, spoofer, sm, collector, batch>>

(* Notify and Send: a probe with a registered id goes to the channel of    *)
(* its group, or nowhere if the group has been killed; the last one closes *)
(* the channel.  A probe whose id is not registered is dropped.            *)
Notify(c, m) ==
  /\ <<c, m>> \in sm
  /\ spoofer[c] # "start"
  /\ \E sent \in {TRUE} \union {~group[c].kill} :
       group' = [group EXCEPT
                   ![c].count = @ - 1,
                   ![c].ch = IF sent THEN Append(@, m) ELSE @,
                   ![c].closed = @ \/ (sent /\ group[c].count = 1)]
  /\ sm' = sm \ {<<c, m>>}
  /\ UNCHANGED <<cache, db, writes, call, answer, pinger, spoofer, collector, batch>>

(* Faulty variant: the collector stops after the first answer.             *)
CollectFirst(c) ==
  /\ collector[c] = "receive" /\ group[c].ch # <<>>
  /\ LET m == Head(group[c].ch) IN
     /\ Stored(m)
     /\ group' = [group EXCEPT ![c].ch = Tail(@), ![c].kill = TRUE]
     /\ answer' = [answer EXCEPT ![c] = Extend(@, {m}, LAMBDA n : KeyOf[n])]
     /\ collector' = [collector EXCEPT ![c] = "ended"]
  /\ UNCHANGED <<writes, call, pinger, spoofer, sm, batch>>

Collect(c) ==
  /\ collector[c] = "receive" /\ group[c].ch # <<>>
  /\ LET m == Head(group[c].ch) IN
     /\ Stored(m)
     /\ \/ /\ group' = [group EXCEPT ![c].ch = Tail(@)]
           /\ answer' = [answer EXCEPT ![c] = Extend(@, {m}, LAMBDA n : KeyOf[n])]
           /\ UNCHANGED collector
        \/ /\ ~Live(c)
           /\ group' = [group EXCEPT ![c].ch = Tail(@), ![c].kill = TRUE]
           /\ collector' = [collector EXCEPT ![c] = "ended"]
           /\ UNCHANGED answer
  /\ UNCHANGED <<writes, call, pinger, spoofer, sm, batch>>

(* Faulty variant: the end of the context does not kill the group.         *)
EndsWithoutKill(c) ==
  /\ collector[c] = "receive"
  /\ ~Live(c) \/ (group[c].closed /\ group[c].ch = <<>>)
  /\ collector' = [collector EXCEPT ![c] = "ended"]
  /\ UNCHANGED <<cache, db, writes, call, answer, pinger, spoofer, sm, group, batch>>

CollectorEnds(c) ==
  /\ collector[c] = "receive"
  /\ ~Live(c) \/ (group[c].closed /\ group[c].ch = <<>>)
  /\ collector' = [collector EXCEPT ![c] = "ended"]
  /\ group' = [group EXCEPT ![c].kill = TRUE]
  /\ UNCHANGED <<cache, db, writes, call, answer, pinger, spoofer, sm, batch>>

(* The goroutine of spoofMap.Add that waits for kill.                      *)
RemoveLeftOver(c) ==
  /\ group[c].kill /\ sm \intersect ({c} \X Meas) # {}
  /\ sm' = sm \ ({c} \X Meas)
  /\ UNCHANGED <<cache, db, writes, call, answer, pinger, spoofer, group, collector, batch>>

-----------------------------------------------------------------------------
(* wg.Wait and close(ret); the handler of an HTTP call then adds the ids   *)
(* of all answers to the batch, in one transaction.                        *)

EndCall(c) ==
  /\ call[c].pc = "wait"
  /\ pinger[c] = "ended" /\ spoofer[c] = "ended" /\ collector[c] = "ended"
  /\ Goto(c, "ended")
  /\ UNCHANGED <<cache, db, writes, answer, pinger, spoofer, sm, group, collector, batch>>

AddToBatch(c) ==
  /\ c \in Http /\ call[c].pc = "ended" /\ batch[c] = "none"
  /\ \E b \in {"filled", "failed"} : batch' = [batch EXCEPT ![c] = b]
  /\ UNCHANGED <<cache, db, writes, call, answer, pinger, spoofer, sm, group, collector>>

-----------------------------------------------------------------------------

Lookups(c) == LookInCache(c) \/ SendHit(c) \/ HitsSent(c) \/ LookInDb(c) \/ Run(c)
Pings(c) == StartPings(c) \/ StartFails(c) \/ PingResult(c) \/ PingsEnd(c)
Spoofs(c) == AskSpoofed(c) \/ AskedEnds(c)
Collecting(c) == Collect(c) \/ CollectorEnds(c)
Ending(c) == EndCall(c) \/ AddToBatch(c)

Next == \/ \E c \in Call : \/ Begin(c) \/ ContextEnds(c) \/ Lookups(c) \/ Pings(c)
                           \/ Spoofs(c) \/ Collecting(c) \/ RemoveLeftOver(c) \/ Ending(c)
                           \/ \E m \in Meas : Notify(c, m)
        \/ \E w \in writes : CopyToCache(w)
        \/ \E k \in Key : Expire(k)

Spec == Init /\ [][Next]_vars

(* The goroutines of a call are scheduled; streams to the service end with *)
(* the context.  Probes may be lost, clients may wait for ever.            *)
FairSpec == Spec /\ \A c \in Call : /\ WF_vars(Lookups(c)) /\ WF_vars(Pings(c))
                                    /\ WF_vars(Spoofs(c)) /\ WF_vars(Collecting(c))
                                    /\ WF_vars(RemoveLeftOver(c)) /\ WF_vars(Ending(c))

-----------------------------------------------------------------------------
(* While an id of a group is registered its channel is open and has room:  *)
(* the next probe neither panics on a closed channel nor makes Notify wait *)
(* with the lock of the map.                                               *)
GroupCanReceive ==
  \A c \in Call : (\E m \in Meas : <<c, m>> \in sm) =>
    /\ ~group[c].closed
    /\ Len(group[c].ch) < Cardinality(Spoofed(c))

(* A call that ends while its client still waits has answered every        *)
(* spoofed ping it had to send, however its probes, and those of other     *)
(* calls, were reported.                                                   *)
EndedInTimeIsAnswered ==
  \A c \in Call : (call[c].pc = "ended" /\ Live(c)) => Spoofed(c) \subseteq DOMAIN answer[c]

(* A goroutine of doTraceroute that waits in a plain send for a client     *)
(* that has gone.                                                          *)
Abandoned(c) == /\ c \in Trace \ Http /\ ~Live(c)
                /\ call[c].pc \in {"sendCached", "sendStored"} /\ DOMAIN call[c].toSend # {}

(* Once its context has ended a call ends, leaves no id in the map, and,   *)
(* over HTTP, fills its batch; but for traceroutes found in the cache or   *)
(* the database whose client has gone.                                     *)
ContextEndsCall ==
  \A c \in Call : ~Live(c) ~>
    \/ /\ call[c].pc = "ended" /\ sm \intersect ({c} \X Meas) = {}
       /\ c \in Http => batch[c] # "none"
    \/ Abandoned(c)

=============================================================================
