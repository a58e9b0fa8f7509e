------------------------------ MODULE MCRRReply ------------------------------
(***************************************************************************)
(* Model checking of what becomes of the result of a measurement.          *)
(*                                                                         *)
(* kind "reply": every record route reply of up to MaxSlots slots over a   *)
(* few routers, two of them with two addresses (RRPacket).                 *)
(*                                                                         *)
(* The other kinds: every ping and traceroute whose replies name up to     *)
(* MaxWire addresses, written as scamper does (ScamperWriter), decoded     *)
(* (Warts), converted, stored and read back (Records).                     *)
(***************************************************************************)
EXTENDS RRPacket

CONSTANT MaxWire

VARIABLES kind, raw
vars == <<kind, raw, slots>>

D == INSTANCE Records
W == INSTANCE ScamperWriter

MCAddr == {"s", "d", "d2", "a", "a2", "b"}
MCCluster ==
  [h \in MCAddr \cup {"zero"} |-> CASE h = "d2" -> "d" [] h = "a2" -> "a" [] OTHER -> h]

Kinds == {"reply", "rr", "tsonly", "tsandaddr", "trace"}

Init == PacketInit /\ kind \in Kinds /\ raw = <<>>

Reply == kind = "reply" /\ Stamp /\ UNCHANGED <<kind, raw>>
Name  == /\ kind # "reply" /\ Len(raw) < MaxWire
         /\ \E h \in {"s", "d", "a", "b"} : raw' = Append(raw, h)
         /\ UNCHANGED <<kind, slots>>

Next == Reply \/ Name
Spec == Init /\ [][Next]_vars

-----------------------------------------------------------------------------
(* The measurement: as many replies as addresses, the i-th of which names  *)
(* the addresses from the i-th on.                                         *)

Ip == [h \in {"s", "d", "a", "b"} |->
         CASE h = "s" -> 16909060 [] h = "d" -> 33620226 [] h = "a" -> 167772161 [] h = "b" -> 67305985]

Ips(i) == [k \in 1..Len(raw) - i + 1 |-> Ip[raw[i + k - 1]]]
Stamps(i) == [k \in 1..Len(raw) - i + 1 |-> 1000 * i + k]

ReplySent(i) ==
  [ ProbeID |-> i, Addr |-> Ip[raw[i]], ICMP |-> 256 * i + 3,
    RTT |-> [sec |-> i - 1, usec |-> 150000 * i], Tx |-> [sec |-> 1000, usec |-> 900000] ] @@
  CASE kind = "rr" -> [V4RR |-> Ips(i)]
    [] kind = "tsonly" -> [V4TS |-> [TimeStamps |-> Stamps(i), Addrs |-> <<>>]]
    [] kind = "tsandaddr" -> [V4TS |-> [TimeStamps |-> Stamps(i), Addrs |-> Ips(i)]]

PingSent ==
  [ Src |-> Ip["s"], Dst |-> Ip["d"], UserID |-> 70000, StartTime |-> [sec |-> 999, usec |-> 1],
    ProbeCount |-> 2, PingsSent |-> 2,
    PF |-> CASE kind = "rr" -> 1 [] kind = "tsonly" -> 8 + 2 [] OTHER -> 0 ] @@
  IF kind = "tsandaddr" THEN [TS |-> <<Ip["a"], Ip["b"]>>] ELSE <<>>

TraceSent ==
  [Src |-> Ip["s"], Dst |-> Ip["d"], UserID |-> 70001, StartTime |-> [sec |-> 999, usec |-> 600000]]

HopSent(i) ==
  [Address |-> Ip[raw[i]], ProbeTTL |-> 2 * i, ICMPTypeCode |-> 256 * 11 + i,
   RTT |-> [sec |-> 0, usec |-> 250 * i]] @@
  IF i = 1 THEN [ICMPExt |-> <<0, 4, 1, 1, 9, 9, 9, 9>>] ELSE <<>>    \* an MPLS label

\* The first two objects of every connection, and a result.
ListWritten  == W!WithHeader(1, W!Be(1, 4) \o W!Be(7, 4) \o <<100, 0>> \o <<2>> \o W!Be(2, 2) \o <<109, 0>>)
CycleWritten == W!WithHeader(2, W!Be(1, 4) \o W!Be(7, 4) \o W!Be(1, 4) \o W!Be(999, 4) \o <<2>> \o W!Be(2, 2) \o <<109, 0>>)
ResultWritten ==
  IF kind = "trace"
  THEN W!WithHeader(6, W!Written(TraceSent, D!TraceFields, [i \in DOMAIN raw |-> HopSent(i)], D!HopFields)
                     \o <<0, 0>>)
  ELSE W!WithHeader(7, W!Written(PingSent, D!PingFields, [i \in DOMAIN raw |-> ReplySent(i)], D!ReplyFields))

-----------------------------------------------------------------------------
\* What the socket makes of the three messages.
Parsed == D!Parse(D!UUDecode(W!UUEncode(ListWritten)) \o D!UUDecode(W!UUEncode(CycleWritten))
                  \o D!UUDecode(W!UUEncode(ResultWritten)))

PingIsSent(p, st) ==
  /\ p.src = Ip["s"] /\ p.dst = Ip["d"] /\ p.userId = 70000
  /\ \A i \in DOMAIN p.responses :
       LET r == p.responses[i]
       IN  /\ r.seq = i /\ r.from = Ip[raw[i]] /\ r.icmpType = i
           /\ r.RR = IF kind = "rr" THEN Ips(i) ELSE <<>>
           /\ r.tsonly = IF kind = "tsonly" THEN Stamps(i) ELSE <<>>
           /\ r.tsandaddr = IF kind = "tsandaddr"
                            THEN [k \in DOMAIN Ips(i) |-> [ip |-> Ips(i)[k], ts |-> Stamps(i)[k]]]
                            ELSE <<>>
           /\ D!Micro(r.rx) = D!Micro(r.tx) + r.rtt
           /\ st.min <= r.rtt /\ r.rtt <= st.max
  /\ st.loss = IF Len(raw) >= 2 THEN 0 ELSE 2 - Len(raw)

TraceIsSent(t) ==
  /\ t.src = Ip["s"] /\ t.dst = Ip["d"] /\ t.userId = 70001
  /\ [i \in DOMAIN t.hops |-> t.hops[i].addr] = Ips(1)
  /\ \A i \in DOMAIN t.hops : t.hops[i].probeTtl = 2 * i /\ t.hops[i].icmpType = 11

ResultIsSent(parsed) ==
  /\ parsed.ok /\ Len(parsed.objects) = 1
  /\ parsed.objects[1].Count = Len(raw)
  /\ IF kind = "trace"
     THEN TraceIsSent(D!ConvertTraceroute(parsed.objects[1]))
     ELSE PingIsSent(D!ConvertPing(parsed.objects[1]), D!GetStats(parsed.objects[1]))

\* Decoding yields exactly one measurement, and it is the one that was sent:
\* its addresses, written in full or as references, in their order, its time
\* stamps next to their addresses, and the round trip times, from which the
\* statistics follow.  (uuencode, warts, datamodel.ConvertPing, ConvertTraceroute)
DecodedIsSent == kind # "reply" => ResultIsSent(Parsed)

-----------------------------------------------------------------------------
\* The ping, in a table with others of the same pair: an earlier one, a
\* spoofed one and, where one with record route is asked for, one without.
Pings(p) ==
  LET with(q, sp) == D!StorePing(q) @@ [spoofedFrom |-> sp]
  IN  {with(p, 0), with([p EXCEPT !.start.sec = 1, !.responses = <<>>], 0),
       with([p EXCEPT !.start.sec = 1001], Ip["a"])}
      \cup IF kind = "rr" THEN {with([p EXCEPT !.start.sec = 1002, !.flags = {"payload"}], 0)} ELSE {}

SamePing(p, q) ==
  /\ \A f \in {"src", "dst", "userId", "start", "pingSent", "flags", "statistics"} : q[f] = p[f]
  /\ Cardinality(q.responses) = Len(p.responses)
  /\ \A i \in DOMAIN p.responses : \E r \in q.responses :
       \A f \in DOMAIN r : IF f = "rx" THEN D!Micro(r[f]) = D!Micro(p.responses[i][f])
                           ELSE r[f] = p.responses[i][f]

PingIsFound(p) ==
  LET found == {D!GetPing(q) : q \in D!GetPingBySrcDst(Pings(p), p.src, p.dst, 0, kind = "rr")}
  IN  \E q \in found : found = {q} /\ SamePing(p, q)

SameTrace(t, q) ==
  /\ q.src = t.src /\ q.dst = t.dst /\ q.userId = t.userId /\ q.hopCount = Len(raw)
  /\ q.start.sec - t.start.sec \in {0, 1}
  /\ {<<h.probeTtl, h.addr>> : h \in q.hops} = {<<2 * i, Ip[raw[i]]>> : i \in DOMAIN raw}

TraceIsFound(t) ==
  LET table == {D!StoreTraceroute(t), D!StoreTraceroute([t EXCEPT !.start.sec = 1, !.hops = <<>>])}
      asked == {[src |-> t.src, dst |-> t.dst, staleness |-> 1],
                [src |-> t.dst, dst |-> t.src, staleness |-> 1]}
      found == D!GetTraceMulti(table, asked, 1060)  \* a minute after the start, as stored
      later == D!GetTraceMulti(table, asked, 1061)
  IN  /\ IF raw = <<>> THEN ~found.ok
         ELSE found.ok /\ \E q \in found.traces : found.traces = {q} /\ SameTrace(t, q)
      /\ later.ok /\ later.traces = {}

\* A measurement that has been stored is found again, also next to others of
\* the same pair, and has not changed: the answers with their lists in order,
\* the times to the microsecond, the options it was made with.  A traceroute
\* loses the times of its hops and the fraction of its start, is not found when
\* it is older than the staleness that was asked for, and one without hops makes
\* the whole lookup fail until then.  (dataaccess/sql)
StoredIsFound ==
  kind # "reply" =>
    \A object \in {Parsed.objects[1]} :
      IF kind = "trace" THEN TraceIsFound(D!ConvertTraceroute(object))
      ELSE PingIsFound(D!ConvertPing(object))

=============================================================================
