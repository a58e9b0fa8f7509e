------------------------------- MODULE Records -------------------------------
(***************************************************************************)
(* What happens to a measurement after it has been decoded: it becomes a   *)
(* record of datamodel, is stored in the tables of dataaccess/sql and is   *)
(* read back from them.  A table is a set of rows.  Times, which the       *)
(* tables keep in nanoseconds, are microseconds here: the code has no      *)
(* finer ones.                                                             *)
(***************************************************************************)
EXTENDS Warts, FiniteSetsExt, SequencesExt

NoTime == [sec |-> 0, usec |-> 0]

\* A field that was not announced has the zero value.
Get(object, field, zero) == IF field \in DOMAIN object THEN object[field] ELSE zero

Micro(time) == time.sec * 1000000 + time.usec

-----------------------------------------------------------------------------
(* datamodel/convert_ping.go, with GetStats of warts/ping.go.              *)

FlagNames == <<"v4rr", "spoof", "payload", "tsonly", "tsandaddr", "icmpsum", "dl", "8">>

Strings(pf) == {FlagNames[i] : i \in {j \in DOMAIN FlagNames : Bit(pf, j)}}

\* Loss is a uint16; it is 0 as soon as one reply came twice.
GetStats(ping) ==
  LET sent == Get(ping.Flags, "PingsSent", 0)
      rtts == {Micro(Get(reply, "RTT", NoTime)) : reply \in ToSet(ping.Parts)}
  IN  [ loss |-> IF Len(ping.Parts) > sent THEN 0 ELSE (sent - ping.Count) % 65536,
        min  |-> IF rtts = {} THEN 0 ELSE Min(rtts),
        max  |-> IF rtts = {} THEN 0 ELSE Max(rtts) ]

ConvertResponse(ping, reply) ==
  LET stamps == Get(reply, "V4TS", [TimeStamps |-> <<>>, Addrs |-> <<>>])
      tsOnly == Bit(Get(ping.Flags, "PF", 0), 4)
      tx  == Get(reply, "Tx", NoTime)
      rtt == Get(reply, "RTT", NoTime)
      icmp == Get(reply, "ICMP", 0)
  IN  [ from |-> Get(reply, "Addr", 0), seq |-> Get(reply, "ProbeID", 0),
        tx |-> tx, rx |-> [sec |-> tx.sec + rtt.sec, usec |-> tx.usec + rtt.usec],
        rtt |-> Micro(rtt), icmpType |-> icmp \div 256, icmpCode |-> icmp % 256,
        RR |-> Get(reply, "V4RR", <<>>),
        tsonly |-> IF tsOnly THEN stamps.TimeStamps ELSE <<>>,
        tsandaddr |-> IF tsOnly \/ Get(ping.Flags, "TS", <<>>) = <<>> THEN <<>>
                      ELSE [i \in DOMAIN stamps.TimeStamps |-> [ip |-> stamps.Addrs[i],
                                                                ts |-> stamps.TimeStamps[i]]] ]

ConvertPing(in) ==
  [ src |-> Get(in.Flags, "Src", 0), dst |-> Get(in.Flags, "Dst", 0),
    userId |-> Get(in.Flags, "UserID", 0), start |-> Get(in.Flags, "StartTime", NoTime),
    pingSent |-> Get(in.Flags, "ProbeCount", 0),
    flags |-> Strings(Get(in.Flags, "PF", 0))
              \cup IF /\ ~Bit(Get(in.Flags, "PF", 0), 4) /\ Get(in.Flags, "TS", <<>>) # <<>>
                      /\ in.Parts # <<>>
                   THEN {"tsandaddr"} ELSE {},
    responses |-> [i \in DOMAIN in.Parts |-> ConvertResponse(in, in.Parts[i])],
    statistics |-> GetStats(in) ]

\* datamodel/convert_traceroute.go
ConvertHops(in) ==
  [i \in DOMAIN in.Parts |->
     LET hop == in.Parts[i]  code == Get(hop, "ICMPTypeCode", 0)
     IN  [ addr |-> Get(hop, "Address", 0), probeTtl |-> Get(hop, "ProbeTTL", 0),
           rtt |-> Micro(Get(hop, "RTT", NoTime)),
           icmpType |-> code \div 256, icmpCode |-> code % 256 ]]

ConvertTraceroute(in) ==
  [ src |-> Get(in.Flags, "Src", 0), dst |-> Get(in.Flags, "Dst", 0),
    userId |-> Get(in.Flags, "UserID", 0), start |-> Get(in.Flags, "StartTime", NoTime),
    hopCount |-> in.Count, hops |-> ConvertHops(in) ]

-----------------------------------------------------------------------------
(* Storing a ping.  A response is a row; its addresses and time stamps are *)
(* rows of other tables, with their place.                                 *)

RowsOf(responses, List(_)) ==
  UNION {{[response |-> i, place |-> (j - 1) % 256, value |-> List(responses[i])[j]] :
            j \in DOMAIN List(responses[i])} : i \in DOMAIN responses}

StorePing(p) ==
  [ ping |-> [src |-> p.src, dst |-> p.dst, userId |-> p.userId, start |-> Micro(p.start),
              pingSent |-> p.pingSent, flags |-> p.flags],
    responses |-> {[id |-> i, from |-> r.from, seq |-> r.seq, rtt |-> r.rtt,
                    icmpType |-> r.icmpType, icmpCode |-> r.icmpCode,
                    tx |-> Micro(r.tx), rx |-> Micro(r.rx)] :
                     <<i, r>> \in {<<j, p.responses[j]>> : j \in DOMAIN p.responses}},
    recordRoutes   |-> RowsOf(p.responses, LAMBDA r : r.RR),
    timestamps     |-> RowsOf(p.responses, LAMBDA r : r.tsonly),
    timestampAddrs |-> RowsOf(p.responses, LAMBDA r : r.tsandaddr),
    stats |-> p.statistics ]

-----------------------------------------------------------------------------
(* Reading it back: the responses in any order, their lists by place.      *)

\* Faulty variant: the fraction is divided once too often.
TimeOfMilli(micro) == [sec |-> micro \div 1000000, usec |-> (micro % 1000000) \div 1000]

Time(micro) == [sec |-> micro \div 1000000, usec |-> micro % 1000000]

ListOf(table, response) ==
  LET rows == SetToSortSeq({row \in table : row.response = response},
                           LAMBDA a, b : a.place < b.place)
  IN  [i \in DOMAIN rows |-> rows[i].value]

\* One of the three tables of lists is read, by the flags of the ping.
GetResponse(tables, row, rr, ts, tsaddr) ==
  [ from |-> row.from, seq |-> row.seq, rtt |-> row.rtt, tx |-> Time(row.tx), rx |-> Time(row.rx),
    icmpType |-> row.icmpType, icmpCode |-> row.icmpCode,
    RR     |-> IF rr THEN ListOf(tables.recordRoutes, row.id) ELSE <<>>,
    tsonly |-> IF ts /\ ~rr THEN ListOf(tables.timestamps, row.id) ELSE <<>>,
    tsandaddr |-> IF tsaddr /\ ~ts /\ ~rr THEN ListOf(tables.timestampAddrs, row.id) ELSE <<>> ]

GetPing(tables) ==
  LET has(flag) == flag \in tables.ping.flags
  IN  [tables.ping EXCEPT !.start = Time(@)] @@
      [ responses |-> {GetResponse(tables, row, has("v4rr"), has("tsonly"), has("tsandaddr")) :
                         row \in tables.responses},
        statistics |-> tables.stats ]

\* The newest ping from src to dst that was spoofed by sp (0: by nobody);
\* the newest with the record route option when rr asks for one.  How old it
\* is plays no role: start is a number of nanoseconds, and the query compares
\* it with a date.
GetPingBySrcDst(pings, src, dst, sp, rr) ==
  LET found == {p \in pings : /\ p.ping.src = src /\ p.ping.dst = dst /\ p.spoofedFrom = sp
                              /\ rr => "v4rr" \in p.ping.flags}
  IN  {p \in found : \A q \in found : q.ping.start <= p.ping.start}

-----------------------------------------------------------------------------
(* Traceroutes.  The start is a datetime, which has no fraction.           *)

StoreTraceroute(t) ==
  [ trace |-> [src |-> t.src, dst |-> t.dst, userId |-> t.userId, hopCount |-> t.hopCount,
               start |-> t.start.sec + IF t.start.usec >= 500000 THEN 1 ELSE 0],
    hops  |-> {[hop |-> i - 1, addr |-> t.hops[i].addr, probeTtl |-> t.hops[i].probeTtl,
                icmpType |-> t.hops[i].icmpType, icmpCode |-> t.hops[i].icmpCode,
                rtt |-> t.hops[i].rtt] : i \in DOMAIN t.hops} ]

\* The times of the hops and their places are read and dropped.
SplitTrace(stored) ==
  [ src |-> stored.trace.src, dst |-> stored.trace.dst, userId |-> stored.trace.userId,
    hopCount |-> stored.trace.hopCount, start |-> [sec |-> stored.trace.start, usec |-> 0],
    hops |-> {[addr |-> h.addr, probeTtl |-> h.probeTtl, icmpType |-> h.icmpType,
               icmpCode |-> h.icmpCode] : h \in stored.hops} ]

\* The newest traceroute of the pair is looked for first, and dropped if it is
\* older than staleness, in minutes.
GetTRBySrcDstWithStaleness(traces, m, now) ==
  LET found == {t \in traces : t.trace.src = m.src /\ t.trace.dst = m.dst}
  IN  {t \in found : /\ \A u \in found : u.trace.start <= t.trace.start
                     /\ t.trace.start >= now - 60 * m.staleness}

\* A traceroute without hops is a row of nulls, which cannot be read: unless it
\* is too old, the whole lookup fails.
GetTraceMulti(traces, asked, now) ==
  LET found == UNION {GetTRBySrcDstWithStaleness(traces, m, now) : m \in asked}
  IN  IF \E t \in found : t.hops = {} THEN [ok |-> FALSE, traces |-> {}]
      ELSE [ok |-> TRUE, traces |-> {SplitTrace(t) : t \in found}]
=============================================================================
