-------------------------------- MODULE Warts --------------------------------
(***************************************************************************)
(* The reader of scamper's results: uudecoding (uuencode/uudecode.go) and  *)
(* the warts format (warts/*.go), byte by byte.                            *)
(*                                                                         *)
(* A reader is a record: the bytes, how many have been read, the addresses *)
(* of this object that can be referred to, whether every read succeeded,   *)
(* whether the error is io.EOF, and the value read last.  An object is a   *)
(* set of flags followed by the fields that the flags announce, so a field *)
(* that is read with the wrong width or in the wrong place spoils all that *)
(* comes after it.                                                         *)
(***************************************************************************)
EXTENDS Integers, Sequences, TLC

Reader(in) == [in |-> in, pos |-> 0, refs |-> <<>>, ok |-> TRUE, eof |-> FALSE, v |-> 0]

Failed(r) == [r EXCEPT !.ok = FALSE, !.eof = FALSE]

\* io.EOF, which not every reader hands on, when nothing at all was left.
Ended(r) == [r EXCEPT !.ok = FALSE, !.eof = IF r.ok THEN r.pos = Len(r.in) ELSE @]

-----------------------------------------------------------------------------
(* utils.go                                                                *)

Bytes(r, n) ==
  IF r.ok /\ r.pos + n <= Len(r.in)
  THEN [r EXCEPT !.v = SubSeq(r.in, r.pos + 1, r.pos + n), !.pos = @ + n]
  ELSE Ended(r)

Number(bytes) ==
  LET f[i \in 0..Len(bytes)] == IF i = 0 THEN 0 ELSE 256 * f[i - 1] + bytes[i] IN f[Len(bytes)]

(* Reading goes on after r, unless it has failed.                          *)
Then(r, Read(_)) == IF r.ok THEN Read(r) ELSE r

Slice(r, width) == Then(Bytes(r, width), LAMBDA b : [b EXCEPT !.v = Number(b.v)])

NotEnded(before, after) == IF before.ok /\ ~after.ok THEN Failed(after) ELSE after

UInt(r, width) == NotEnded(r, Slice(r, width))

(* n values one after the other.                                           *)
Times(r, n, Read(_)) ==
  LET f[i \in 0..n] ==
        IF i = 0 THEN [r EXCEPT !.v = <<>>]
        ELSE Then(f[i - 1], LAMBDA a : Then(Read(a), LAMBDA b : [b EXCEPT !.v = Append(a.v, b.v)]))
  IN  f[n]

(* A value that comes after its length.                                    *)
Counted(r, Read(_)) == Then(UInt(r, 1), LAMBDA n : Times(n, n.v, Read))

TimeVal(r) ==
  Then(UInt(r, 4), LAMBDA sec :
  Then(UInt(sec, 4), LAMBDA usec : [usec EXCEPT !.v = [sec |-> sec.v, usec |-> usec.v]]))

(* A duration in microseconds.                                             *)
RTT(r) ==
  Then(UInt(r, 4), LAMBDA t : [t EXCEPT !.v = [sec |-> t.v \div 1000000, usec |-> t.v % 1000000]])

String(r) ==
  LET ends == {i \in r.pos + 1..Len(r.in) : r.in[i] = 0}
  IN  IF ~r.ok \/ ends = {} THEN Ended([r EXCEPT !.pos = IF r.ok THEN Len(r.in) ELSE @])
      ELSE LET e == CHOOSE i \in ends : \A j \in ends : i <= j
           IN  [r EXCEPT !.v = SubSeq(r.in, r.pos + 1, e - 1), !.pos = e]

-----------------------------------------------------------------------------
(* address.go: an address of length 0 is a reference to an earlier one.    *)

Referred(r, i) == IF i \in 0..Len(r.refs) - 1 THEN r.refs[i + 1] ELSE 0

ReadReferencedAddress(r) == Then(UInt(r, 4), LAMBDA i : [i EXCEPT !.v = Referred(i, i.v)])

(* Faulty variant: an address is remembered only when it has been referred *)
(* to.                                                                     *)
ReadAddressForgetting(r) ==
  Then(UInt(r, 1), LAMBDA length :
    IF length.v = 0 THEN ReadReferencedAddress(length)
    ELSE Then(UInt(length, 1), LAMBDA type :
         Then(Slice(type, length.v), LAMBDA addr : IF addr.refs = <<>> THEN [addr EXCEPT !.refs = Append(@, addr.v)] ELSE addr)))

ReadAddress(r) ==
  Then(UInt(r, 1), LAMBDA length :
    IF length.v = 0 THEN ReadReferencedAddress(length)
    ELSE Then(UInt(length, 1), LAMBDA type :
         Then(Slice(type, length.v), LAMBDA addr : [addr EXCEPT !.refs = Append(@, addr.v)])))

-----------------------------------------------------------------------------
(* flags.go: seven flags in a byte, the eighth bit says that another byte  *)
(* of flags follows.                                                       *)

Bit(byte, i) == (byte \div 2^(i - 1)) % 2 = 1

GetFlags(r) ==
  LET ends == {i \in r.pos + 1..Len(r.in) : ~Bit(r.in[i], 8)} IN
  IF ~r.ok \/ ends = {} THEN Ended([r EXCEPT !.pos = IF r.ok THEN Len(r.in) ELSE @])
  ELSE LET last == CHOOSE i \in ends : \A j \in ends : i <= j
           n == last - r.pos
           set == {f \in 1..7 * n : Bit(r.in[r.pos + 1 + ((f - 1) \div 7)], 1 + ((f - 1) % 7))}
       IN  [r EXCEPT !.v = set, !.pos = last]

-----------------------------------------------------------------------------
(* The fields of the flags 1, 2, ... of each kind of object.               *)

PingIdFields == <<
  <<"ListID", "u32">>, <<"CycleID", "u32">>, <<"SrcID", "u32">>, <<"DstID", "u32">>,
  <<"StartTime", "time">>, <<"StopReason", "u8">>, <<"StopData", "u8">>,
  <<"DataLength", "u16">>, <<"Data", "data">> >>

(* TS: the code keeps as many empty addresses in front of those it reads. *)
PingProbeFields == <<
  <<"ProbeCount", "u16">>, <<"ProbeSize", "u16">>, <<"ProbeWaitS", "u8">>, <<"ProbeTTL", "u8">>,
  <<"ReplyCount", "u16">>, <<"PingsSent", "u16">>, <<"PingMethod", "u8">>,
  <<"ProbeSrcPort", "u16">>, <<"ProbeDstPort", "u16">>, <<"UserID", "u32">>,
  <<"Src", "addr">>, <<"Dst", "addr">>, <<"PF", "u8">>, <<"ProbeTOS", "u8">>, <<"TS", "addrs">>,
  <<"ICMPChecksum", "u16">>, <<"MTU", "u16">>, <<"ProbeTimeout", "u8">>, <<"ProbeWait", "u32">> >>

PingFields == PingIdFields \o PingProbeFields

ReplyFields == <<
  <<"DstID", "u32">>, <<"Flags", "u8">>, <<"ReplyTTL", "u8">>, <<"ReplySize", "u16">>,
  <<"ICMP", "u16">>, <<"RTT", "rtt">>, <<"ProbeID", "u16">>, <<"ReplyIPID", "u16">>,
  <<"ProbeIPID", "u16">>, <<"ReplyProto", "u8">>, <<"TCPFlags", "u8">>, <<"Addr", "addr">>,
  <<"V4RR", "addrs">>, <<"V4TS", "v4ts">>, <<"ReplyIPID32", "u32">>, <<"Tx", "time">>,
  <<"TSReply", "tsreply">> >>

TraceIdFields == <<
  <<"ListID", "u32">>, <<"CycleID", "u32">>, <<"SrcID", "ref">>, <<"DstID", "ref">>,
  <<"StartTime", "time">>, <<"StopReason", "u8">>, <<"StopData", "u8">>, <<"TraceFlags", "u8">>,
  <<"Attempts", "u8">>, <<"HopLimit", "u8">>, <<"TraceType", "u8">> >>

TraceProbeFields == <<
  <<"ProbeSize", "u16">>, <<"SourcePort", "u16">>, <<"DestPort", "u16">>, <<"StartTTL", "u8">>,
  <<"IPToS", "u8">>, <<"TimeoutS", "u8">>, <<"Loops", "u8">>, <<"HopsProbed", "u16">>,
  <<"GapLimit", "u8">>, <<"GapAction", "u8">>, <<"LoopAction", "u8">>, <<"ProbesSent", "u16">>,
  <<"MinWaitCenti", "u8">>, <<"Confidence", "u8">>, <<"Src", "addr">>, <<"Dst", "addr">>,
  <<"UserID", "u32">> >>

TraceFields == TraceIdFields \o TraceProbeFields

HopFields == <<
  <<"HopAddr", "ref">>, <<"ProbeTTL", "u8">>, <<"ReplyTTL", "u8">>, <<"Flags", "u8">>,
  <<"ProbeID", "u8">>, <<"RTT", "rtt">>, <<"ICMPTypeCode", "u16">>, <<"ProbeSize", "u16">>,
  <<"ReplySize", "u16">>, <<"IPID", "u16">>, <<"ToS", "u8">>, <<"NextHopMTU", "u16">>,
  <<"QuotedIPLength", "u16">>, <<"QuotedTTL", "u8">>, <<"TCPFlags", "u8">>,
  <<"QuotesToS", "u8">>, <<"ICMPExt", "ext">>, <<"Address", "addr">> >>

-----------------------------------------------------------------------------
(* Time stamps first, then addresses, after both of their numbers.         *)
V4TS(r) ==
  Then(UInt(r, 1), LAMBDA tsc :
  Then(UInt(tsc, 1), LAMBDA ipc :
  Then(Times(ipc, tsc.v, LAMBDA x : UInt(x, 4)), LAMBDA ts :
  Then(Times(ts, ipc.v, ReadAddress), LAMBDA ip :
    [ip EXCEPT !.v = [TimeStamps |-> ts.v, Addrs |-> ip.v]]))))

ICMPExtension(r) ==      \* length, class, type and the rest
  Then(UInt(r, 2), LAMBDA length : Bytes(UInt(UInt(length, 1), 1), length.v))

(* As many extensions as it takes to reach the length of the list.         *)
ICMPExtensions(r) ==
  Then(UInt(r, 2), LAMBDA length :
    LET f[i \in 0..length.v] ==
          IF i = 0 THEN [length EXCEPT !.v = <<>>]
          ELSE Then(f[i - 1], LAMBDA a :
                 IF a.pos - length.pos >= length.v THEN a
                 ELSE Then(ICMPExtension(a), LAMBDA b : [b EXCEPT !.v = Append(a.v, b.v)]))
    IN  f[length.v])

ReadField(r, kind) ==
  CASE kind = "u8"   -> UInt(r, 1)     [] kind = "u16"  -> UInt(r, 2)
    [] kind = "u32"  -> UInt(r, 4)     [] kind = "time" -> TimeVal(r)
    [] kind = "rtt"  -> RTT(r)         [] kind = "addr" -> ReadAddress(r)
    [] kind = "ref"  -> ReadReferencedAddress(r)
    [] kind = "addrs" -> Counted(r, ReadAddress)
    [] kind = "v4ts" -> V4TS(r)        [] kind = "ext"  -> ICMPExtensions(r)
    [] kind = "tsreply" -> Times(r, 3, LAMBDA x : UInt(x, 4))
    [] kind = "data" -> Bytes(r, IF "DataLength" \in DOMAIN r.v THEN r.v["DataLength"] ELSE 0)

(* The fields of the flags that are set, in their order.                   *)
Fields(r, flags, table) ==
  LET f[i \in 0..Len(table)] ==
        IF i = 0 THEN [r EXCEPT !.v = <<>>]
        ELSE Then(f[i - 1], LAMBDA a :
               IF i \notin flags THEN a
               ELSE Then(ReadField(a, table[i][2]), LAMBDA b :
                      [b EXCEPT !.v = (table[i][1] :> b.v) @@ a.v]))
  IN  IF \A i \in flags : i <= Len(table) THEN f[Len(table)] ELSE Failed(r)

(* Flags, the length of the fields if there are any, the fields.           *)
Object(r, table) ==
  Then(GetFlags(r), LAMBDA flags :
  Then(IF flags.v # {} THEN UInt(flags, 2) ELSE flags, LAMBDA length :
    Fields(length, flags.v, table)))

(* An object and as many more as the number after it says.                 *)
WithParts(r, table, partTable) ==
  Then(Object(r, table), LAMBDA head :
  Then(UInt(head, 2), LAMBDA count :
  Then(Times(count, count.v, LAMBDA x : Object(x, partTable)), LAMBDA parts :
    [parts EXCEPT !.v = [Flags |-> head.v, Count |-> count.v, Parts |-> parts.v]])))

ReadPing(r) == WithParts([r EXCEPT !.refs = <<>>], PingFields, ReplyFields)

\* The error of a traceroute without any byte is lost and the next one is
\* not io.EOF.
ReadTraceroute(r) ==
  IF r.pos = Len(r.in) THEN Failed(r) ELSE
  Then(WithParts([r EXCEPT !.refs = <<>>], TraceFields, HopFields), LAMBDA trace :
  Then(UInt(trace, 2), LAMBDA end : [end EXCEPT !.v = trace.v]))

(* Two optional fields of lists and cycles.                                *)
Optional(r, Second(_), First(_)) ==
  Then(UInt(r, 1), LAMBDA flag :
  Then(IF Bit(flag.v, 1) \/ Bit(flag.v, 2) THEN UInt(flag, 2) ELSE flag, LAMBDA length :
  Then(IF Bit(flag.v, 1) THEN First(length) ELSE length, LAMBDA one :
    IF Bit(flag.v, 2) THEN Second(one) ELSE one)))

ReadList(r)  == Optional(String(Bytes(r, 8)), String, String)
ReadCycle(r) == Optional(Bytes(r, 16), String, LAMBDA x : UInt(x, 4))

-----------------------------------------------------------------------------
(* warts.go.  An object of a type without a reader is not skipped: its     *)
(* bytes are taken for the next header.                                    *)

Magic == 4613    \* 0x1205

ReadHeader(r) ==
  Then(Slice(r, 2), LAMBDA magic :
  Then(UInt(magic, 2), LAMBDA type :
  Then(UInt(type, 4), LAMBDA length :
    IF magic.v = Magic THEN [length EXCEPT !.v = type.v] ELSE Failed(length))))

ParseNext(r) ==
  Then(ReadHeader(r), LAMBDA head :
    CASE head.v = 1 -> ReadList(head)
      [] head.v \in {2, 3} -> ReadCycle(head)
      [] head.v = 4 -> UInt(Bytes(head, 8), 1)
      [] head.v = 6 -> ReadTraceroute(head)
      [] head.v = 7 -> ReadPing(head)
      [] OTHER -> head)

(* A reader and what it has found, after one more object.                  *)
AddNext(found, head, next) ==
  <<next, IF next.ok /\ head.v \in {6, 7} THEN Append(found, next.v) ELSE found>>

After(state) == AddNext(state[2], ReadHeader(state[1]), ParseNext(state[1]))

(* The pings and traceroutes among the objects: all of them if the bytes   *)
(* end where io.EOF is not turned into another error, else none.           *)
Outcome(state, goOn) ==
  IF state[1].ok THEN goOn
  ELSE [ok |-> state[1].eof, objects |-> IF state[1].eof THEN state[2] ELSE <<>>]

Parse(bytes) ==
  LET f[n \in Nat] == IF n = 0 THEN <<Reader(bytes), <<>> >> ELSE After(f[n - 1])
      from[n \in Nat] == Outcome(f[n], from[n + 1])
  IN  from[0]

-----------------------------------------------------------------------------
(* uudecode.go: a line has its length and four characters for three bytes; *)
(* what lies beyond the length is padding.  Decoding stops at an empty     *)
(* line or a character that cannot be a length.  The other characters are  *)
(* taken to be those of the code: the socket does not look at the error    *)
(* for one that is not.                                                    *)

SixBits(c) == (c - 32) % 64

UUDecodeLine(line) ==
  [i \in 1..IF Len(line) = 1 /\ line[1] = 96 THEN 0 ELSE line[1] - 32 |->
     LET q == 4 * ((i - 1) \div 3)
         six == [j \in 1..4 |-> SixBits(line[1 + q + j])]
     IN  CASE (i - 1) % 3 = 0 -> (4 * six[1]) + (six[2] \div 16)
           [] (i - 1) % 3 = 1 -> (16 * (six[2] % 16)) + (six[3] \div 4)
           [] OTHER           -> 64 * (six[3] % 4) + six[4]]

UUDecode(lines) ==
  LET f[i \in 1..Len(lines) + 1] ==
        IF i > Len(lines) \/ lines[i] = <<>> \/ lines[i][1] \notin 32..96 THEN <<>>
        ELSE UUDecodeLine(lines[i]) \o f[i + 1]
  IN  f[1]

=============================================================================
