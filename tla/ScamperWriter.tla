---------------------------- MODULE ScamperWriter ----------------------------
(***************************************************************************)
(* How scamper, a program of its own, writes its results: the format that  *)
(* warts/*.go and uuencode/uudecode.go read.  An address is written in     *)
(* full the first time it occurs in an object, then as a reference.        *)
(***************************************************************************)
EXTENDS Warts, FiniteSetsExt, SequencesExt

Be(v, width) == [i \in 1..width |-> (v \div 256^(width - i)) % 256]

Put(w, bytes) == [w EXCEPT !.out = @ \o bytes]

PutAddr(w, ip) ==
  LET at == {i \in DOMAIN w.refs : w.refs[i] = ip}
  IN  IF at # {} THEN Put(w, <<0>> \o Be(Min(at) - 1, 4))
      ELSE [Put(w, <<4, 1>> \o Be(ip, 4)) EXCEPT !.refs = Append(@, ip)]

PutAddrs(w, ips) == FoldLeft(PutAddr, w, ips)

PutField(w, type, v) ==
  CASE type = "u8" -> Put(w, <<v>>) [] type = "u16" -> Put(w, Be(v, 2)) [] type = "u32" -> Put(w, Be(v, 4))
    [] type = "time"  -> Put(w, Be(v.sec, 4) \o Be(v.usec, 4))
    [] type = "rtt"   -> Put(w, Be(1000000 * v.sec + v.usec, 4))
    [] type = "ext"   -> Put(w, Be(Len(v), 2) \o v)
    [] type = "addr"  -> PutAddr(w, v)
    [] type = "addrs" -> PutAddrs(Put(w, <<Len(v)>>), v)
    [] type = "v4ts"  -> PutAddrs(Put(w, <<Len(v.TimeStamps), Len(v.Addrs)>>
                                         \o FlattenSeq([i \in DOMAIN v.TimeStamps |-> Be(v.TimeStamps[i], 4)])),
                                  v.Addrs)

\* Seven flags a byte, as many bytes as the last flag needs; the length of
\* the fields; the fields.
PutObject(w, object, table) ==
  LET set   == {i \in DOMAIN table : table[i][1] \in DOMAIN object}
      bytes == (Max(set) + 6) \div 7
      flag(b) == SumSet({2^(i - 7 * (b - 1) - 1) : i \in {j \in set : (j - 1) \div 7 = b - 1}})
                 + IF b < bytes THEN 128 ELSE 0
      fields == FoldLeft(LAMBDA x, i : PutField(x, table[i][2], object[table[i][1]]),
                         [w EXCEPT !.out = <<>>], SelectSeq([i \in DOMAIN table |-> i], LAMBDA i : i \in set))
  IN  [fields EXCEPT !.out = w.out \o [b \in 1..bytes |-> flag(b)] \o Be(Len(fields.out), 2) \o fields.out]

WithHeader(type, body) == Be(Magic, 2) \o Be(type, 2) \o Be(Len(body), 4) \o body

Written(head, table, parts, partTable) ==
  FoldLeft(LAMBDA w, part : PutObject(w, part, partTable),
           Put(PutObject([out |-> <<>>, refs |-> <<>>], head, table), Be(Len(parts), 2)), parts).out

\* Lines of up to 45 bytes; the last one is empty.
Letter(six) == IF six = 0 THEN 96 ELSE six + 32
UUEncode(bytes) ==
  LET at(i) == IF i <= Len(bytes) THEN bytes[i] ELSE 0
      line(l) ==
        LET n == IF Len(bytes) >= 45 * l THEN 45 ELSE Len(bytes) % 45
            group(g) == LET o == 45 * (l - 1) + 3 * (g - 1)
                            v == 65536 * at(o + 1) + 256 * at(o + 2) + at(o + 3)
                        IN  [k \in 1..4 |-> Letter((v \div 64^(4 - k)) % 64)]
        IN  <<n + 32>> \o FlattenSeq([g \in 1..(n + 2) \div 3 |-> group(g)])
  IN  Append([l \in 1..(Len(bytes) + 44) \div 45 |-> line(l)], <<96>>)
=============================================================================
