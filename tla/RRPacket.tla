------------------------------- MODULE RRPacket -------------------------------
(***************************************************************************)
(* The record route replies that processRR (RRReply) has to deal with: the *)
(* routers a packet passes stamp it one after the other, until its option  *)
(* is full.  Where the target of the probe stands among them, and whether  *)
(* a router has stamped twice or under two addresses, is up to the network.*)
(***************************************************************************)
EXTENDS RRReply

CONSTANT MaxSlots    \* slots of the option, nine in a packet

ASSUME SlotsAssumption == MaxSlots \in Nat

VARIABLE slots       \* the slots that have been stamped

PacketInit == slots = <<>>

Stamp == Len(slots) < MaxSlots /\ \E h \in Hop : slots' = Append(slots, h)

PacketSpec == PacketInit /\ [][Stamp]_slots

-----------------------------------------------------------------------------
\* What the engine takes from the reply to a probe of Dst.
Found == ProcessRR(slots, Dst)

\* The way back visits no router twice, and not the target of the probe.
NoRouterTwice ==
  \A i, j \in DOMAIN Found :
    /\ Cluster[Found[i]] # Cluster[Dst]
    /\ i # j => Cluster[Found[i]] # Cluster[Found[j]]

\* A reply that goes beyond the target shows the way back, from the router
\* after the target to the last one that stamped.
WayBackIsComplete ==
  LET beyond == {k \in 1..Len(slots) - 1 : /\ Cluster[slots[k]] = Cluster[Dst]
                                           /\ \A l \in k + 1..Len(slots) : Cluster[slots[l]] # Cluster[Dst]}
  IN  IF beyond = {} THEN Found = <<>>
      ELSE /\ Found # <<>> /\ Last(Found) = Last(slots)
           /\ Cluster[Head(Found)] = Cluster[slots[Max(beyond) + 1]]

=============================================================================
