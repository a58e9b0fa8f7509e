-------------------------- MODULE PlControllerProofs --------------------------
(***************************************************************************)
(* Proofs about PlController, for any vantage points, any number of their  *)
(* connections and any streams of measurements.                            *)
(***************************************************************************)
EXTENDS PlController, TLAPS

Events == {"create", "remove"} \X Socket
Handlers == {<<"idle">>, <<"ended">>} \union ({"dialed", "claimed", "released"} \X Socket)

TableTypes ==
  /\ file \in [Socket -> {"unborn", "present", "gone"}]
  /\ events \in Seq(Events)
  /\ handler \in Handlers
  /\ client \in [VP -> Socket \union {NoSock}]
  /\ \A v \in VP : client[v] # NoSock => client[v][1] = v
  /\ db \in [VP -> {"none", "me", "other"}]
  /\ sock \in [Socket -> {"none", "open", "closed"}]
  /\ stop \in [state : {"running", "removing", "stopped"}, left : SUBSET VP]

\* An event that handlEvents has not taken.
Pending(type, s) == \E i \in 1..Len(events) : events[i] = <<type, s>>

\* handlEvents is done with the events of s but for what it has in hand.
Handling(state, v) == \E s \in Socket : handler = <<state, s>> /\ s[1] = v

\* A socket whose file is gone will be removed; a release in hand removes the
\* socket of its vantage point, whichever that is.
FileInv ==
  /\ \A v \in VP : client[v] # NoSock =>
       \/ file[client[v]] = "present" \/ Pending("remove", client[v]) \/ Handling("released", v)
  /\ \A s \in Socket : handler \in {<<"dialed", s>>, <<"claimed", s>>} =>
       file[s] = "present" \/ Pending("remove", s)

\* Claims and sockets come and go together, but for what handlEvents has in
\* hand, what the database refused or did not have, what another controller has
\* undone, and Stop.
ClaimInv ==
  /\ \A v \in VP : client[v] # NoSock =>
       db[v] # "none" \/ v \in unclaimed \/ Handling("released", v) \/ stop.state # "running"
  /\ \A s \in Socket : handler = <<"claimed", s>> =>
       db[s[1]] # "none" \/ s[1] \in unclaimed \/ stop.state # "running"
  /\ \A v \in VP : db[v] = "me" /\ v \notin failed => client[v] # NoSock \/ Handling("claimed", v)
  /\ \A v \in VP : Handling("released", v) => db[v] # "me" \/ v \in failed

TableInv == TableTypes /\ FileInv /\ ClaimInv

-----------------------------------------------------------------------------

LEMMA NoSockIsNone == NoSock \notin Socket
  BY DEF NoSock, Socket

LEMMA HandlerIs ==
  ASSUME TableTypes
  PROVE  /\ \A state \in {"dialed", "claimed", "released"} :
              handler[1] = state => \E s \in Socket : handler = <<state, s>> /\ handler[2] = s
         /\ handler = <<"idle">> \/ handler = <<"ended">>
              => \A state \in {"dialed", "claimed", "released"}, s \in Socket : handler # <<state, s>>
  BY DEF TableTypes, Handlers

\* An event is added at the end.
LEMMA EventAdded ==
  ASSUME TableTypes, NEW e \in Events, events' = Append(events, e)
  PROVE  /\ events' \in Seq(Events) /\ Len(events') = Len(events) + 1 /\ Len(events) \in Nat
         /\ \A i \in 1..Len(events) : events'[i] = events[i]
         /\ events'[Len(events) + 1] = e
  BY DEF TableTypes

\* An event is taken from the front.
LEMMA EventTaken ==
  ASSUME TableTypes, events # <<>>, events' = Tail(events)
  PROVE  /\ events' \in Seq(Events) /\ Len(events') = Len(events) - 1 /\ Len(events) \in Nat \ {0}
         /\ \A i \in 1..Len(events') : events'[i] = events[i + 1]
         /\ Head(events) = events[1] /\ Head(events) \in Events
  BY DEF TableTypes

LEMMA PendingAdded ==
  ASSUME TableTypes, NEW e \in Events, events' = Append(events, e)
  PROVE  \A type, s : Pending(type, s)' <=> Pending(type, s) \/ e = <<type, s>>
<1>1. /\ Len(events') = Len(events) + 1 /\ Len(events) \in Nat
      /\ \A i \in 1..Len(events) : events'[i] = events[i]
      /\ events'[Len(events) + 1] = e
  BY EventAdded
<1>2. \A i \in 1..Len(events') : i \in 1..Len(events) \/ i = Len(events) + 1
  BY <1>1
<1>3. \A i \in 1..Len(events) : i \in 1..Len(events')
  BY <1>1
<1>4. Len(events) + 1 \in 1..Len(events')
  BY <1>1
<1> QED
  BY <1>1, <1>2, <1>3, <1>4 DEF Pending

LEMMA PendingTaken ==
  ASSUME TableTypes, events # <<>>, events' = Tail(events)
  PROVE  /\ \A type, s : Pending(type, s) => Pending(type, s)' \/ Head(events) = <<type, s>>
         /\ \A type, s : Pending(type, s)' => Pending(type, s)
<1>1. /\ Len(events') = Len(events) - 1 /\ Len(events) \in Nat \ {0}
      /\ \A i \in 1..Len(events') : events'[i] = events[i + 1]
      /\ Head(events) = events[1]
  BY EventTaken
<1>2. ASSUME NEW i \in 1..Len(events), i # 1
      PROVE  i - 1 \in 1..Len(events') /\ events'[i - 1] = events[i]
  <2>1. i - 1 \in 1..Len(events') /\ (i - 1) + 1 = i
    BY <1>1, <1>2
  <2> QED
    BY <1>1, <2>1
<1>3. \A i \in 1..Len(events') : i + 1 \in 1..Len(events)
  BY <1>1
<1> QED
  BY <1>1, <1>2, <1>3 DEF Pending

\* StopSockets leaves a table of sockets, and no socket comes to life.
LEMMA StopTypes ==
  ASSUME TableTypes, NEW S \in SUBSET Socket, StopSockets(S)
  PROVE  /\ sock' \in [Socket -> {"none", "open", "closed"}]
         /\ \A s \in Socket : sock'[s] = IF s \in S THEN "closed" ELSE sock[s]
  BY DEF StopSockets, TableTypes

LEMMA HeldIs ==
  ASSUME TableTypes, NEW v \in VP
  PROVE  Held(v) \in SUBSET Socket /\ \A s \in Held(v) : s = client[v] /\ s[1] = v
  BY DEF Held, TableTypes

LEMMA TableTypesStep == TableTypes /\ [Next]_vars => TableTypes'
<1> SUFFICES ASSUME TableTypes, [Next]_vars PROVE TableTypes'
  OBVIOUS
<1>1. ASSUME NEW s \in Socket, Connect(s) \/ Disconnect(s) PROVE TableTypes'
  <2>1. events' \in Seq(Events)
    <3>1. <<"create", s>> \in Events /\ <<"remove", s>> \in Events
      BY DEF Events
    <3> QED
      BY <1>1, <3>1, EventAdded DEF Connect, Disconnect
  <2>2. file' \in [Socket -> {"unborn", "present", "gone"}]
    BY <1>1, SMTT(30) DEF Connect, Disconnect, TableTypes
  <2> QED
    BY <1>1, <2>1, <2>2 DEF Connect, Disconnect, TableTypes, handlerVars, sockVars
<1>2. ASSUME NEW s \in Socket, ConnectionLost(s) PROVE TableTypes'
  BY <1>2, StopTypes DEF ConnectionLost, TableTypes, handlerVars
<1>3. ASSUME OtherStarts \/ \E v \in VP : OtherClaims(v) \/ OtherReleases(v) \/ RemoveVP(v)
      PROVE  TableTypes'
  BY <1>3 DEF OtherClaims, OtherReleases, OtherStarts, RemoveVP, Released, TableTypes, sockVars
<1>4. ASSUME Dial PROVE TableTypes'
  <2>1. events # <<>> /\ events' = Tail(events) /\ Head(events)[2] \in Socket
    BY <1>4, EventTaken DEF Dial, NextEvent, Events
  <2>2. events' \in Seq(Events)
    BY <2>1, EventTaken
  <2>3. handler' \in Handlers /\ sock' \in [Socket -> {"none", "open", "closed"}]
    BY <1>4, <2>1 DEF Dial, Handlers, TableTypes
  <2> QED
    BY <1>4, <2>2, <2>3 DEF Dial, TableTypes
<1>5. ASSUME DialFails PROVE TableTypes'
  <2>1. events' \in Seq(Events)
    BY <1>5, EventTaken DEF DialFails, NextEvent
  <2> QED
    BY <1>5, <2>1 DEF DialFails, TableTypes, handlerVars, sockVars
<1>6. ASSUME Claim PROVE TableTypes'
  <2>1. PICK s \in Socket : handler = <<"dialed", s>> /\ handler[2] = s
    BY <1>6, HandlerIs DEF Claim
  <2>2. s[1] \in VP
    BY DEF Socket
  <2> QED
    BY <1>6, <2>1, <2>2 DEF Claim, Handlers, TableTypes, sockVars
<1>7. ASSUME ClaimFails PROVE TableTypes'
  <2>1. PICK s \in Socket : handler = <<"dialed", s>> /\ handler[2] = s
    BY <1>7, HandlerIs DEF ClaimFails
  <2> QED
    BY <1>7, <2>1, StopTypes DEF ClaimFails, Handlers, TableTypes
<1>8. ASSUME AddSocket PROVE TableTypes'
  <2>1. PICK s \in Socket : handler = <<"claimed", s>> /\ handler[2] = s
    BY <1>8, HandlerIs DEF AddSocket
  <2>2. s[1] \in VP
    BY DEF Socket
  <2>3. sock' \in [Socket -> {"none", "open", "closed"}]
    BY <1>8, <2>1, <2>2, HeldIs, StopTypes DEF AddSocket
  <2>4. /\ client' \in [VP -> Socket \union {NoSock}]
        /\ \A v \in VP : client'[v] # NoSock => client'[v][1] = v
    BY <1>8, <2>1, <2>2 DEF AddSocket, TableTypes
  <2> QED
    BY <1>8, <2>3, <2>4 DEF AddSocket, Handlers, TableTypes
<1>9. ASSUME Release PROVE TableTypes'
  <2>1. events # <<>> /\ events' = Tail(events) /\ Head(events)[2] \in Socket
    BY <1>9, EventTaken DEF Release, NextEvent, Events
  <2>2. events' \in Seq(Events)
    BY <2>1, EventTaken
  <2>3. handler' \in Handlers /\ db' \in [VP -> {"none", "me", "other"}]
    BY <1>9, <2>1 DEF Release, Released, Handlers, TableTypes
  <2> QED
    BY <1>9, <2>2, <2>3 DEF Release, TableTypes, sockVars
<1>10. ASSUME RemoveSocket PROVE TableTypes'
  <2>1. PICK s \in Socket : handler = <<"released", s>> /\ handler[2] = s
    BY <1>10, HandlerIs DEF RemoveSocket
  <2>2. s[1] \in VP
    BY DEF Socket
  <2>3. sock' \in [Socket -> {"none", "open", "closed"}]
    BY <1>10, <2>1, <2>2, HeldIs, StopTypes DEF RemoveSocket
  <2>4. /\ client' \in [VP -> Socket \union {NoSock}]
        /\ \A v \in VP : client'[v] # NoSock => client'[v][1] = v
    BY <1>10, <2>1, <2>2 DEF RemoveSocket, TableTypes
  <2> QED
    BY <1>10, <2>3, <2>4 DEF RemoveSocket, Handlers, TableTypes
<1>11. ASSUME HandlerEnds PROVE TableTypes'
  BY <1>11 DEF HandlerEnds, Handlers, TableTypes, sockVars
<1>12. ASSUME UNCHANGED <<file, events, handler, client, db, sock, stop>> PROVE TableTypes'
  BY <1>12 DEF TableTypes
<1>13. ASSUME BeginStop \/ EndStop \/ UNCHANGED vars PROVE TableTypes'
  <2>1. stop' \in [state : {"running", "removing", "stopped"}, left : SUBSET VP]
    BY <1>13 DEF BeginStop, EndStop, vars, TableTypes
  <2> QED
    BY <1>13, <2>1 DEF BeginStop, EndStop, vars, handlerVars, sockVars, TableTypes
<1>14. ASSUME NEW r \in Req,
              (\E v \in VP : GetSocket(r, v)) \/ DoMeasurement(r) \/ Answer(r) \/ GiveUp(r)
              \/ RemoveMeasurement(r)
       PROVE  TableTypes'
  BY <1>12, <1>14 DEF GetSocket, DoMeasurement, Answer, GiveUp, RemoveMeasurement, handlerVars,
                      sockVars
<1>15. ASSUME NEW t \in Stream, SendResult(t) \/ StreamReturns(t) \/ StreamFails(t)
       PROVE  TableTypes'
  BY <1>12, <1>15 DEF SendResult, StreamReturns, StreamFails, handlerVars, sockVars
<1> QED
  BY <1>1, <1>2, <1>3, <1>4, <1>5, <1>6, <1>7, <1>8, <1>9, <1>10, <1>11, <1>13, <1>14, <1>15
     DEF Next, Handle

-----------------------------------------------------------------------------
(* The table and the directory                                             *)

\* A step of which handlEvents takes no notice.
LEMMA FileKept ==
  ASSUME TableTypes, FileInv, UNCHANGED <<handler, client>>,
         \A s \in Socket : /\ file[s] = "present" => file'[s] = "present" \/ Pending("remove", s)'
                           /\ Pending("remove", s) => Pending("remove", s)'
  PROVE  FileInv'
<1>1. \A state, v : Handling(state, v)' <=> Handling(state, v)
  BY DEF Handling
<1>2. \A v \in VP : client[v] # NoSock => client[v] \in Socket
  BY DEF TableTypes
<1> QED
  BY <1>1, <1>2 DEF FileInv

LEMMA FileStep == TableTypes /\ FileInv /\ [Next]_vars => FileInv'
<1> SUFFICES ASSUME TableTypes, FileInv, [Next]_vars PROVE FileInv'
  OBVIOUS
<1>1. \A v \in VP : client[v] # NoSock => client[v] \in Socket /\ client[v][1] = v
  BY DEF TableTypes
<1>2. ASSUME NEW s \in Socket, Connect(s) \/ Disconnect(s) PROVE FileInv'
  <2>1. PICK type \in {"create", "remove"} : events' = Append(events, <<type, s>>)
                                             /\ (type = "remove" <=> Disconnect(s))
    BY <1>2 DEF Connect, Disconnect, TableTypes
  <2>2. <<type, s>> \in Events
    BY DEF Events
  <2>3. \A i : Pending("remove", i)' <=> Pending("remove", i) \/ <<type, s>> = <<"remove", i>>
    BY <2>1, <2>2, PendingAdded
  <2>4. \A i \in Socket : file[i] = "present" => file'[i] = "present" \/ Pending("remove", i)'
    BY <1>2, <2>1, <2>3 DEF Connect, Disconnect, TableTypes
  <2> QED
    BY <1>2, <2>3, <2>4, FileKept DEF Connect, Disconnect, handlerVars
<1>3. ASSUME Dial PROVE FileInv'
  <2>1. PICK s \in Socket : /\ Head(events) = <<"create", s>> /\ file[s] = "present"
                            /\ handler' = <<"dialed", s>>
    BY <1>3, EventTaken DEF Dial, NextEvent, Events
  <2>2. \A i : Pending("remove", i) => Pending("remove", i)'
    BY <1>3, <2>1, PendingTaken DEF Dial, NextEvent
  <2>3. \A v : ~Handling("released", v)
    BY <1>3, HandlerIs DEF Dial, NextEvent, Handling
  <2>4. UNCHANGED <<file, client>> /\ \A i \in Socket : handler' # <<"claimed", i>>
    BY <1>3, <2>1 DEF Dial
  <2>5. \A i \in Socket : handler' = <<"dialed", i>> => i = s
    BY <2>1
  <2> QED
    BY <1>1, <2>1, <2>2, <2>3, <2>4, <2>5 DEF FileInv
<1>4. ASSUME DialFails PROVE FileInv'
  <2>1. \A i : Head(events) # <<"remove", i>>
    BY <1>4 DEF DialFails, NextEvent
  <2>2. \A i : Pending("remove", i) => Pending("remove", i)'
    BY <1>4, <2>1, PendingTaken DEF DialFails, NextEvent
  <2> QED
    BY <1>4, <2>2, FileKept DEF DialFails, handlerVars
<1>5. ASSUME Claim \/ ClaimFails \/ HandlerEnds,
             UNCHANGED <<file, events, client>>,
             \A v : ~Handling("released", v),
             \A s \in Socket : handler' \in {<<"dialed", s>>, <<"claimed", s>>} => handler = <<"dialed", s>>
      PROVE  FileInv'
  <2>1. \A type, s : Pending(type, s)' <=> Pending(type, s)
    BY <1>5 DEF Pending
  <2> QED
    BY <1>5, <2>1 DEF FileInv
<1>6. ASSUME Claim PROVE FileInv'
  <2>1. PICK s \in Socket : handler = <<"dialed", s>> /\ handler[2] = s
    BY <1>6, HandlerIs DEF Claim
  <2> QED
    BY <1>5, <1>6, <2>1 DEF Claim, Handling
<1>7. ASSUME ClaimFails \/ HandlerEnds PROVE FileInv'
  <2>1. \A v : ~Handling("released", v)
    BY <1>7, HandlerIs DEF ClaimFails, HandlerEnds, Handling
  <2>2. handler' \in {<<"idle">>, <<"ended">>} /\ UNCHANGED <<file, events, client>>
    BY <1>7 DEF ClaimFails, HandlerEnds
  <2> QED
    BY <1>5, <1>7, <2>1, <2>2
<1>8. ASSUME AddSocket PROVE FileInv'
  <2>1. PICK s \in Socket : handler = <<"claimed", s>> /\ handler[2] = s
    BY <1>8, HandlerIs DEF AddSocket
  <2>2. /\ client' = [client EXCEPT ![s[1]] = s] /\ handler' = <<"idle">>
        /\ UNCHANGED <<file, events>> /\ s[1] \in VP
    BY <1>8, <2>1 DEF AddSocket, Socket
  <2>3. \A v \in VP : client'[v] = IF v = s[1] THEN s ELSE client[v]
    BY <2>2 DEF TableTypes
  <2>4. \A v : ~Handling("released", v)
    BY <2>1 DEF Handling
  <2>5. \A type, i : Pending(type, i)' <=> Pending(type, i)
    BY <2>2 DEF Pending
  <2>6. file[s] = "present" \/ Pending("remove", s)
    BY <2>1 DEF FileInv
  <2>7. \A i \in Socket : handler' \notin {<<"dialed", i>>, <<"claimed", i>>}
    BY <2>2
  <2> QED
    BY <2>2, <2>3, <2>4, <2>5, <2>6, <2>7 DEF FileInv
<1>9. ASSUME Release PROVE FileInv'
  <2>1. PICK s \in Socket : Head(events) = <<"remove", s>> /\ handler' = <<"released", s>>
    BY <1>9, EventTaken DEF Release, NextEvent, Events
  <2>2. \A i : Pending("remove", i) => Pending("remove", i)' \/ i = s
    BY <1>9, <2>1, PendingTaken DEF Release, NextEvent
  <2>3. \A v : ~Handling("released", v)
    BY <1>9, HandlerIs DEF Release, NextEvent, Handling
  <2>4. Handling("released", s[1])'
    BY <2>1 DEF Handling
  <2>5. UNCHANGED <<file, client>>
    BY <1>9 DEF Release
  <2>6. \A i \in Socket : handler' \notin {<<"dialed", i>>, <<"claimed", i>>}
    BY <2>1
  <2> QED
    BY <1>1, <2>2, <2>3, <2>4, <2>5, <2>6 DEF FileInv
<1>10. ASSUME RemoveSocket PROVE FileInv'
  <2>1. PICK s \in Socket : handler = <<"released", s>> /\ handler[2] = s
    BY <1>10, HandlerIs DEF RemoveSocket
  <2>2. /\ client' = [client EXCEPT ![s[1]] = NoSock] /\ handler' = <<"idle">>
        /\ UNCHANGED <<file, events>> /\ s[1] \in VP
    BY <1>10, <2>1 DEF RemoveSocket, Socket
  <2>3. \A v \in VP : client'[v] = IF v = s[1] THEN NoSock ELSE client[v]
    BY <2>2 DEF TableTypes
  <2>4. \A v : Handling("released", v) => v = s[1]
    BY <2>1 DEF Handling
  <2>5. \A type, i : Pending(type, i)' <=> Pending(type, i)
    BY <2>2 DEF Pending
  <2>6. \A i \in Socket : handler' \notin {<<"dialed", i>>, <<"claimed", i>>}
    BY <2>2
  <2> QED
    BY <2>2, <2>3, <2>4, <2>5, <2>6 DEF FileInv
<1>11. ASSUME UNCHANGED <<file, events, handler, client>> PROVE FileInv'
  <2>1. \A type, s : Pending(type, s)' <=> Pending(type, s)
    BY <1>11 DEF Pending
  <2> QED
    BY <1>11, <2>1, FileKept
<1>12. ASSUME OtherStarts \/ \E v \in VP : OtherClaims(v) \/ OtherReleases(v) \/ RemoveVP(v)
       PROVE  FileInv'
  BY <1>11, <1>12 DEF OtherClaims, OtherReleases, OtherStarts, RemoveVP
<1>13. ASSUME BeginStop \/ EndStop \/ (\E s \in Socket : ConnectionLost(s)) \/ UNCHANGED vars
       PROVE  FileInv'
  BY <1>11, <1>13 DEF BeginStop, EndStop, ConnectionLost, vars, handlerVars
<1>14. ASSUME NEW r \in Req,
              (\E v \in VP : GetSocket(r, v)) \/ DoMeasurement(r) \/ Answer(r) \/ GiveUp(r)
              \/ RemoveMeasurement(r)
       PROVE  FileInv'
  BY <1>11, <1>14 DEF GetSocket, DoMeasurement, Answer, GiveUp, RemoveMeasurement, handlerVars
<1>15. ASSUME NEW t \in Stream, SendResult(t) \/ StreamReturns(t) \/ StreamFails(t)
       PROVE  FileInv'
  BY <1>11, <1>15 DEF SendResult, StreamReturns, StreamFails, handlerVars
<1> QED
  BY <1>2, <1>3, <1>4, <1>6, <1>7, <1>8, <1>9, <1>10, <1>12, <1>13, <1>14, <1>15 DEF Next, Handle

-----------------------------------------------------------------------------
(* The table and the database                                              *)

\* A step that neither claims nor moves a socket.
LEMMA ClaimKept ==
  ASSUME ClaimInv, UNCHANGED <<handler, client>>,
         stop.state # "running" => stop'.state # "running",
         \A v \in VP : /\ db[v] # "none" \/ v \in unclaimed
                          => db'[v] # "none" \/ v \in unclaimed' \/ stop'.state # "running"
                       /\ db'[v] = "me" => db[v] = "me" /\ (v \in failed => v \in failed')
  PROVE  ClaimInv'
<1>1. \A state, v : Handling(state, v)' <=> Handling(state, v)
  BY DEF Handling
<1>2. \A s \in Socket : s[1] \in VP
  BY DEF Socket
<1> QED
  BY <1>1, <1>2 DEF ClaimInv

LEMMA ClaimStep == TableTypes /\ ClaimInv /\ [Next]_vars => ClaimInv'
<1> SUFFICES ASSUME TableTypes, ClaimInv, [Next]_vars PROVE ClaimInv'
  OBVIOUS
<1>1. ASSUME UNCHANGED <<handler, client, db, failed, unclaimed, stop>> PROVE ClaimInv'
  BY <1>1, ClaimKept
<1>2. ASSUME OtherStarts \/ \E v \in VP : OtherClaims(v) \/ OtherReleases(v) \/ RemoveVP(v)
      PROVE  ClaimInv'
  <2>1. UNCHANGED <<handler, client>> /\ (stop.state # "running" => stop'.state # "running")
    BY <1>2 DEF OtherClaims, OtherReleases, OtherStarts, RemoveVP, TableTypes
  <2>2. CASE OtherStarts \/ \E v \in VP : OtherClaims(v) \/ OtherReleases(v)
    BY <2>1, <2>2, ClaimKept DEF OtherClaims, OtherReleases, OtherStarts, TableTypes
  <2>3. ASSUME NEW v \in VP, RemoveVP(v) PROVE ClaimInv'
    <3>1. stop'.state = "removing"
      BY <2>3 DEF RemoveVP, TableTypes
    <3>2. \A w \in VP : db'[w] = "me" => db[w] = "me" /\ (w \in failed => w \in failed')
      BY <2>3 DEF RemoveVP, Released, TableTypes
    <3> QED
      BY <2>1, <3>1, <3>2, ClaimKept
  <2> QED
    BY <1>2, <2>2, <2>3
<1>3. ASSUME BeginStop \/ EndStop PROVE ClaimInv'
  <2>1. UNCHANGED <<handler, client, db, failed, unclaimed>> /\ (stop.state # "running" => stop'.state # "running")
    BY <1>3 DEF BeginStop, EndStop, handlerVars, TableTypes
  <2> QED
    BY <2>1, ClaimKept
<1>4. ASSUME UNCHANGED <<client, db, failed, unclaimed, stop>>, \A v : ~Handling("claimed", v),
             \A s \in Socket : handler' \notin {<<"claimed", s>>, <<"released", s>>},
             \A v : ~Handling("released", v)
      PROVE  ClaimInv'
  <2>1. \A v : ~Handling("claimed", v)' /\ ~Handling("released", v)'
    BY <1>4 DEF Handling
  <2> QED
    BY <1>4, <2>1 DEF ClaimInv
<1>5. ASSUME DialFails PROVE ClaimInv'
  BY <1>1, <1>5 DEF DialFails, handlerVars
<1>6. ASSUME Dial \/ ClaimFails \/ HandlerEnds PROVE ClaimInv'
  <2>1. /\ UNCHANGED <<client, db, failed, unclaimed, stop>>
        /\ \A s \in Socket : handler' \notin {<<"claimed", s>>, <<"released", s>>}
    <3>1. Dial => \E s : handler' = <<"dialed", s>>
      BY DEF Dial
    <3> QED
      BY <1>6, <3>1 DEF Dial, ClaimFails, HandlerEnds
  <2>2. \A v : ~Handling("claimed", v) /\ ~Handling("released", v)
    BY <1>6, HandlerIs DEF Dial, NextEvent, ClaimFails, HandlerEnds, Handling
  <2> QED
    BY <1>4, <2>1, <2>2
<1>7. ASSUME Claim PROVE ClaimInv'
  <2>1. PICK s \in Socket : handler = <<"dialed", s>> /\ handler[2] = s
    BY <1>7, HandlerIs DEF Claim
  <2>2. /\ handler' = <<"claimed", s>> /\ s[1] \in VP
        /\ \/ db' = [db EXCEPT ![s[1]] = "me"] /\ unclaimed' = unclaimed \ {s[1]}
           \/ db[s[1]] = "none" /\ db' = db /\ unclaimed' = unclaimed \union {s[1]}
        /\ UNCHANGED <<client, failed, stop>>
    BY <1>7, <2>1 DEF Claim, Socket
  <2>3. /\ \A v \in VP : v # s[1] => db'[v] = db[v] /\ (v \in unclaimed' <=> v \in unclaimed)
        /\ db'[s[1]] = "me" \/ (db'[s[1]] = "none" /\ s[1] \in unclaimed')
    BY <2>2 DEF TableTypes
  <2>4. \A v : /\ ~Handling("claimed", v) /\ ~Handling("released", v)
               /\ ~Handling("released", v)' /\ (Handling("claimed", v)' <=> v = s[1])
    BY <2>1, <2>2 DEF Handling
  <2>5. \A i \in Socket : handler' = <<"claimed", i>> => i = s
    BY <2>2
  <2> QED
    BY <2>2, <2>3, <2>4, <2>5 DEF ClaimInv
<1>8. ASSUME AddSocket PROVE ClaimInv'
  <2>1. PICK s \in Socket : handler = <<"claimed", s>> /\ handler[2] = s
    BY <1>8, HandlerIs DEF AddSocket
  <2>2. /\ client' = [client EXCEPT ![s[1]] = s] /\ handler' = <<"idle">>
        /\ UNCHANGED <<db, failed, unclaimed, stop>> /\ s[1] \in VP
    BY <1>8, <2>1 DEF AddSocket, Socket
  <2>3. \A v \in VP : client'[v] = IF v = s[1] THEN s ELSE client[v]
    BY <2>2 DEF TableTypes
  <2>4. \A v : /\ ~Handling("released", v) /\ (Handling("claimed", v) <=> v = s[1])
               /\ ~Handling("released", v)' /\ ~Handling("claimed", v)'
    BY <2>1, <2>2 DEF Handling
  <2>5. s # NoSock /\ (db[s[1]] # "none" \/ s[1] \in unclaimed \/ stop.state # "running")
    BY <2>1, NoSockIsNone DEF ClaimInv
  <2>6. \A i \in Socket : handler' # <<"claimed", i>>
    BY <2>2
  <2> QED
    BY <2>2, <2>3, <2>4, <2>5, <2>6 DEF ClaimInv
<1>9. ASSUME Release PROVE ClaimInv'
  <2>1. PICK s \in Socket : Head(events) = <<"remove", s>> /\ handler' = <<"released", s>>
    BY <1>9, EventTaken DEF Release, NextEvent, Events
  <2>2. /\ \/ db' = Released(s[1]) /\ failed' = failed \ {s[1]}
           \/ db' = db /\ failed' = failed \union {s[1]}
        /\ UNCHANGED <<client, unclaimed, stop>> /\ s[1] \in VP
    BY <1>9, <2>1 DEF Release, Socket
  <2>3. /\ \A v \in VP : v # s[1] => db'[v] = db[v] /\ (v \in failed' <=> v \in failed)
        /\ db'[s[1]] # "me" \/ s[1] \in failed'
    BY <2>2 DEF Released, TableTypes
  <2>4. \A v : ~Handling("claimed", v) /\ ~Handling("released", v)
    BY <1>9, HandlerIs DEF Release, NextEvent, Handling
  <2>5. \A v : ~Handling("claimed", v)' /\ (Handling("released", v)' <=> v = s[1])
    BY <2>1 DEF Handling
  <2>6. \A i \in Socket : handler' # <<"claimed", i>>
    BY <2>1
  <2> QED
    BY <2>2, <2>3, <2>4, <2>5, <2>6 DEF ClaimInv
<1>10. ASSUME RemoveSocket PROVE ClaimInv'
  <2>1. PICK s \in Socket : handler = <<"released", s>> /\ handler[2] = s
    BY <1>10, HandlerIs DEF RemoveSocket
  <2>2. /\ client' = [client EXCEPT ![s[1]] = NoSock] /\ handler' = <<"idle">>
        /\ UNCHANGED <<db, failed, unclaimed, stop>> /\ s[1] \in VP
    BY <1>10, <2>1 DEF RemoveSocket, Socket
  <2>3. \A v \in VP : client'[v] = IF v = s[1] THEN NoSock ELSE client[v]
    BY <2>2 DEF TableTypes
  <2>4. \A v : /\ ~Handling("claimed", v) /\ (Handling("released", v) <=> v = s[1])
               /\ ~Handling("released", v)' /\ ~Handling("claimed", v)'
    BY <2>1, <2>2 DEF Handling
  <2>5. \A i \in Socket : handler' # <<"claimed", i>>
    BY <2>2
  <2> QED
    BY <2>2, <2>3, <2>4, <2>5 DEF ClaimInv
<1>11. ASSUME NEW s \in Socket, Connect(s) \/ Disconnect(s) \/ ConnectionLost(s) PROVE ClaimInv'
  BY <1>1, <1>11 DEF Connect, Disconnect, ConnectionLost, handlerVars
<1>12. ASSUME NEW r \in Req,
              (\E v \in VP : GetSocket(r, v)) \/ DoMeasurement(r) \/ Answer(r) \/ GiveUp(r)
              \/ RemoveMeasurement(r)
       PROVE  ClaimInv'
  BY <1>1, <1>12 DEF GetSocket, DoMeasurement, Answer, GiveUp, RemoveMeasurement, handlerVars
<1>13. ASSUME (\E t \in Stream : SendResult(t) \/ StreamReturns(t) \/ StreamFails(t))
              \/ UNCHANGED vars
       PROVE  ClaimInv'
  BY <1>1, <1>13 DEF SendResult, StreamReturns, StreamFails, vars, handlerVars
<1> QED
  BY <1>2, <1>3, <1>5, <1>6, <1>7, <1>8, <1>9, <1>10, <1>11, <1>12, <1>13 DEF Next, Handle

\* The table of sockets follows the directory and the database follows the table.
THEOREM TableInvariance == Spec => []TableInv
<1>1. Init => TableInv
  <2> SUFFICES ASSUME Init PROVE TableInv
    OBVIOUS
  <2>1. TableTypes
    BY DEF Init, TableTypes, Handlers
  <2>2. \A state, v : ~(state # "idle" /\ Handling(state, v))
    BY DEF Init, Handling
  <2>3. FileInv /\ ClaimInv
    BY <2>2 DEF Init, FileInv, ClaimInv
  <2> QED
    BY <2>1, <2>3 DEF TableInv
<1>2. TableInv /\ [Next]_vars => TableInv'
  BY TableTypesStep, FileStep, ClaimStep DEF TableInv
<1> QED
  BY <1>1, <1>2, PTL DEF Spec

\* When handlEvents has caught up a socket in the table has its file and is
\* claimed, and a claim has its socket, but for vantage points without a row,
\* claims that another controller has undone and releases that were refused.
THEOREM TablesDoAgree == Spec => []TablesAgree
<1>1. TableInv => TablesAgree
  <2> SUFFICES ASSUME TableInv, CaughtUp PROVE TablesAgree
    BY DEF TablesAgree
  <2>1. \A state \in {"claimed", "released"} : \A v : ~Handling(state, v)
    BY DEF CaughtUp, Handling
  <2>2. \A type, s : ~Pending(type, s)
    BY DEF CaughtUp, Pending
  <2> QED
    BY <2>1, <2>2 DEF TableInv, FileInv, ClaimInv, CaughtUp, TablesAgree
<1> QED
  BY <1>1, TableInvariance, PTL

-----------------------------------------------------------------------------
(* Sockets                                                                 *)

OnTypes == on \in [Req -> Socket \union {NoSock}]

\* A socket nobody has been given.
Fresh(s) == client[s[1]] # s /\ \A r \in Req : on[r] # s

\* A file is made once, and a socket dialed once, after that.
BornInv ==
  /\ \A s \in Socket : file[s] = "unborn" => sock[s] = "none"
  /\ \A s \in Socket : Pending("create", s) => file[s] # "unborn" /\ sock[s] = "none"
  /\ \A s \in Socket, i, j \in 1..Len(events) :
       events[i] = <<"create", s>> /\ events[j] = <<"create", s>> => i = j

\* An open socket is in the table or on its way there; one that is not there yet
\* has been given to nobody.
AliveInv ==
  /\ \A s \in Socket : sock[s] = "open" =>
       client[s[1]] = s \/ handler = <<"dialed", s>> \/ handler = <<"claimed", s>>
  /\ \A s \in Socket : sock[s] = "none" => Fresh(s)
  /\ \A s \in Socket : handler = <<"dialed", s>> \/ handler = <<"claimed", s>> =>
       Fresh(s) /\ sock[s] # "none"

SocketInv == TableTypes /\ OnTypes /\ BornInv /\ AliveInv

LEMMA OnTypesStep == TableTypes /\ OnTypes /\ [Next]_vars => OnTypes'
<1> SUFFICES ASSUME TableTypes, OnTypes, [Next]_vars PROVE OnTypes'
  OBVIOUS
<1>1. CASE UNCHANGED on
  BY <1>1 DEF OnTypes
<1>2. ASSUME NEW r \in Req, NEW v \in VP, GetSocket(r, v) PROVE OnTypes'
  BY <1>2 DEF GetSocket, OnTypes, TableTypes
<1>3. CASE ~\E r \in Req, v \in VP : GetSocket(r, v)
  <2>1. UNCHANGED on
    BY <1>3 DEF Next, Handle, Connect, Disconnect, ConnectionLost, OtherClaims, OtherReleases,
                OtherStarts, RemoveVP, Dial,
                DialFails, Claim, ClaimFails, AddSocket, Release, RemoveSocket, BeginStop, EndStop,
                HandlerEnds, DoMeasurement, Answer, GiveUp, RemoveMeasurement, SendResult,
                StreamReturns, StreamFails, StopSockets, reqVars, vars
  <2> QED
    BY <1>1, <2>1
<1> QED
  BY <1>2, <1>3

LEMMA BornStep == SocketInv /\ [Next]_vars => BornInv'
<1> SUFFICES ASSUME SocketInv, [Next]_vars PROVE BornInv'
  OBVIOUS
<1> USE DEF SocketInv
<1>1. ASSUME UNCHANGED <<file, events>>,
             \A s \in Socket : sock[s] = "none" => sock'[s] = "none"
      PROVE  BornInv'
  <2>1. \A type, s : Pending(type, s)' <=> Pending(type, s)
    BY <1>1 DEF Pending
  <2> QED
    BY <1>1, <2>1 DEF BornInv
<1>2. ASSUME NEW S \in SUBSET Socket, StopSockets(S), UNCHANGED <<file, events>>,
             \A s \in S : sock[s] # "none"
      PROVE  BornInv'
  BY <1>1, <1>2, StopTypes
<1>3. ASSUME NEW s \in Socket, Connect(s) PROVE BornInv'
  <2>1. <<"create", s>> \in Events /\ events' = Append(events, <<"create", s>>)
    BY <1>3 DEF Connect, Events
  <2>2. \A type, i : Pending(type, i)' <=> Pending(type, i) \/ <<"create", s>> = <<type, i>>
    BY <2>1, PendingAdded
  <2>3. /\ file[s] = "unborn" /\ sock' = sock
        /\ \A i \in Socket : file'[i] = IF i = s THEN "present" ELSE file[i]
    BY <1>3 DEF Connect, TableTypes, sockVars
  <2>4. /\ Len(events') = Len(events) + 1 /\ Len(events) \in Nat
        /\ \A i \in 1..Len(events) : events'[i] = events[i]
        /\ \A i \in 1..Len(events') : i \in 1..Len(events) \/ i = Len(events')
    <3>1. /\ Len(events') = Len(events) + 1 /\ Len(events) \in Nat
          /\ \A i \in 1..Len(events) : events'[i] = events[i]
      BY <2>1, EventAdded
    <3> QED
      BY <3>1
  <2>5. ASSUME NEW t \in Socket, NEW i \in 1..Len(events'), NEW j \in 1..Len(events'),
               events'[i] = <<"create", t>>, events'[j] = <<"create", t>>
        PROVE  i = j
    <3>1. events'[Len(events')] = <<"create", s>>
      BY <2>1, EventAdded
    <3>2. \A k \in 1..Len(events) : events[k] # <<"create", s>>
      BY <2>3 DEF BornInv, Pending
    <3>3. CASE i \in 1..Len(events) /\ j \in 1..Len(events)
      BY <2>4, <2>5, <3>3 DEF BornInv
    <3>4. CASE i = Len(events') \/ j = Len(events')
      <4>1. t = s
        BY <2>5, <3>1, <3>4
      <4> QED
        BY <2>4, <2>5, <3>2, <4>1
    <3> QED
      BY <2>4, <3>3, <3>4
  <2>6. \A i \in Socket : Pending("create", i)' => file'[i] # "unborn" /\ sock'[i] = "none"
    BY <2>2, <2>3 DEF BornInv
  <2>7. \A i \in Socket : file'[i] = "unborn" => sock'[i] = "none"
    BY <2>3 DEF BornInv
  <2> QED
    BY <2>5, <2>6, <2>7 DEF BornInv
<1>4. ASSUME NEW s \in Socket, Disconnect(s) PROVE BornInv'
  <2>1. <<"remove", s>> \in Events /\ events' = Append(events, <<"remove", s>>)
    BY <1>4 DEF Disconnect, Events
  <2>2. \A type, i : Pending(type, i)' <=> Pending(type, i) \/ <<"remove", s>> = <<type, i>>
    BY <2>1, PendingAdded
  <2>3. /\ sock' = sock
        /\ \A i \in Socket : file'[i] = "unborn" => file[i] = "unborn"
        /\ \A i \in Socket : file[i] # "unborn" => file'[i] # "unborn"
    BY <1>4 DEF Disconnect, TableTypes, sockVars
  <2>4. /\ Len(events') = Len(events) + 1 /\ Len(events) \in Nat
        /\ \A i \in 1..Len(events) : events'[i] = events[i]
        /\ events'[Len(events) + 1] = <<"remove", s>>
    BY <2>1, EventAdded
  <2>5. \A i \in 1..Len(events'), t \in Socket :
          events'[i] = <<"create", t>> => i \in 1..Len(events) /\ events[i] = <<"create", t>>
    <3>1. \A i \in 1..Len(events') : i \in 1..Len(events) \/ i = Len(events) + 1
      BY <2>4
    <3> QED
      BY <2>4, <3>1
  <2> QED
    BY <2>2, <2>3, <2>5 DEF BornInv
<1>5. ASSUME events # <<>>, events' = Tail(events), UNCHANGED file,
             \A s \in Socket : sock[s] = "none" => sock'[s] = "none" \/ Head(events) = <<"create", s>>,
             \A s \in Socket : sock'[s] = "none" \/ file[s] # "unborn"
      PROVE  BornInv'
  <2>1. /\ Len(events') = Len(events) - 1 /\ Len(events) \in Nat \ {0}
        /\ \A i \in 1..Len(events') : events'[i] = events[i + 1]
        /\ Head(events) = events[1]
    BY <1>5, EventTaken
  <2>2. \A i \in 1..Len(events') : i + 1 \in 1..Len(events) /\ i + 1 # 1
    BY <2>1
  <2>3. ASSUME NEW s \in Socket, NEW i \in 1..Len(events'), NEW j \in 1..Len(events'),
               events'[i] = <<"create", s>>, events'[j] = <<"create", s>>
        PROVE  i = j
    <3>1. i + 1 = j + 1
      BY <2>1, <2>2, <2>3 DEF BornInv
    <3> QED
      BY <3>1
  <2>4. ASSUME NEW s \in Socket, Pending("create", s)'
        PROVE  file'[s] # "unborn" /\ sock'[s] = "none"
    <3>1. PICK i \in 1..Len(events') : events'[i] = <<"create", s>>
      BY <2>4 DEF Pending
    <3>2. i + 1 \in 1..Len(events) /\ events[i + 1] = <<"create", s>>
      BY <2>1, <2>2, <3>1
    <3>3. file[s] # "unborn" /\ sock[s] = "none"
      BY <3>2 DEF BornInv, Pending
    <3>4. 1 \in 1..Len(events)
      BY <2>1
    <3>5. events[1] # <<"create", s>>
      BY <2>2, <3>1, <3>2, <3>4 DEF BornInv
    <3> QED
      BY <1>5, <2>1, <3>3, <3>5
  <2> QED
    BY <1>5, <2>3, <2>4 DEF BornInv
<1>6. ASSUME Dial PROVE BornInv'
  <2>1. PICK s \in Socket : /\ Head(events) = <<"create", s>> /\ file[s] = "present"
                            /\ sock' = [sock EXCEPT ![s] = "open"]
    <3>1. PICK s \in Socket : Head(events) = <<"create", s>>
      BY <1>6, EventTaken DEF Dial, NextEvent, Events
    <3>2. Head(events)[2] = s
      BY <3>1
    <3> QED
      BY <1>6, <3>1, <3>2 DEF Dial
  <2>2. \A i \in Socket : i # s => sock'[i] = sock[i]
    BY <2>1 DEF TableTypes
  <2> QED
    BY <1>5, <1>6, <2>1, <2>2 DEF Dial, NextEvent, BornInv
<1>7. ASSUME DialFails \/ Release PROVE BornInv'
  BY <1>5, <1>7 DEF DialFails, Release, NextEvent, sockVars, BornInv
<1>8. ASSUME ClaimFails \/ AddSocket \/ RemoveSocket PROVE BornInv'
  <2>1. \A v \in VP : \A s \in Held(v) : s \in Socket /\ sock[s] # "none"
    BY HeldIs DEF AliveInv, Fresh
  <2>2. CASE ClaimFails
    <3>1. PICK s \in Socket : handler = <<"dialed", s>> /\ handler[2] = s
      BY <2>2, HandlerIs DEF ClaimFails
    <3> QED
      BY <1>2, <2>2, <3>1 DEF ClaimFails, AliveInv
  <2>3. CASE AddSocket
    <3>1. PICK s \in Socket : handler = <<"claimed", s>> /\ handler[2] = s /\ s[1] \in VP
      BY <2>3, HandlerIs DEF AddSocket, Socket
    <3> QED
      BY <1>2, <2>1, <2>3, <3>1, HeldIs DEF AddSocket
  <2>4. CASE RemoveSocket
    <3>1. PICK s \in Socket : handler = <<"released", s>> /\ handler[2] = s /\ s[1] \in VP
      BY <2>4, HandlerIs DEF RemoveSocket, Socket
    <3> QED
      BY <1>2, <2>1, <2>4, <3>1, HeldIs DEF RemoveSocket
  <2> QED
    BY <1>8, <2>2, <2>3, <2>4
<1>9. ASSUME NEW s \in Socket, ConnectionLost(s) PROVE BornInv'
  BY <1>2, <1>9 DEF ConnectionLost
<1>10. ASSUME UNCHANGED <<file, events, sock>> PROVE BornInv'
  BY <1>1, <1>10
<1>11. ASSUME Claim \/ HandlerEnds \/ BeginStop \/ EndStop
              \/ OtherStarts \/ \E v \in VP : OtherClaims(v) \/ OtherReleases(v) \/ RemoveVP(v)
       PROVE  BornInv'
  BY <1>10, <1>11 DEF Claim, HandlerEnds, BeginStop, EndStop, OtherClaims, OtherReleases, OtherStarts,
                      RemoveVP, sockVars
<1>12. ASSUME NEW r \in Req,
              (\E v \in VP : GetSocket(r, v)) \/ DoMeasurement(r) \/ Answer(r) \/ GiveUp(r)
              \/ RemoveMeasurement(r)
       PROVE  BornInv'
  BY <1>10, <1>12 DEF GetSocket, DoMeasurement, Answer, GiveUp, RemoveMeasurement, sockVars
<1>13. ASSUME (\E t \in Stream : SendResult(t) \/ StreamReturns(t) \/ StreamFails(t))
              \/ UNCHANGED vars
       PROVE  BornInv'
  BY <1>10, <1>13 DEF SendResult, StreamReturns, StreamFails, vars, sockVars
<1> QED
  BY <1>3, <1>4, <1>6, <1>7, <1>8, <1>9, <1>11, <1>12, <1>13 DEF Next, Handle

LEMMA AliveStep == SocketInv /\ [Next]_vars => AliveInv'
<1> SUFFICES ASSUME SocketInv, [Next]_vars PROVE AliveInv'
  OBVIOUS
<1> USE DEF SocketInv
<1>0. \A s \in Socket : s[1] \in VP /\ s # NoSock
  BY NoSockIsNone DEF Socket
<1>1. ASSUME UNCHANGED <<sock, client, handler, on>> PROVE AliveInv'
  BY <1>1 DEF AliveInv, Fresh
<1>2. ASSUME NEW s \in Socket, ConnectionLost(s) PROVE AliveInv'
  <2>1. UNCHANGED <<client, handler, on>> /\ sock[s] = "open"
    BY <1>2 DEF ConnectionLost, StopSockets, handlerVars
  <2>2. \A i \in Socket : sock'[i] = IF i = s THEN "closed" ELSE sock[i]
    BY <1>2, StopTypes DEF ConnectionLost
  <2> QED
    BY <2>1, <2>2 DEF AliveInv, Fresh
<1>3. ASSUME Dial PROVE AliveInv'
  <2>1. PICK s \in Socket : Head(events) = <<"create", s>>
    BY <1>3, EventTaken DEF Dial, NextEvent, Events
  <2>2. /\ handler' = <<"dialed", s>> /\ UNCHANGED <<client, on>>
        /\ \A i \in Socket : sock'[i] = IF i = s THEN "open" ELSE sock[i]
    <3>1. Head(events)[2] = s
      BY <2>1
    <3> QED
      BY <1>3, <3>1 DEF Dial, TableTypes, reqVars
  <2>3. sock[s] = "none"
    <3>1. 1 \in 1..Len(events) /\ events[1] = <<"create", s>>
      BY <1>3, <2>1, EventTaken DEF Dial, NextEvent
    <3> QED
      BY <3>1 DEF BornInv, Pending
  <2>4. Fresh(s)
    BY <2>3 DEF AliveInv
  <2>5. \A i \in Socket : handler # <<"dialed", i>> /\ handler # <<"claimed", i>>
    BY <1>3, HandlerIs DEF Dial, NextEvent
  <2>6. \A i \in Socket : handler' # <<"claimed", i>> /\ (handler' = <<"dialed", i>> => i = s)
    BY <2>2
  <2> QED
    BY <2>2, <2>4, <2>5, <2>6 DEF AliveInv, Fresh
<1>4. ASSUME Claim PROVE AliveInv'
  <2>1. PICK s \in Socket : handler = <<"dialed", s>> /\ handler[2] = s
    BY <1>4, HandlerIs DEF Claim
  <2>2. handler' = <<"claimed", s>> /\ UNCHANGED <<client, on, sock>>
    BY <1>4, <2>1 DEF Claim, sockVars, reqVars
  <2>3. \A i \in Socket : /\ handler' # <<"dialed", i>> /\ (handler' = <<"claimed", i>> <=> i = s)
                          /\ handler # <<"claimed", i>> /\ (handler = <<"dialed", i>> <=> i = s)
    BY <2>1, <2>2
  <2> QED
    BY <2>2, <2>3 DEF AliveInv, Fresh
<1>5. ASSUME ClaimFails PROVE AliveInv'
  <2>1. PICK s \in Socket : handler = <<"dialed", s>> /\ handler[2] = s
    BY <1>5, HandlerIs DEF ClaimFails
  <2>2. handler' = <<"idle">> /\ UNCHANGED <<client, on>>
    BY <1>5 DEF ClaimFails, StopSockets
  <2>3. \A i \in Socket : sock'[i] = IF i = s THEN "closed" ELSE sock[i]
    BY <1>5, <2>1, StopTypes DEF ClaimFails
  <2>4. \A i \in Socket : /\ handler' # <<"dialed", i>> /\ handler' # <<"claimed", i>>
                          /\ handler # <<"claimed", i>> /\ (handler = <<"dialed", i>> <=> i = s)
    BY <2>1, <2>2
  <2> QED
    BY <2>2, <2>3, <2>4 DEF AliveInv, Fresh
<1>6. ASSUME AddSocket PROVE AliveInv'
  <2>1. PICK s \in Socket : handler = <<"claimed", s>> /\ handler[2] = s
    BY <1>6, HandlerIs DEF AddSocket
  <2>2. /\ handler' = <<"idle">> /\ UNCHANGED on
        /\ \A v \in VP : client'[v] = IF v = s[1] THEN s ELSE client[v]
    BY <1>6, <2>1 DEF AddSocket, StopSockets, TableTypes
  <2>3. \A i \in Socket : sock'[i] = IF i \in Held(s[1]) THEN "closed" ELSE sock[i]
    BY <1>0, <1>6, <2>1, HeldIs, StopTypes DEF AddSocket
  <2>4. \A i \in Socket : /\ handler' # <<"dialed", i>> /\ handler' # <<"claimed", i>>
                          /\ handler # <<"dialed", i>> /\ (handler = <<"claimed", i>> <=> i = s)
    BY <2>1, <2>2
  <2>5. \A i \in Socket : client[s[1]] = i => i \in Held(s[1])
    BY <1>0 DEF Held
  <2>6. sock[s] # "none"
    BY <2>1 DEF AliveInv
  <2>7. ASSUME NEW i \in Socket, sock'[i] = "open" PROVE client'[i[1]] = i
    <3>1. sock[i] = "open" /\ i \notin Held(s[1])
      BY <2>3, <2>7
    <3>2. client[i[1]] = i \/ i = s
      BY <2>4, <3>1 DEF AliveInv
    <3> QED
      BY <1>0, <2>2, <2>5, <3>1, <3>2
  <2>8. ASSUME NEW i \in Socket, sock'[i] = "none" PROVE Fresh(i)'
    <3>1. sock[i] = "none" /\ i # s
      BY <2>3, <2>6, <2>8
    <3> QED
      BY <1>0, <2>2, <3>1 DEF AliveInv, Fresh
  <2> QED
    BY <2>4, <2>7, <2>8 DEF AliveInv
<1>7. ASSUME RemoveSocket PROVE AliveInv'
  <2>1. PICK s \in Socket : handler = <<"released", s>> /\ handler[2] = s
    BY <1>7, HandlerIs DEF RemoveSocket
  <2>2. /\ handler' = <<"idle">> /\ UNCHANGED on
        /\ \A v \in VP : client'[v] = IF v = s[1] THEN NoSock ELSE client[v]
    BY <1>7, <2>1 DEF RemoveSocket, StopSockets, TableTypes
  <2>3. \A i \in Socket : sock'[i] = IF i \in Held(s[1]) THEN "closed" ELSE sock[i]
    BY <1>0, <1>7, <2>1, HeldIs, StopTypes DEF RemoveSocket
  <2>4. \A i \in Socket : /\ handler' # <<"dialed", i>> /\ handler' # <<"claimed", i>>
                          /\ handler # <<"dialed", i>> /\ handler # <<"claimed", i>>
    BY <2>1, <2>2
  <2>5. \A i \in Socket : client[s[1]] = i => i \in Held(s[1])
    BY <1>0 DEF Held
  <2>7. ASSUME NEW i \in Socket, sock'[i] = "open" PROVE client'[i[1]] = i
    <3>1. sock[i] = "open" /\ i \notin Held(s[1])
      BY <2>3, <2>7
    <3>2. client[i[1]] = i
      BY <2>4, <3>1 DEF AliveInv
    <3> QED
      BY <1>0, <2>2, <2>5, <3>1, <3>2
  <2>8. ASSUME NEW i \in Socket, sock'[i] = "none" PROVE Fresh(i)'
    <3>1. sock[i] = "none"
      BY <2>3, <2>8
    <3> QED
      BY <1>0, <2>2, <3>1 DEF AliveInv, Fresh
  <2> QED
    BY <2>4, <2>7, <2>8 DEF AliveInv
<1>8. ASSUME Release \/ HandlerEnds PROVE AliveInv'
  <2>1. UNCHANGED <<client, on, sock>>
    BY <1>8 DEF Release, HandlerEnds, sockVars, reqVars
  <2>2. \A i \in Socket : handler' # <<"dialed", i>> /\ handler' # <<"claimed", i>>
    BY <1>8 DEF Release, HandlerEnds
  <2>3. \A i \in Socket : handler # <<"dialed", i>> /\ handler # <<"claimed", i>>
    BY <1>8, HandlerIs DEF Release, NextEvent, HandlerEnds
  <2> QED
    BY <2>1, <2>2, <2>3 DEF AliveInv, Fresh
<1>9. ASSUME NEW r \in Req, NEW v \in VP, GetSocket(r, v) PROVE AliveInv'
  <2>1. /\ UNCHANGED <<sock, client, handler>>
        /\ \A q \in Req : on'[q] = IF q = r THEN client[v] ELSE on[q]
    BY <1>9 DEF GetSocket, sockVars, handlerVars, OnTypes
  <2>2. \A i \in Socket : client[v] = i => v = i[1]
    BY <1>0 DEF TableTypes
  <2>3. \A i \in Socket : Fresh(i) => Fresh(i)'
    BY <2>1, <2>2 DEF Fresh
  <2> QED
    BY <2>1, <2>3 DEF AliveInv
<1>10. ASSUME NEW s \in Socket, Connect(s) \/ Disconnect(s) PROVE AliveInv'
  BY <1>1, <1>10 DEF Connect, Disconnect, handlerVars, sockVars, reqVars
<1>11. ASSUME \/ DialFails \/ BeginStop \/ EndStop \/ OtherStarts
              \/ \E v \in VP : OtherClaims(v) \/ OtherReleases(v) \/ RemoveVP(v)
       PROVE  AliveInv'
  BY <1>1, <1>11 DEF DialFails, BeginStop, EndStop, OtherClaims, OtherReleases, OtherStarts, RemoveVP,
                      handlerVars, sockVars,
                     reqVars
<1>12. ASSUME NEW r \in Req, DoMeasurement(r) \/ Answer(r) \/ GiveUp(r) \/ RemoveMeasurement(r)
       PROVE  AliveInv'
  BY <1>1, <1>12 DEF DoMeasurement, Answer, GiveUp, RemoveMeasurement, handlerVars, sockVars, reqVars
<1>13. ASSUME (\E t \in Stream : SendResult(t) \/ StreamReturns(t) \/ StreamFails(t))
              \/ UNCHANGED vars
       PROVE  AliveInv'
  BY <1>1, <1>13 DEF SendResult, StreamReturns, StreamFails, vars, handlerVars, sockVars, reqVars
<1> QED
  BY <1>2, <1>3, <1>4, <1>5, <1>6, <1>7, <1>8, <1>9, <1>10, <1>11, <1>12, <1>13 DEF Next, Handle

\* Each file has one socket, dialed once; what is open is in the table or about
\* to be.
THEOREM SocketInvariance == Spec => []SocketInv
<1>1. Init => SocketInv
  <2> SUFFICES ASSUME Init PROVE SocketInv
    OBVIOUS
  <2>1. TableTypes /\ OnTypes
    BY DEF Init, TableTypes, OnTypes, Handlers
  <2>2. BornInv /\ AliveInv
    BY NoSockIsNone DEF Init, BornInv, AliveInv, Pending, Fresh, Socket
  <2> QED
    BY <2>1, <2>2 DEF SocketInv
<1>2. SocketInv /\ [Next]_vars => SocketInv'
  BY TableTypesStep, OnTypesStep, BornStep, AliveStep DEF SocketInv
<1> QED
  BY <1>1, <1>2, PTL DEF Spec

-----------------------------------------------------------------------------
(* Commands                                                                *)

ReqStates == {"idle", "found", "waiting", "leaving", "gaveup", "ended"}

CallTypes ==
  /\ nextId \in [Socket -> Nat] /\ id \in [Req -> Nat]
  /\ cmds \in [Socket -> SUBSET (Nat \X Req)]
  /\ req \in [Req -> ReqStates]

\* Ids are unique on each socket.
IdInv ==
  /\ \A r \in Req : id[r] # 0 => on[r] \in Socket /\ id[r] <= nextId[on[r]]
  /\ \A r, q \in Req : id[r] # 0 /\ id[r] = id[q] /\ on[r] = on[q] => r = q
  /\ \A r \in Req : req[r] \in {"idle", "found"} => id[r] = 0
  /\ \A r \in Req : req[r] = "found" => on[r] \in Socket
  /\ \A r \in Req : req[r] \in {"waiting", "leaving", "gaveup"} => id[r] # 0

\* The command of an older socket, given up, whose removal hits that of r.
Displaced(r) == \E q \in Req : /\ req[q] = "gaveup" /\ id[q] = id[r]
                               /\ on[q][1] = on[r][1] /\ on[q][2] # on[r][2]

\* A command is on an open socket, for a measurement that waits for it or is
\* about to give up; and who waits has a command, or has lost it to another.
CommandInv ==
  /\ \A s \in Socket : cmds[s] # {} => sock[s] = "open"
  /\ \A s \in Socket : \A c \in cmds[s] :
       c[1] = id[c[2]] /\ on[c[2]] = s /\ req[c[2]] \in {"waiting", "leaving"}
  /\ \A r \in Req : req[r] = "waiting" => <<id[r], r>> \in cmds[on[r]] \/ Displaced(r)

CallInv == CallTypes /\ IdInv /\ CommandInv

LEMMA CommandIs ==
  ASSUME CallTypes, NEW s \in Socket, NEW c \in cmds[s]
  PROVE  c[1] \in Nat /\ c[2] \in Req /\ c = <<c[1], c[2]>>
  BY DEF CallTypes

\* Stopping a socket ends whoever waits for an answer on it.
LEMMA StopCalls ==
  ASSUME SocketInv, CallInv, NEW S \in SUBSET Socket, StopSockets(S)
  PROVE  CallInv'
<1> USE DEF CallInv
<1>1. /\ \A s \in Socket : /\ sock'[s] = IF s \in S THEN "closed" ELSE sock[s]
                           /\ cmds'[s] = IF s \in S THEN {} ELSE cmds[s]
      /\ \A r \in Req : req'[r] = IF req[r] = "waiting" /\ r \in Waiters(S) THEN "ended" ELSE req[r]
      /\ UNCHANGED <<nextId, on, id>>
  BY DEF StopSockets
<1>2. CallTypes'
  BY <1>1 DEF StopSockets, CallTypes, ReqStates
<1>3. IdInv'
  BY <1>1 DEF IdInv
<1>4. ASSUME NEW s \in Socket, s \notin S, NEW c \in cmds[s] PROVE c[2] \notin Waiters(S)
  <2> SUFFICES ASSUME c[2] \in Waiters(S) PROVE FALSE
    OBVIOUS
  <2>1. PICK i \in S : \E d \in cmds[i] : d[2] = c[2]
    BY DEF Waiters
  <2>2. PICK d \in cmds[i] : d[2] = c[2]
    BY <2>1
  <2>3. on[d[2]] = i /\ on[c[2]] = s
    BY <2>1, <2>2 DEF CommandInv
  <2> QED
    BY <1>4, <2>1, <2>2, <2>3
<1>5. \A s \in Socket : cmds'[s] # {} => sock'[s] = "open"
  BY <1>1 DEF CommandInv
<1>6. ASSUME NEW s \in Socket, NEW c \in cmds'[s]
      PROVE  c[1] = id'[c[2]] /\ on'[c[2]] = s /\ req'[c[2]] \in {"waiting", "leaving"}
  <2>1. s \notin S /\ c \in cmds[s]
    BY <1>1, <1>6
  <2>2. c[2] \in Req /\ c[2] \notin Waiters(S)
    BY <1>4, <2>1, CommandIs
  <2> QED
    BY <1>1, <2>1, <2>2 DEF CommandInv
<1>7. ASSUME NEW r \in Req, req'[r] = "waiting" PROVE <<id'[r], r>> \in cmds'[on'[r]] \/ Displaced(r)'
  <2>1. req[r] = "waiting" /\ r \notin Waiters(S)
    BY <1>1, <1>7
  <2>2. CASE <<id[r], r>> \in cmds[on[r]]
    <3>1. on[r] \in Socket
      BY <2>1 DEF IdInv
    <3>2. on[r] \notin S
      BY <2>1, <2>2 DEF Waiters
    <3> QED
      BY <1>1, <2>2, <3>1, <3>2
  <2>3. CASE Displaced(r)
    BY <1>1, <2>3 DEF Displaced
  <2> QED
    BY <2>1, <2>2, <2>3 DEF CommandInv
<1> QED
  BY <1>2, <1>3, <1>5, <1>6, <1>7 DEF CommandInv

\* A new command gets an id the socket has not given out.
LEMMA DoMeasurementCalls ==
  ASSUME SocketInv, CallInv, NEW r \in Req, DoMeasurement(r) PROVE CallInv'
<1> USE DEF CallInv
<1>1. PICK s \in Socket : s = on[r]
  BY DEF DoMeasurement, IdInv
<1>2. req[r] = "found" /\ id[r] = 0 /\ UNCHANGED <<sock, on>> /\ nextId[s] \in Nat
  BY DEF DoMeasurement, IdInv, CallTypes
<1>3. CASE sock[s] = "open"
  <2>1. PICK n \in Nat : n = nextId[s] + 1
    BY <1>2
  <2>2. /\ nextId' = [nextId EXCEPT ![s] = n]
        /\ cmds' = [cmds EXCEPT ![s] = @ \union {<<n, r>>}]
        /\ id' = [id EXCEPT ![r] = n] /\ req' = [req EXCEPT ![r] = "waiting"]
    BY <1>1, <1>3, <2>1 DEF DoMeasurement
  <2>3. CallTypes'
    BY <2>2 DEF CallTypes, ReqStates
  <2>4. /\ \A q \in Req : /\ id'[q] = IF q = r THEN n ELSE id[q]
                          /\ req'[q] = IF q = r THEN "waiting" ELSE req[q]
        /\ \A i \in Socket : /\ nextId'[i] = IF i = s THEN n ELSE nextId[i]
                             /\ cmds'[i] = IF i = s THEN cmds[i] \union {<<n, r>>} ELSE cmds[i]
    BY <2>2 DEF CallTypes
  <2>5. n # 0 /\ \A q \in Req : id[q] # 0 /\ on[q] = s => id[q] # n /\ id[q] <= n
    BY <1>2, <2>1 DEF IdInv, CallTypes
  <2>6. IdInv'
    <3>1. \A q \in Req : id'[q] # 0 => on'[q] \in Socket /\ id'[q] <= nextId'[on'[q]]
      <4> SUFFICES ASSUME NEW q \in Req, id'[q] # 0
                   PROVE  on[q] \in Socket /\ id'[q] <= nextId'[on[q]]
        BY <1>2
      <4>1. CASE q = r
        <5>1. id'[q] = n /\ q = r
          BY <2>4, <4>1
        <5>2. nextId'[s] = n
          BY <2>4
        <5>3. on[q] = s
          BY <1>1, <5>1
        <5>4. n \in Nat
          BY <2>1, <2>2 DEF CallTypes
        <5>5. n <= n
          BY <5>4
        <5>6. nextId'[on[q]] = n
          BY <5>2, <5>3
        <5> QED
          BY <5>1, <5>3, <5>5, <5>6
      <4>2. CASE q # r /\ on[q] = s
        BY <2>4, <2>5, <4>2
      <4>3. CASE q # r /\ on[q] # s
        BY <2>4, <4>3 DEF IdInv
      <4> QED
        BY <4>1, <4>2, <4>3
    <3>2. \A p, q \in Req : id'[p] # 0 /\ id'[p] = id'[q] /\ on'[p] = on'[q] => p = q
      BY <1>1, <1>2, <2>4, <2>5 DEF IdInv
    <3> QED
      BY <1>2, <2>4, <2>5, <3>1, <3>2 DEF IdInv
  <2>7. ASSUME NEW i \in Socket, NEW c \in cmds'[i]
        PROVE  c[1] = id'[c[2]] /\ on'[c[2]] = i /\ req'[c[2]] \in {"waiting", "leaving"}
    <3>1. CASE c \in cmds[i]
      <4>1. c[2] \in Req /\ c[2] # r
        BY <1>2, <3>1, CommandIs DEF CommandInv
      <4> QED
        BY <1>2, <2>4, <3>1, <4>1 DEF CommandInv
    <3>2. CASE c \notin cmds[i]
      <4>1. i = s /\ c = <<n, r>>
        BY <2>4, <2>7, <3>2
      <4>2. c[1] = n /\ c[2] = r
        BY <4>1
      <4> QED
        BY <1>1, <1>2, <2>4, <4>1, <4>2
    <3> QED
      BY <3>1, <3>2
  <2>8. ASSUME NEW q \in Req, req'[q] = "waiting" PROVE <<id'[q], q>> \in cmds'[on'[q]] \/ Displaced(q)'
    <3>1. CASE q = r
      BY <1>1, <1>2, <2>4, <3>1
    <3>2. CASE q # r
      <4>1. req[q] = "waiting" /\ id'[q] = id[q] /\ on[q] \in Socket
        BY <2>4, <2>8, <3>2 DEF IdInv
      <4>2. CASE Displaced(q)
        BY <1>2, <2>4, <4>1, <4>2 DEF Displaced
      <4>3. CASE <<id[q], q>> \in cmds[on[q]]
        BY <1>2, <2>4, <4>1, <4>3
      <4> QED
        BY <4>1, <4>2, <4>3 DEF CommandInv
    <3> QED
      BY <3>1, <3>2
  <2>9. \A i \in Socket : cmds'[i] # {} => sock'[i] = "open"
    BY <1>2, <1>3, <2>4 DEF CommandInv
  <2> QED
    BY <2>3, <2>6, <2>7, <2>8, <2>9 DEF CommandInv
<1>4. CASE sock[s] # "open"
  <2>1. req' = [req EXCEPT ![r] = "ended"] /\ UNCHANGED <<nextId, cmds, id>>
    BY <1>1, <1>4 DEF DoMeasurement
  <2>2. \A q \in Req : req'[q] = IF q = r THEN "ended" ELSE req[q]
    BY <2>1 DEF CallTypes
  <2>3. CallTypes' /\ IdInv'
    BY <1>2, <2>1, <2>2 DEF CallTypes, ReqStates, IdInv
  <2>4. \A i \in Socket : \A c \in cmds[i] : c[2] # r
    BY <1>2 DEF CommandInv
  <2>5. \A q \in Req : Displaced(q) => Displaced(q)'
    BY <1>2, <2>1, <2>2 DEF Displaced
  <2>6. \A i \in Socket : \A c \in cmds[i] : c[2] \in Req
    BY CommandIs
  <2> QED
    BY <1>2, <2>1, <2>2, <2>3, <2>4, <2>5, <2>6 DEF CommandInv
<1> QED
  BY <1>3, <1>4

\* A measurement that gives up takes its command with it, if the socket still
\* lives; on a newer socket it displaces one.
LEMMA RemoveCalls ==
  ASSUME SocketInv, CallInv, NEW r \in Req, RemoveMeasurement(r) PROVE CallInv'
<1> USE DEF CallInv
<1>1. PICK s \in Socket : s = on[r]
  BY DEF RemoveMeasurement, IdInv
<1>2. /\ req[r] = "leaving" /\ id[r] # 0 /\ UNCHANGED <<sock, on, id, nextId>>
      /\ \A q \in Req : req'[q] = IF q = r THEN "gaveup" ELSE req[q]
      /\ \A i \in Socket : cmds'[i] = IF i \in Held(s[1]) THEN {c \in cmds[i] : c[1] # id[r]}
                                                          ELSE cmds[i]
  BY <1>1 DEF RemoveMeasurement, IdInv, CallTypes
<1>3. \A i \in Socket : cmds'[i] \subseteq cmds[i]
  BY <1>2
<1>4. CallTypes'
  BY <1>1, <1>2 DEF RemoveMeasurement, CallTypes, ReqStates
<1>5. IdInv'
  BY <1>2 DEF IdInv
<1>6. ASSUME NEW i \in Socket, NEW c \in cmds'[i]
      PROVE  c[1] = id'[c[2]] /\ on'[c[2]] = i /\ req'[c[2]] \in {"waiting", "leaving"}
  <2>1. c \in cmds[i]
    BY <1>3, <1>6
  <2>2. c[2] \in Req /\ c[1] = id[c[2]] /\ on[c[2]] = i /\ req[c[2]] \in {"waiting", "leaving"}
    BY <2>1, CommandIs DEF CommandInv
  <2>3. c[2] # r
    <3> SUFFICES ASSUME c[2] = r PROVE FALSE
      OBVIOUS
    <3>1. i = s /\ c[1] = id[r]
      BY <1>1, <2>2
    <3>2. sock[s] = "open"
      BY <2>1, <3>1 DEF CommandInv
    <3>3. client[s[1]] = s
      BY <1>1, <3>2 DEF SocketInv, AliveInv, Fresh
    <3>4. s \in Held(s[1])
      BY <3>3, NoSockIsNone DEF Held
    <3> QED
      BY <1>2, <1>6, <3>1, <3>4
  <2> QED
    BY <1>2, <2>2, <2>3
<1>7. ASSUME NEW q \in Req, req'[q] = "waiting" PROVE <<id'[q], q>> \in cmds'[on'[q]] \/ Displaced(q)'
  <2>1. q # r /\ req[q] = "waiting" /\ on[q] \in Socket /\ id[q] # 0
    BY <1>2, <1>7 DEF IdInv
  <2>2. CASE Displaced(q)
    BY <1>2, <2>2 DEF Displaced
  <2>3. CASE <<id[q], q>> \in cmds[on[q]] \ cmds'[on[q]]
    <3>1. on[q] \in Held(s[1]) /\ id[q] = id[r]
      BY <1>2, <2>1, <2>3
    <3>2. on[q][1] = s[1]
      BY <1>1, <3>1, HeldIs DEF SocketInv, Socket
    <3>3. on[q] # s
      BY <1>1, <2>1, <3>1 DEF IdInv
    <3>4. on[q][2] # s[2]
      BY <1>1, <2>1, <3>2, <3>3 DEF Socket
    <3> QED
      BY <1>1, <1>2, <3>1, <3>2, <3>4 DEF Displaced
  <2> QED
    BY <1>2, <2>1, <2>2, <2>3 DEF CommandInv
<1>8. \A i \in Socket : cmds'[i] # {} => sock'[i] = "open"
  BY <1>2, <1>3 DEF CommandInv
<1> QED
  BY <1>4, <1>5, <1>6, <1>7, <1>8 DEF CommandInv

LEMMA CallStep == SocketInv /\ CallInv /\ [Next]_vars => CallInv'
<1> SUFFICES ASSUME SocketInv, CallInv, [Next]_vars PROVE CallInv'
  OBVIOUS
<1> USE DEF CallInv
<1>1. ASSUME UNCHANGED <<nextId, cmds, req, on, id>>,
             \A s \in Socket : sock[s] = "open" => sock'[s] = "open"
      PROVE  CallInv'
  BY <1>1 DEF CallTypes, IdInv, CommandInv, Displaced
<1>2. ASSUME NEW S \in SUBSET Socket, StopSockets(S) PROVE CallInv'
  BY <1>2, StopCalls
<1>3. ASSUME ClaimFails \/ AddSocket \/ RemoveSocket PROVE CallInv'
  <2>1. CASE ClaimFails
    <3>1. PICK s \in Socket : handler = <<"dialed", s>> /\ handler[2] = s
      BY <2>1, HandlerIs DEF ClaimFails, SocketInv
    <3> QED
      BY <1>2, <2>1, <3>1 DEF ClaimFails
  <2>2. CASE AddSocket
    <3>1. PICK s \in Socket : handler = <<"claimed", s>> /\ handler[2] = s /\ s[1] \in VP
      BY <2>2, HandlerIs DEF AddSocket, Socket, SocketInv
    <3> QED
      BY <1>2, <2>2, <3>1, HeldIs DEF AddSocket, SocketInv
  <2>3. CASE RemoveSocket
    <3>1. PICK s \in Socket : handler = <<"released", s>> /\ handler[2] = s /\ s[1] \in VP
      BY <2>3, HandlerIs DEF RemoveSocket, Socket, SocketInv
    <3> QED
      BY <1>2, <2>3, <3>1, HeldIs DEF RemoveSocket, SocketInv
  <2> QED
    BY <1>3, <2>1, <2>2, <2>3
<1>4. ASSUME NEW s \in Socket, ConnectionLost(s) PROVE CallInv'
  BY <1>2, <1>4 DEF ConnectionLost
<1>5. ASSUME Dial PROVE CallInv'
  <2>1. UNCHANGED <<nextId, cmds, req, on, id>>
    BY <1>5 DEF Dial, reqVars
  <2>2. \A s \in Socket : sock[s] = "open" => sock'[s] = "open"
    BY <1>5 DEF Dial, SocketInv, TableTypes
  <2> QED
    BY <1>1, <2>1, <2>2
<1>6. ASSUME NEW r \in Req, NEW v \in VP, GetSocket(r, v) PROVE CallInv'
  <2>1. /\ req[r] = "idle" /\ id[r] = 0 /\ UNCHANGED <<nextId, cmds, id, sock>>
        /\ \A q \in Req : /\ on'[q] = IF q = r THEN client[v] ELSE on[q]
                          /\ req'[q] = IF q # r THEN req[q]
                                       ELSE IF client[v] = NoSock THEN "ended" ELSE "found"
        /\ client[v] # NoSock => client[v] \in Socket
    BY <1>6 DEF GetSocket, sockVars, SocketInv, TableTypes, OnTypes, CallTypes, IdInv
  <2>2. CallTypes'
    BY <1>6, <2>1 DEF GetSocket, CallTypes, ReqStates
  <2>3. IdInv'
    BY <2>1 DEF IdInv
  <2>4. \A s \in Socket : \A c \in cmds[s] : c[2] \in Req /\ c[2] # r
    BY <2>1, CommandIs DEF CommandInv
  <2>5. \A q \in Req : q # r /\ Displaced(q) => Displaced(q)'
    BY <2>1 DEF Displaced
  <2>6. CommandInv'
    BY <2>1, <2>4, <2>5 DEF CommandInv
  <2> QED
    BY <2>2, <2>3, <2>6
<1>7. ASSUME NEW r \in Req, Answer(r) PROVE CallInv'
  <2>1. PICK s \in Socket : s = on[r]
    BY <1>7 DEF Answer, IdInv
  <2>2. PICK c \in cmds[s] : c[2] = r /\ cmds' = [cmds EXCEPT ![s] = @ \ {c}]
    BY <1>7, <2>1 DEF Answer
  <2>3. /\ req[r] = "waiting" /\ UNCHANGED <<sock, nextId, on, id>>
        /\ \A q \in Req : req'[q] = IF q = r THEN "ended" ELSE req[q]
        /\ \A i \in Socket : cmds'[i] = IF i = s THEN cmds[i] \ {c} ELSE cmds[i]
    BY <1>7, <2>2 DEF Answer, CallTypes
  <2>4. CallTypes' /\ IdInv'
    BY <1>7, <2>2, <2>3 DEF Answer, CallTypes, ReqStates, IdInv
  <2>5. c = <<id[r], r>>
    BY <2>2, CommandIs DEF CommandInv
  <2>6. ASSUME NEW i \in Socket, NEW d \in cmds'[i]
        PROVE  d[1] = id'[d[2]] /\ on'[d[2]] = i /\ req'[d[2]] \in {"waiting", "leaving"}
    <3>1. d \in cmds[i] /\ d[2] \in Req
      BY <2>3, <2>6, CommandIs
    <3>2. d[2] # r
      <4> SUFFICES ASSUME d[2] = r PROVE FALSE
        OBVIOUS
      <4>1. i = s /\ d[1] = id[r] /\ d = <<d[1], d[2]>>
        BY <2>1, <3>1, CommandIs DEF CommandInv
      <4>2. d = c
        BY <2>5, <4>1
      <4>3. cmds'[i] = cmds[i] \ {c}
        BY <2>3, <4>1
      <4> QED
        BY <2>6, <4>2, <4>3
    <3> QED
      BY <2>3, <3>1, <3>2 DEF CommandInv
  <2>7. ASSUME NEW q \in Req, req'[q] = "waiting" PROVE <<id'[q], q>> \in cmds'[on'[q]] \/ Displaced(q)'
    <3>1. q # r /\ req[q] = "waiting" /\ on[q] \in Socket
      BY <2>3, <2>7 DEF IdInv
    <3>2. CASE Displaced(q)
      BY <2>3, <3>2 DEF Displaced
    <3>3. CASE <<id[q], q>> \in cmds[on[q]]
      BY <2>3, <2>5, <3>1, <3>3
    <3> QED
      BY <3>1, <3>2, <3>3 DEF CommandInv
  <2>8. \A i \in Socket : cmds'[i] # {} => sock'[i] = "open"
    BY <2>3 DEF CommandInv
  <2> QED
    BY <2>4, <2>6, <2>7, <2>8 DEF CommandInv
<1>8. ASSUME NEW r \in Req, GiveUp(r) PROVE CallInv'
  <2>1. /\ req[r] = "waiting" /\ UNCHANGED <<sock, nextId, cmds, on, id>>
        /\ \A q \in Req : req'[q] = IF q = r THEN "leaving" ELSE req[q]
    BY <1>8 DEF GiveUp, sockVars, CallTypes
  <2>2. CallTypes' /\ IdInv'
    BY <1>8, <2>1 DEF GiveUp, CallTypes, ReqStates, IdInv
  <2>3. \A s \in Socket : \A c \in cmds[s] : c[2] \in Req
    BY CommandIs
  <2>4. \A q \in Req : Displaced(q) => Displaced(q)'
    BY <2>1 DEF Displaced
  <2> QED
    BY <2>1, <2>2, <2>3, <2>4 DEF CommandInv
<1>9. ASSUME DialFails \/ Claim \/ Release \/ HandlerEnds \/ BeginStop \/ EndStop
             \/ OtherStarts \/ (\E v \in VP : OtherClaims(v) \/ OtherReleases(v) \/ RemoveVP(v))
             \/ \E s \in Socket : Connect(s) \/ Disconnect(s)
      PROVE  CallInv'
  BY <1>1, <1>9 DEF DialFails, Claim, Release, HandlerEnds, BeginStop, EndStop, OtherClaims, OtherReleases,
                    OtherStarts, RemoveVP,
                    Connect, Disconnect, sockVars, reqVars
<1>10. ASSUME (\E t \in Stream : SendResult(t) \/ StreamReturns(t) \/ StreamFails(t))
              \/ UNCHANGED vars
       PROVE  CallInv'
  BY <1>1, <1>10 DEF SendResult, StreamReturns, StreamFails, vars, sockVars, reqVars
<1> QED
  BY <1>3, <1>4, <1>5, <1>6, <1>7, <1>8, <1>9, <1>10, DoMeasurementCalls, RemoveCalls DEF Next, Handle

\* Every command has its measurement and every measurement its command, as far
\* as ids can tell.
THEOREM CallInvariance == Spec => []CallInv
<1>1. Init => CallInv
  BY DEF Init, CallInv, CallTypes, ReqStates, IdInv, CommandInv
<1>2. SocketInv /\ CallInv /\ [Next]_vars => CallInv'
  BY CallStep
<1> QED
  BY <1>1, <1>2, SocketInvariance, PTL DEF Spec

\* A measurement that is over has left no command on an open socket, although
\* RemoveMeasurement looks in the socket its address has now.
THEOREM CommandsAreRemoved == Spec => []NoCommandLeft
<1>1. CallInv => NoCommandLeft
  BY CommandIs DEF CallInv, CommandInv, NoCommandLeft, Over
<1> QED
  BY <1>1, CallInvariance, PTL

\* Whoever waits on an open socket is found by its answer, unless a measurement
\* of an earlier socket of the address has given up a command of the same id.
THEOREM AnswersFindCallers == Spec => []AnswerFindsCaller
<1>1. CallInv => AnswerFindsCaller
  <2> SUFFICES ASSUME CallInv, NEW r \in Req, req[r] = "waiting", r \notin Waiters({on[r]})
               PROVE  Displaced(r)
    BY DEF AnswerFindsCaller, Displaced
  <2>1. <<id[r], r>> \notin cmds[on[r]]
    BY DEF Waiters
  <2> QED
    BY <2>1 DEF CallInv, CommandInv
<1> QED
  BY <1>1, CallInvariance, PTL

===============================================================================
