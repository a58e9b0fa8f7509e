----------------------------- MODULE PlController -----------------------------
(***************************************************************************)
(* The plcontroller (plcontroller/*.go) with its table of sockets          *)
(* (scamper/client.go) and its watcher of the socket directory.            *)
(*                                                                         *)
(* sc_remoted makes a file <ip>:<port> for each connection of a vantage    *)
(* point and removes it when the connection ends.  handlEvents follows the *)
(* events: it dials, claims the vantage point in the database, adds the    *)
(* socket; or gives the claim up, stops the socket and removes it, both by *)
(* address.  The streams of Ping and Traceroute run measurements on the    *)
(* socket of an address.  One socket is ScamperSocket's subject: here it   *)
(* numbers its commands, answers them and closes.                          *)
(***************************************************************************)
EXTENDS Naturals, Sequences, FiniteSets

CONSTANTS VP,      \* vantage points, by address
          Port,    \* 1..Port: the connections of one vantage point, in order
          Stream   \* the streams of measurements: disjoint sets

ASSUME PlControllerAssumption ==
  /\ Port \in Nat \ {0}
  /\ \A s, t \in Stream : s # t => s \cap t = {}

Req    == UNION Stream
Socket == VP \X (1..Port)
NoSock == <<>>

VARIABLES file,    \* the socket files: unborn, present, gone
          events,  \* what the watcher has for handlEvents
          handler, \* where handlEvents is: <<state>> or <<state, socket>>
          client,  \* socketMap
          db,      \* whom the database names as controller
          failed,  \* vantage points whose release the database refused
          unclaimed, \* those without a row, or whose claim others have undone
          sock,    \* none, open, closed
          nextId,  \* userID of each socket
          cmds,    \* its cmdMap: <<id, measurement>>
          req,     \* how far each measurement is
          on, id,  \* its socket and command
          stream,  \* open, returned, ended with an error
          sent,    \* results sent on the streams
          stop     \* [state, left] of Stop

handlerVars == <<handler, client, db, failed, unclaimed>>
sockVars    == <<sock, nextId, cmds>>
reqVars     == <<req, on, id>>
streamVars  == <<stream, sent>>
vars == <<file, events, handlerVars, sockVars, reqVars, streamVars, stop>>

(* clearAllVps has run, or has failed: the claims of the life before are   *)
(* then still there.  sc_remoted is started before the watcher: files made *)
(* in between have no event.                                               *)
Init ==
  /\ \E early \in SUBSET (VP \X {1}) :
       file = [s \in Socket |-> IF s \in early THEN "present" ELSE "unborn"]
  /\ events = <<>> /\ handler = <<"idle">>
  /\ client = [v \in VP |-> NoSock] /\ unclaimed = {}
  /\ db \in [VP -> {"none", "me", "other"}] /\ failed = {v \in VP : db[v] = "me"}
  /\ sock = [s \in Socket |-> "none"] /\ nextId = [s \in Socket |-> 0]
  /\ cmds = [s \in Socket |-> {}]
  /\ req = [r \in Req |-> "idle"] /\ on = [r \in Req |-> NoSock] /\ id = [r \in Req |-> 0]
  /\ stream = [t \in Stream |-> "open"] /\ sent = {}
  /\ stop = [state |-> "running", left |-> {}]

-----------------------------------------------------------------------------
(* sc_remoted and the watcher.  An address may connect again, from another *)
(* port, before the loss of the last connection is noticed.                *)

Connect(s) ==
  /\ file[s] = "unborn" /\ \A p \in 1..s[2] - 1 : file[<<s[1], p>>] # "unborn"
  /\ file' = [file EXCEPT ![s] = "present"]
  /\ events' = Append(events, <<"create", s>>)
  /\ UNCHANGED <<handlerVars, sockVars, reqVars, streamVars, stop>>

Disconnect(s) ==
  /\ file[s] = "present"
  /\ file' = [file EXCEPT ![s] = "gone"]
  /\ events' = Append(events, <<"remove", s>>)
  /\ UNCHANGED <<handlerVars, sockVars, reqVars, streamVars, stop>>

OtherClaims(v) ==
  /\ db[v] # "other" /\ db' = [db EXCEPT ![v] = "other"]
  /\ UNCHANGED <<file, events, handler, client, failed, unclaimed,
                 sockVars, reqVars, streamVars, stop>>

OtherReleases(v) ==
  /\ db[v] = "other" /\ db' = [db EXCEPT ![v] = "none"]
  /\ unclaimed' = unclaimed \cup {v}
  /\ UNCHANGED <<file, events, handler, client, failed, sockVars, reqVars, streamVars, stop>>

(* clearAllVps of another controller clears the claims of all.             *)
OtherStarts ==
  /\ db' = [v \in VP |-> "none"] /\ unclaimed' = VP
  /\ UNCHANGED <<file, events, handler, client, failed, sockVars, reqVars, streamVars, stop>>

-----------------------------------------------------------------------------
(* Socket.Stop: the channels of all commands are closed; whoever waits on  *)
(* one finds no result in it.                                              *)

Waiters(S) == {r \in Req : \E s \in S : \E c \in cmds[s] : c[2] = r}

StopSockets(S) ==
  /\ sock' = [s \in Socket |-> IF s \in S THEN "closed" ELSE sock[s]]
  /\ cmds' = [s \in Socket |-> IF s \in S THEN {} ELSE cmds[s]]
  /\ req'  = [r \in Req |-> IF req[r] = "waiting" /\ r \in Waiters(S) THEN "ended" ELSE req[r]]
  /\ UNCHANGED <<nextId, on, id>>

ConnectionLost(s) ==
  /\ sock[s] = "open"
  /\ StopSockets({s})
  /\ UNCHANGED <<file, events, handlerVars, streamVars, stop>>

(* The socket in the table, as a set.                                      *)
Held(v) == {client[v]} \ {NoSock}

-----------------------------------------------------------------------------
(* handlEvents                                                             *)

NextEvent(type) == handler = <<"idle">> /\ events # <<>> /\ Head(events)[1] = type

Dial ==
  /\ NextEvent("create")
  /\ LET s == Head(events)[2] IN
     /\ file[s] = "present"
     /\ handler' = <<"dialed", s>> /\ sock' = [sock EXCEPT ![s] = "open"]
  /\ events' = Tail(events)
  /\ UNCHANGED <<file, client, db, failed, unclaimed, nextId, cmds, reqVars, streamVars, stop>>

DialFails ==
  /\ NextEvent("create") /\ events' = Tail(events)
  /\ UNCHANGED <<file, handlerVars, sockVars, reqVars, streamVars, stop>>

(* Faulty variant: the socket is added when its claim could not be stored. *)
ClaimAnyway ==
  /\ handler[1] = "dialed"
  /\ db' \in {db, [db EXCEPT ![handler[2][1]] = "me"]}
  /\ handler' = <<"claimed", handler[2]>>
  /\ UNCHANGED <<file, events, client, failed, unclaimed, sockVars, reqVars, streamVars, stop>>

(* UpdateController(ip, c.ip, c.ip).  It does not notice that it has       *)
(* matched no row.                                                         *)
Claim ==
  /\ handler[1] = "dialed"
  /\ LET v == handler[2][1] IN
     \/ db' = [db EXCEPT ![v] = "me"] /\ unclaimed' = unclaimed \ {v}
     \/ db[v] = "none" /\ db' = db /\ unclaimed' = unclaimed \cup {v}
  /\ handler' = <<"claimed", handler[2]>>
  /\ UNCHANGED <<file, events, client, failed, sockVars, reqVars, streamVars, stop>>

ClaimFails ==
  /\ handler[1] = "dialed"
  /\ handler' = <<"idle">>
  /\ StopSockets({handler[2]})
  /\ UNCHANGED <<file, events, client, db, failed, unclaimed, streamVars, stop>>

(* Faulty variant: a socket that is replaced goes on.                      *)
AddSocketKeepingOld ==
  /\ handler[1] = "claimed"
  /\ client' = [client EXCEPT ![handler[2][1]] = handler[2]]
  /\ handler' = <<"idle">>
  /\ UNCHANGED <<file, events, db, failed, unclaimed, sockVars, reqVars, streamVars, stop>>

AddSocket ==
  /\ handler[1] = "claimed"
  /\ StopSockets(Held(handler[2][1]))
  /\ client' = [client EXCEPT ![handler[2][1]] = handler[2]]
  /\ handler' = <<"idle">>
  /\ UNCHANGED <<file, events, db, failed, unclaimed, streamVars, stop>>

(* UpdateController(ip, 0, c.ip): only this controller's claim is given up. *)
Released(v) == IF db[v] = "me" THEN [db EXCEPT ![v] = "none"] ELSE db

Release ==
  /\ NextEvent("remove")
  /\ LET v == Head(events)[2][1] IN
     /\ \/ db' = Released(v) /\ failed' = failed \ {v}
        \/ db' = db /\ failed' = failed \cup {v}
     /\ handler' = <<"released", Head(events)[2]>>
  /\ events' = Tail(events)
  /\ UNCHANGED <<file, client, unclaimed, sockVars, reqVars, streamVars, stop>>

(* The socket of that address now, whichever file was removed.             *)
RemoveSocket ==
  /\ handler[1] = "released"
  /\ StopSockets(Held(handler[2][1]))
  /\ client' = [client EXCEPT ![handler[2][1]] = NoSock]
  /\ handler' = <<"idle">>
  /\ UNCHANGED <<file, events, db, failed, unclaimed, streamVars, stop>>

-----------------------------------------------------------------------------
(* runPing and runTraceroute                                               *)

GetSocket(r, v) ==
  /\ req[r] = "idle"
  /\ on' = [on EXCEPT ![r] = client[v]]
  /\ req' = [req EXCEPT ![r] = IF client[v] = NoSock THEN "ended" ELSE "found"]
  /\ UNCHANGED <<file, events, handlerVars, sockVars, id, streamVars, stop>>

(* Faulty variant: the caller is told the id of the command before.        *)
DoMeasurementOldId(r) ==
  /\ req[r] = "found"
  /\ LET s == on[r]  n == nextId[s] + 1 IN
     IF sock[s] = "open"
     THEN /\ nextId' = [nextId EXCEPT ![s] = n]
          /\ cmds' = [cmds EXCEPT ![s] = @ \cup {<<n, r>>}]
          /\ id' = [id EXCEPT ![r] = nextId[s]] /\ req' = [req EXCEPT ![r] = "waiting"]
     ELSE req' = [req EXCEPT ![r] = "ended"] /\ UNCHANGED <<nextId, cmds, id>>
  /\ UNCHANGED <<file, events, handlerVars, sock, on, streamVars, stop>>

DoMeasurement(r) ==
  /\ req[r] = "found"
  /\ LET s == on[r]  n == nextId[s] + 1 IN
     IF sock[s] = "open"
     THEN /\ nextId' = [nextId EXCEPT ![s] = n]
          /\ cmds' = [cmds EXCEPT ![s] = @ \cup {<<n, r>>}]
          /\ id' = [id EXCEPT ![r] = n] /\ req' = [req EXCEPT ![r] = "waiting"]
     ELSE req' = [req EXCEPT ![r] = "ended"] /\ UNCHANGED <<nextId, cmds, id>>
  /\ UNCHANGED <<file, events, handlerVars, sock, on, streamVars, stop>>

Answer(r) ==
  /\ req[r] = "waiting"
  /\ \E c \in cmds[on[r]] : c[2] = r /\ cmds' = [cmds EXCEPT ![on[r]] = @ \ {c}]
  /\ req' = [req EXCEPT ![r] = "ended"]
  /\ UNCHANGED <<file, events, handlerVars, sock, nextId, on, id, streamVars, stop>>

(* The timeout of the measurement, or the end of its context.              *)
GiveUp(r) ==
  /\ req[r] = "waiting"
  /\ req' = [req EXCEPT ![r] = "leaving"]
  /\ UNCHANGED <<file, events, handlerVars, sockVars, on, id, streamVars, stop>>

(* The command with that id, on the socket the address has now.            *)
RemoveMeasurement(r) ==
  /\ req[r] = "leaving"
  /\ cmds' = [s \in Socket |->
       IF s \in Held(on[r][1]) THEN {c \in cmds[s] : c[1] # id[r]} ELSE cmds[s]]
  /\ req' = [req EXCEPT ![r] = "gaveup"]
  /\ UNCHANGED <<file, events, handlerVars, sock, nextId, on, id, streamVars, stop>>

Over(r) == req[r] \in {"ended", "gaveup"}

-----------------------------------------------------------------------------
(* Ping and Traceroute serve one message; its results go out as they come. *)

SendResult(t) ==
  /\ stream[t] = "open"
  /\ \E r \in t \ sent : Over(r) /\ sent' = sent \cup {r}
  /\ UNCHANGED <<file, events, handlerVars, sockVars, reqVars, stream, stop>>

StreamReturns(t) ==
  /\ stream[t] = "open" /\ t \subseteq sent
  /\ stream' = [stream EXCEPT ![t] = "returned"]
  /\ UNCHANGED <<file, events, handlerVars, sockVars, reqVars, sent, stop>>

(* The client goes away, a Send fails, or the server has been stopped.     *)
StreamFails(t) ==
  /\ stream[t] = "open"
  /\ stream' = [stream EXCEPT ![t] = "error"]
  /\ UNCHANGED <<file, events, handlerVars, sockVars, reqVars, sent, stop>>

-----------------------------------------------------------------------------
(* Stop, and the end of handlEvents: its select may still take an event.   *)

BeginStop ==
  /\ stop.state = "running"
  /\ stop' = [state |-> "removing", left |-> {v \in VP : client[v] # NoSock}]
  /\ UNCHANGED <<file, events, handlerVars, sockVars, reqVars, streamVars>>

RemoveVP(v) ==
  /\ stop.state = "removing" /\ v \in stop.left
  /\ stop' = [stop EXCEPT !.left = @ \ {v}]
  /\ \/ db' = Released(v) /\ UNCHANGED failed
     \/ failed' = failed \cup {v} /\ UNCHANGED db
  /\ UNCHANGED <<file, events, handler, client, unclaimed, sockVars, reqVars, streamVars>>

EndStop ==
  /\ stop.state = "removing" /\ stop.left = {}
  /\ stop' = [stop EXCEPT !.state = "stopped"]
  /\ stream' = [t \in Stream |-> IF stream[t] = "open" THEN "error" ELSE stream[t]]
  /\ UNCHANGED <<file, events, handlerVars, sockVars, reqVars, sent>>

HandlerEnds ==
  /\ handler = <<"idle">> /\ stop.state # "running"
  /\ handler' = <<"ended">>
  /\ UNCHANGED <<file, events, client, db, failed, unclaimed, sockVars, reqVars, streamVars, stop>>

-----------------------------------------------------------------------------
Handle == Dial \/ DialFails \/ Claim \/ ClaimFails \/ AddSocket \/ Release \/ RemoveSocket

Next ==
  \/ \E s \in Socket : Connect(s) \/ Disconnect(s) \/ ConnectionLost(s)
  \/ \E v \in VP : OtherClaims(v) \/ OtherReleases(v) \/ RemoveVP(v)
  \/ OtherStarts
  \/ Handle \/ BeginStop \/ EndStop \/ HandlerEnds
  \/ \E r \in Req, v \in VP : GetSocket(r, v)
  \/ \E r \in Req : DoMeasurement(r) \/ Answer(r) \/ GiveUp(r) \/ RemoveMeasurement(r)
  \/ \E t \in Stream : SendResult(t) \/ StreamReturns(t) \/ StreamFails(t)

Spec == Init /\ [][Next]_vars

-----------------------------------------------------------------------------
(* When handlEvents has caught up with the directory, the table, the       *)
(* database and the directory agree: a socket in the table has its file    *)
(* and the vantage point is claimed, unless it has no row or another       *)
(* controller has undone the claim; whatever this controller claims has a  *)
(* socket, unless the database refused to release or clear the claim.      *)
CaughtUp == handler = <<"idle">> /\ events = <<>> /\ stop.state = "running"

TablesAgree ==
  CaughtUp => \A v \in VP :
    /\ client[v] # NoSock => /\ file[client[v]] = "present"
                             /\ db[v] # "none" \/ v \in unclaimed
    /\ db[v] = "me" /\ v \notin failed => client[v] # NoSock

(* A measurement that is over has left no command on a socket that is      *)
(* open: RemoveMeasurement looks in the socket its address has now, and a  *)
(* socket that is not in the table any more has been stopped.              *)
NoCommandLeft ==
  \A r \in Req, s \in Socket :
    Over(r) /\ sock[s] = "open" => \A c \in cmds[s] : c[2] # r

(* Whoever waits on an open socket will get its answer, unless another     *)
(* measurement gave up an earlier command of that address with the same    *)
(* id: its removal is applied to the new socket.                           *)
AnswerFindsCaller ==
  \A r \in Req :
    req[r] = "waiting" /\ sock[on[r]] = "open" /\ r \notin Waiters({on[r]}) =>
      \E q \in Req : /\ req[q] = "gaveup" /\ id[q] = id[r]
                     /\ on[q][1] = on[r][1] /\ on[q][2] # on[r][2]

=============================================================================
