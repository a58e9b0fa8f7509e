---------------------------- MODULE ScamperSocket ----------------------------
(***************************************************************************)
(* One scamper control socket (scamper/socket.go) and the goroutines of    *)
(* plcontroller that run measurements through it.                          *)
(*                                                                         *)
(*   a caller    runPing or runTraceroute: DoMeasurement, then wait for    *)
(*               the result, a timeout or the end of its context           *)
(*   readConn    reads messages, starts a goroutine for each result        *)
(*   a reader    such a goroutine: looks the command up in cmdMap, removes *)
(*               it, sends the result on the command's channel             *)
(*   writeConn   takes commands off a bounded channel, buffers, flushes    *)
(*   Stop        closes the channels of all commands and the connection    *)
(*                                                                         *)
(* A measurement r stands for its caller, its command, its channel and the *)
(* result scamper sends for it; the two header messages are left out.      *)
(***************************************************************************)
EXTENDS Integers, Sequences

CONSTANTS
  Req,        \* the measurements
  IdSpace,    \* number of command ids, 2^32 in the code
  WriteCap    \* capacity of the channel to writeConn, 50 in the code

ASSUME SocketAssumption == IdSpace \in Nat \ {0} /\ WriteCap \in Nat \ {0}

VARIABLES
  state,      \* open or closed, read and written under mu
  mu,         \* the measurements whose caller holds mu: none or one
  userID,     \* the last id given out
  id,         \* the id of each command
  cmds,       \* cmdMap: the measurements registered under each id
  write,      \* the channel to writeConn
  buf,        \* commands in the write buffer
  scamper,    \* commands scamper has received and not answered
  conn,       \* the other side of the connection: up or down
  reading,    \* where readConn is
  writing,    \* where writeConn is
  reader,     \* where the goroutine that handles the result of r is
  target,     \* the measurement whose channel it sends to
  chan,       \* the results in each channel, which has room for one
  closed,     \* the channels that Stop has closed
  caller,     \* where each caller is
  got,        \* what each caller received
  process     \* running, or a goroutine has panicked

vars == <<state, mu, userID, id, cmds, write, buf, scamper, conn, reading, writing,
          reader, target, chan, closed, caller, got, process>>

connVars   == <<write, buf, scamper, conn, reading, writing>>
readerVars == <<reader, target>>
callerVars == <<caller, got>>

Ids   == 0..IdSpace - 1
NoId  == -1
Ended == {"answered", "aborted", "timedout", "refused"}

Init ==
  /\ state = "open" /\ mu = {}
  /\ userID = 0 /\ id = [r \in Req |-> NoId] /\ cmds = [i \in Ids |-> {}]
  /\ write = <<>> /\ buf = {} /\ scamper = {} /\ conn = "up"
  /\ reading = "select" /\ writing = "running"
  /\ reader = [r \in Req |-> "none"] /\ target = [r \in Req |-> r]
  /\ chan = [r \in Req |-> {}] /\ closed = {}
  /\ caller = [r \in Req |-> "idle"] /\ got = [r \in Req |-> {}]
  /\ process = "running"

-----------------------------------------------------------------------------
(* DoMeasurement                                                            *)

NextId == (userID + 1) % IdSpace

\* Refused when the socket is closed, or the id is taken after a wrap-around.
Refused(r) ==
  /\ caller[r] = "idle" /\ mu = {}
  /\ \/ state = "closed" /\ UNCHANGED userID
     \/ state = "open" /\ cmds[NextId] # {} /\ userID' = NextId
  /\ caller' = [caller EXCEPT ![r] = "refused"]
  /\ UNCHANGED <<state, mu, id, cmds, connVars, readerVars, chan, closed, got, process>>

\* Faulty variant: the id is read without taking a new one.
RegisterSameId(r) ==
  /\ caller[r] = "idle" /\ mu = {} /\ state = "open"
  /\ id' = [id EXCEPT ![r] = userID]
  /\ cmds' = [cmds EXCEPT ![userID] = {r}]
  /\ caller' = [caller EXCEPT ![r] = "writing"] /\ mu' = {r}
  /\ UNCHANGED <<state, userID, connVars, readerVars, chan, closed, got, process>>

\* Faulty variant: the state of the socket is not looked at.
RegisterClosed(r) ==
  /\ caller[r] = "idle" /\ mu = {}
  /\ cmds[NextId] = {}
  /\ userID' = NextId
  /\ id' = [id EXCEPT ![r] = NextId]
  /\ cmds' = [cmds EXCEPT ![NextId] = {r}]
  /\ caller' = [caller EXCEPT ![r] = "writing"] /\ mu' = {r}
  /\ UNCHANGED <<state, connVars, readerVars, chan, closed, got, process>>

\* A new id, a new channel, an entry in cmdMap; mu stays locked until the
\* command is in the channel to writeConn.
Register(r) ==
  /\ caller[r] = "idle" /\ mu = {} /\ state = "open"
  /\ cmds[NextId] = {}
  /\ userID' = NextId
  /\ id' = [id EXCEPT ![r] = NextId]
  /\ cmds' = [cmds EXCEPT ![NextId] = {r}]
  /\ caller' = [caller EXCEPT ![r] = "writing"] /\ mu' = {r}
  /\ UNCHANGED <<state, connVars, readerVars, chan, closed, got, process>>

Enqueue(r) ==
  /\ caller[r] = "writing" /\ Len(write) < WriteCap
  /\ write' = Append(write, r)
  /\ caller' = [caller EXCEPT ![r] = "waiting"] /\ mu' = {}
  /\ UNCHANGED <<state, userID, id, cmds, buf, scamper, conn, reading, writing,
                 readerVars, chan, closed, got, process>>

-----------------------------------------------------------------------------
(* The caller after DoMeasurement.                                          *)

\* A result, or the zero value of a closed channel.
Receive(r) ==
  /\ caller[r] = "waiting"
  /\ \/ /\ chan[r] # {}
        /\ got' = [got EXCEPT ![r] = chan[r]] /\ chan' = [chan EXCEPT ![r] = {}]
        /\ caller' = [caller EXCEPT ![r] = "answered"]
     \/ /\ chan[r] = {} /\ r \in closed
        /\ caller' = [caller EXCEPT ![r] = "aborted"] /\ UNCHANGED <<got, chan>>
  /\ UNCHANGED <<state, mu, userID, id, cmds, connVars, readerVars, closed, process>>

\* The timeout or the context, whatever else is ready.
GiveUp(r) ==
  /\ caller[r] = "waiting"
  /\ caller' = [caller EXCEPT ![r] = "removing"]
  /\ UNCHANGED <<state, mu, userID, id, cmds, connVars, readerVars, chan, closed, got, process>>

RemoveMeasurement(r) ==
  /\ caller[r] = "removing"
  /\ cmds' = [cmds EXCEPT ![id[r]] = {}]
  /\ caller' = [caller EXCEPT ![r] = "timedout"]
  /\ UNCHANGED <<state, mu, userID, id, connVars, readerVars, chan, closed, got, process>>

Caller(r) == Refused(r) \/ Register(r) \/ Enqueue(r) \/ Receive(r) \/ RemoveMeasurement(r)

-----------------------------------------------------------------------------
(* Stop                                                                     *)

Registered == UNION {cmds[i] : i \in Ids}

\* Faulty variant: the channels of the commands are not closed.
CloseLeavingCommands ==
  /\ mu = {}
  /\ cmds' = [i \in Ids |-> {}] /\ UNCHANGED closed
  /\ state' = "closed"
  /\ UNCHANGED <<mu, userID, id, readerVars, chan, callerVars, process>>

\* Faulty variant: mu is not taken.
CloseWithoutLock ==
  /\ closed' = closed \cup Registered /\ cmds' = [i \in Ids |-> {}]
  /\ state' = "closed"
  /\ UNCHANGED <<mu, userID, id, readerVars, chan, callerVars, process>>

\* Takes mu; then the lock of cmdMap is held for the whole of forEach.
CloseSocket ==
  /\ mu = {}
  /\ closed' = closed \cup Registered /\ cmds' = [i \in Ids |-> {}]
  /\ state' = "closed"
  /\ UNCHANGED <<mu, userID, id, readerVars, chan, callerVars, process>>

\* plcontroller stops the socket: its file is gone, or a new one took its place.
Stop == state = "open" /\ CloseSocket /\ UNCHANGED connVars

-----------------------------------------------------------------------------
(* writeConn                                                                *)

\* IssueCommand into the buffer.  If it fails the buffer is reset, and the
\* commands that wait in it are lost.
WriteCommand ==
  /\ writing = "running" /\ write # <<>>
  /\ write' = Tail(write)
  /\ buf' \in {buf \cup {Head(write)}, {}}
  /\ UNCHANGED <<state, mu, userID, id, cmds, scamper, conn, reading, writing,
                 readerVars, chan, closed, callerVars, process>>

\* After more than ten commands or at a tick.  If it fails the buffer is reset.
Flush ==
  /\ writing = "running" /\ buf # {}
  /\ \/ conn = "up" /\ state = "open" /\ scamper' = scamper \cup buf
     \/ UNCHANGED scamper
  /\ buf' = {}
  /\ UNCHANGED <<state, mu, userID, id, cmds, write, conn, reading, writing,
                 readerVars, chan, closed, callerVars, process>>

WriterExits ==
  /\ writing = "running" /\ state = "closed"
  /\ writing' = "exited"
  /\ UNCHANGED <<state, mu, userID, id, cmds, write, buf, scamper, conn, reading,
                 readerVars, chan, closed, callerVars, process>>

-----------------------------------------------------------------------------
(* readConn                                                                 *)

ConnectionFails ==
  /\ conn = "up" /\ conn' = "down"
  /\ UNCHANGED <<state, mu, userID, id, cmds, write, buf, scamper, reading, writing,
                 readerVars, chan, closed, callerVars, process>>

\* The check of s.done before each message.
ReadNext ==
  /\ reading = "select"
  /\ reading' = IF state = "closed" THEN "exited" ELSE "reading"
  /\ UNCHANGED <<state, mu, userID, id, cmds, write, buf, scamper, conn, writing,
                 readerVars, chan, closed, callerVars, process>>

\* A result for the command r.  If it cannot be parsed no command is looked
\* up and the reader sends on a nil channel; if nothing is found in it, the
\* goroutine reads the first of no objects.
ReadResult(r) ==
  /\ reading = "reading" /\ r \in scamper
  /\ scamper' = scamper \ {r} /\ reading' = "select"
  /\ \/ reader' \in {[reader EXCEPT ![r] = "getCmd"], [reader EXCEPT ![r] = "nil"]}
        /\ UNCHANGED process
     \/ process' = "panicked" /\ UNCHANGED reader
  /\ UNCHANGED <<state, mu, userID, id, cmds, write, buf, conn, writing,
                 target, chan, closed, callerVars>>

\* A broken connection, a closed one, or a message that makes no sense.
ReadFails ==
  /\ reading = "reading" /\ reading' = "stopping"
  /\ UNCHANGED <<state, mu, userID, id, cmds, write, buf, scamper, conn, writing,
                 readerVars, chan, closed, callerVars, process>>

HandleErr ==
  /\ reading = "stopping" /\ reading' = "exited"
  /\ CloseSocket
  /\ UNCHANGED <<write, buf, scamper, conn, writing>>

-----------------------------------------------------------------------------
(* A reader.                                                                *)

GetCmd(r) ==
  /\ reader[r] = "getCmd"
  /\ \/ /\ cmds[id[r]] = {}
        /\ reader' = [reader EXCEPT ![r] = "done"] /\ UNCHANGED target
     \/ \E t \in cmds[id[r]] : /\ target' = [target EXCEPT ![r] = t]
                               /\ reader' = [reader EXCEPT ![r] = "rmCmd"]
  /\ UNCHANGED <<state, mu, userID, id, cmds, connVars, chan, closed, callerVars, process>>

RmCmd(r) ==
  /\ reader[r] = "rmCmd"
  /\ cmds' = [cmds EXCEPT ![id[r]] = {}]
  /\ reader' = [reader EXCEPT ![r] = "send"]
  /\ UNCHANGED <<state, mu, userID, id, connVars, target, chan, closed, callerVars, process>>

\* To send on a closed channel is a panic; it blocks while the channel is full.
Send(r) ==
  /\ reader[r] = "send"
  /\ \/ /\ target[r] \in closed
        /\ process' = "panicked" /\ UNCHANGED <<reader, chan>>
     \/ /\ target[r] \notin closed /\ chan[target[r]] = {}
        /\ chan' = [chan EXCEPT ![target[r]] = {r}]
        /\ reader' = [reader EXCEPT ![r] = "done"] /\ UNCHANGED process
  /\ UNCHANGED <<state, mu, userID, id, cmds, connVars, target, closed, callerVars>>

Reader(r) == GetCmd(r) \/ RmCmd(r) \/ Send(r)

-----------------------------------------------------------------------------

Process ==
  /\ process = "running"
  /\ \/ \E r \in Req : Caller(r) \/ GiveUp(r) \/ ReadResult(r) \/ Reader(r)
     \/ Stop \/ WriteCommand \/ Flush \/ WriterExits
     \/ ReadNext \/ ReadFails \/ HandleErr \/ ConnectionFails

\* On a nil channel, or on a full one whose caller has gone.
BlockedForever(r) ==
  reader[r] = "nil" \/ (reader[r] = "send" /\ target[r] \notin closed /\ chan[target[r]] # {})

AllOver ==
  \/ process = "panicked"
  \/ /\ state = "closed" /\ reading = "exited" /\ writing = "exited"
     /\ \A r \in Req : caller[r] \in Ended /\ (reader[r] \in {"none", "done"} \/ BlockedForever(r))

Terminated == AllOver /\ UNCHANGED vars

Next == Process \/ Terminated

Spec == Init /\ [][Next]_vars

\* The goroutines run, and a read from a connection that is closed or down
\* fails.  That a timeout fires is not assumed.
FairSpec ==
  /\ Spec
  /\ WF_vars(process = "running" /\ WriteCommand) /\ WF_vars(process = "running" /\ WriterExits)
  /\ WF_vars(process = "running" /\ ReadNext)
  /\ SF_vars(process = "running" /\ HandleErr)
  /\ WF_vars(process = "running" /\ (state = "closed" \/ conn = "down") /\ ReadFails)
  /\ \A r \in Req :
       /\ WF_vars(process = "running" /\ Caller(r)) /\ WF_vars(process = "running" /\ Reader(r))

-----------------------------------------------------------------------------

\* The types of the socket, its goroutines and their channels.  mu is locked
\* by nobody or by one caller that waits for room in the channel to writeConn.
TypeOK ==
  /\ state \in {"open", "closed"}
  /\ mu = {} \/ \E r \in Req : mu = {r} /\ caller[r] = "writing"
  /\ userID \in Ids /\ id \in [Req -> Ids \cup {NoId}] /\ cmds \in [Ids -> SUBSET Req]
  /\ write \in Seq(Req) /\ buf \subseteq Req /\ scamper \subseteq Req /\ conn \in {"up", "down"}
  /\ reading \in {"select", "reading", "stopping", "exited"} /\ writing \in {"running", "exited"}
  /\ reader \in [Req -> {"none", "getCmd", "rmCmd", "send", "done", "nil"}]
  /\ target \in [Req -> Req]
  /\ chan \in [Req -> SUBSET Req] /\ closed \subseteq Req
  /\ caller \in [Req -> {"idle", "writing", "waiting", "removing"} \cup Ended]
  /\ got \in [Req -> SUBSET Req]
  /\ process \in {"running", "panicked"}

\* A caller gets the result of its own command, although results come back in
\* any order and commands are given up, lost and closed meanwhile.
OwnAnswer == \A r \in Req : got[r] \cup chan[r] \subseteq {r}

\* The channel of a command has room for one result because one reader at most
\* ever sends on it: no reader blocks on a full channel.
RoomToSend == \A r \in Req : reader[r] = "send" => chan[target[r]] = {}

\* Stop forgets nobody: a caller that waits on a closed socket has a result, a
\* closed channel, or a reader that has already found its command.
NobodyForgotten ==
  state = "closed" => \A r \in Req :
    caller[r] = "waiting" =>
      \/ chan[r] # {} \/ r \in closed
      \/ \E x \in Req : reader[x] \in {"rmCmd", "send"} /\ target[x] = r

\* Whoever holds mu waits for room in the channel to writeConn, and writeConn
\* is there to make it: Stop takes mu before it ends writeConn.
LockHolderIsServed == mu # {} => state = "open" /\ writing = "running"

\* After the end of a connection nobody has to wait for its timeout.
ClosedReleasesCallers ==
  \A r \in Req : state = "closed" /\ caller[r] = "waiting" ~> process = "panicked" \/ caller[r] # "waiting"

\* Once the socket is stopped its goroutines come to an end.
NoLeak ==
  state = "closed" ~>
    \/ process = "panicked"
    \/ reading = "exited" /\ writing = "exited" /\ \A r \in Req : reader[r] \in {"none", "done"}

\* What a caller's measurement has come to, as plcontroller sees it.
Status ==
  [r \in Req |-> IF caller[r] \in {"writing", "waiting", "removing"} THEN "pending"
                 ELSE caller[r]]

Abstract == INSTANCE Measurements WITH closed <- (state = "closed"), status <- Status

\* The socket implements the measurements plcontroller expects.
Implements == Abstract!Spec

=============================================================================
