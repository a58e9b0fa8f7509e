-------------------------- MODULE ScamperSocketProofs --------------------------
(***************************************************************************)
(* Proofs about ScamperSocket, for any set of measurements and any         *)
(* capacities.  What depends on command ids assumes that they do not wrap  *)
(* around: fewer measurements than ids.                                    *)
(***************************************************************************)
EXTENDS ScamperSocket, FiniteSetTheorems, TLAPS

\* Fewer measurements than ids, the first of which is not given out at first.
FewMeasurements == IsFiniteSet(Req) /\ Cardinality(Req) < IdSpace

WithId == {r \in Req : id[r] # NoId}
Queued == {write[k] : k \in 1..Len(write)}
Asked  == {r \in Req : caller[r] \notin {"idle", "refused"}}

\* What is on its way has an id: nothing is looked up under an id that was
\* never given out.
KnownInv ==
  /\ WithId = Asked
  /\ Queued \cup buf \cup scamper \subseteq Asked
  /\ \A r \in Req : reader[r] # "none" => r \in Asked

TypeInv == TypeOK /\ KnownInv

\* Ids are given out in increasing order, once each.
IdInv ==
  /\ userID = Cardinality(WithId)
  /\ \A r \in WithId : id[r] <= userID
  /\ \A r, q \in WithId : id[r] = id[q] => r = q
  /\ \A i \in Ids : \A r \in cmds[i] : id[r] = i

\* Where the command of a measurement or its result is: in one place at most.
StageInv ==
  /\ \A k, l \in 1..Len(write) : write[k] = write[l] => k = l
  /\ Queued \cap buf = {} /\ Queued \cap scamper = {} /\ buf \cap scamper = {}
  /\ \A r \in Queued \cup buf \cup scamper : reader[r] = "none" /\ caller[r] # "writing"
  /\ \A r \in Req : reader[r] # "none" => caller[r] # "writing"

\* A reader has found its own command, and nobody else sends on its channel.
ChannelInv ==
  /\ \A r \in Req : reader[r] \in {"rmCmd", "send"} => target[r] = r
  /\ \A r \in Req : got[r] \cup chan[r] \subseteq {r}
  /\ \A r \in Req : chan[r] # {} => reader[r] = "done"

\* Where a caller's answer will come from.
CallerInv ==
  /\ \A r \in Req : caller[r] \in {"writing", "waiting"} =>
       r \in cmds[id[r]] \/ chan[r] # {} \/ r \in closed \/ reader[r] \in {"rmCmd", "send"}
  /\ state = "closed" => \A i \in Ids : cmds[i] = {}
  /\ closed # {} => state = "closed"

LockInv == (mu # {} => state = "open") /\ (writing = "exited" => state = "closed")

-----------------------------------------------------------------------------

\* Ids stay below IdSpace.
LEMMA NextIdType == ASSUME userID \in Ids PROVE NextId \in Ids
  BY SocketAssumption DEF NextId, Ids

\* Every step keeps the types.
LEMMA TypeStep == TypeInv /\ [Next]_vars => TypeInv'
<1> SUFFICES ASSUME TypeInv, [Next]_vars PROVE TypeInv'
  OBVIOUS
<1> USE DEF TypeInv, TypeOK, KnownInv, WithId, Asked, Queued, Ended, connVars, readerVars, callerVars, CloseSocket
<1> NextId \in Ids
  BY NextIdType
<1>1. ASSUME NEW r \in Req, Caller(r) PROVE TypeInv'
  <2>1. CASE Refused(r)
    BY <2>1 DEF Refused
  <2>2. CASE Register(r)
    BY <2>2 DEF Register, NoId, Ids
  <2>3. CASE Enqueue(r)
    BY <2>3 DEF Enqueue
  <2>4. CASE Receive(r)
    BY <2>4 DEF Receive
  <2>5. CASE RemoveMeasurement(r)
    BY <2>5 DEF RemoveMeasurement
  <2> QED
    BY <1>1, <2>1, <2>2, <2>3, <2>4, <2>5 DEF Caller
<1>2. ASSUME NEW r \in Req, GiveUp(r) PROVE TypeInv'
  BY <1>2 DEF GiveUp
<1>3. ASSUME NEW r \in Req, ReadResult(r) PROVE TypeInv'
  BY <1>3 DEF ReadResult
<1>4. ASSUME NEW r \in Req, Reader(r) PROVE TypeInv'
  <2>1. CASE GetCmd(r)
    <3>1. CASE reader' = [reader EXCEPT ![r] = "done"] /\ UNCHANGED target
      BY <2>1, <3>1 DEF GetCmd
    <3>2. ASSUME NEW t \in Req, target' = [target EXCEPT ![r] = t],
                 reader' = [reader EXCEPT ![r] = "rmCmd"]
          PROVE  TypeInv'
      BY <2>1, <3>2 DEF GetCmd
    <3>3. id[r] \in Ids
      BY <2>1 DEF GetCmd
    <3> QED
      BY <2>1, <3>1, <3>2, <3>3 DEF GetCmd
  <2>2. CASE RmCmd(r)
    BY <2>2 DEF RmCmd
  <2>3. CASE Send(r)
    BY <2>3 DEF Send
  <2> QED
    BY <1>4, <2>1, <2>2, <2>3 DEF Reader
<1>5. CASE Stop
  BY <1>5 DEF Stop, Registered
<1>6. CASE WriteCommand
  BY <1>6 DEF WriteCommand
<1>7. CASE Flush
  BY <1>7 DEF Flush
<1>8. CASE WriterExits
  BY <1>8 DEF WriterExits
<1>9. CASE ReadNext
  BY <1>9 DEF ReadNext
<1>10. CASE ReadFails
  BY <1>10 DEF ReadFails
<1>11. CASE HandleErr
  BY <1>11 DEF HandleErr, Registered
<1>12. CASE ConnectionFails
  BY <1>12 DEF ConnectionFails
<1>13. CASE UNCHANGED vars
  BY <1>13 DEF vars
<1> QED
  BY <1>1, <1>2, <1>3, <1>4, <1>5, <1>6, <1>7, <1>8, <1>9, <1>10, <1>11, <1>12, <1>13
     DEF Next, Process, Terminated

\* The types of the socket, its goroutines and their channels, and the lock mu.
THEOREM TypeCorrect == Spec => []TypeOK
<1>1. Init => TypeInv
  BY SocketAssumption DEF Init, TypeInv, TypeOK, KnownInv, WithId, Asked, Queued, Ids, Ended
<1>2. TypeInv => TypeOK
  BY DEF TypeInv
<1> QED
  BY <1>1, <1>2, TypeStep, PTL DEF Spec

-----------------------------------------------------------------------------

\* The step invariants are proved action by action; this is the case split.
LEMMA NextCases ==
  ASSUME [Next]_vars
  PROVE  \/ \E r \in Req : \/ Refused(r) \/ Register(r) \/ Enqueue(r) \/ Receive(r)
                           \/ RemoveMeasurement(r) \/ GiveUp(r) \/ ReadResult(r)
                           \/ GetCmd(r) \/ RmCmd(r) \/ Send(r)
         \/ Stop \/ HandleErr \/ WriteCommand \/ Flush \/ WriterExits
         \/ ReadNext \/ ReadFails \/ ConnectionFails \/ UNCHANGED vars
  BY DEF Next, Process, Terminated, Caller, Reader

\* While there are fewer measurements than ids, a new id is greater than all
\* those in use.
LEMMA NewId ==
  ASSUME FewMeasurements, TypeInv, IdInv, NEW r \in Req, caller[r] = "idle"
  PROVE  NextId = userID + 1 /\ cmds[NextId] = {}
<1>0. /\ userID \in Ids /\ id \in [Req -> Ids \cup {NoId}] /\ cmds \in [Ids -> SUBSET Req]
      /\ WithId = Asked
  BY DEF TypeInv, TypeOK, KnownInv
<1>1. WithId \subseteq Req /\ r \in Req \ WithId
  BY <1>0 DEF WithId, Asked
<1>2. IsFiniteSet(WithId) /\ Cardinality(WithId \cup {r}) = Cardinality(WithId) + 1
  BY <1>1, FS_Subset, FS_AddElement DEF FewMeasurements
<1>3. Cardinality(WithId \cup {r}) <= Cardinality(Req)
  BY <1>1, FS_Subset DEF FewMeasurements
<1>4. userID + 1 <= Cardinality(Req) /\ Cardinality(Req) \in Nat
  BY <1>2, <1>3, FS_CardinalityType DEF IdInv, FewMeasurements
<1>5. userID + 1 < IdSpace /\ userID \in Nat
  BY <1>0, <1>4, SocketAssumption DEF FewMeasurements, Ids
<1>6. NextId = userID + 1
  BY <1>5, SocketAssumption DEF NextId
<1>7. cmds[NextId] = {}
  <2>1. SUFFICES ASSUME NEW q \in cmds[NextId] PROVE FALSE
    OBVIOUS
  <2>2. NextId \in Ids /\ q \in Req
    BY <1>0, <2>1, NextIdType
  <2>3. id[q] = NextId
    BY <2>1, <2>2 DEF IdInv
  <2>4. q \in WithId
    BY <2>2, <2>3, <1>5, <1>6 DEF WithId, NoId
  <2>5. id[q] <= userID
    BY <2>4 DEF IdInv
  <2> QED
    BY <2>3, <2>5, <1>5, <1>6
<1> QED
  BY <1>6, <1>7

\* Ids stay unique: the next one has not been given out.
LEMMA IdStep ==
  FewMeasurements /\ TypeInv /\ IdInv /\ [Next]_vars => IdInv'
<1> SUFFICES ASSUME FewMeasurements, TypeInv, IdInv, [Next]_vars PROVE IdInv'
  OBVIOUS
<1> USE DEF IdInv, TypeInv, TypeOK, KnownInv, WithId, connVars, readerVars, callerVars
<1>1. ASSUME NEW r \in Req, Refused(r) PROVE IdInv'
  BY <1>1, NewId DEF Refused
<1>2. ASSUME NEW r \in Req, Register(r) PROVE IdInv'
  <2>1. NextId = userID + 1 /\ NextId \in Ids /\ userID' = userID + 1 /\ userID \in Nat
    BY <1>2, NewId, NextIdType DEF Register, Ids
  <2>2. r \notin WithId /\ WithId' = WithId \cup {r}
    BY <1>2, <2>1 DEF Register, Asked, Ids, NoId
  <2>3. IsFiniteSet(WithId) /\ Cardinality(WithId \cup {r}) = Cardinality(WithId) + 1
    BY <2>2, FS_Subset, FS_AddElement DEF FewMeasurements
  <2>4. userID' = Cardinality(WithId')
    BY <2>1, <2>2, <2>3
  <2>5. \A q \in WithId' : id'[q] <= userID'
    BY <1>2, <2>1, <2>2 DEF Register, Ids
  <2>6. \A q, s \in WithId' : id'[q] = id'[s] => q = s
    BY <1>2, <2>1, <2>2 DEF Register, Ids
  <2>7. \A i \in Ids : \A q \in cmds'[i] : id'[q] = i
    <3>1. SUFFICES ASSUME NEW i \in Ids, NEW q \in cmds'[i] PROVE id'[q] = i
      OBVIOUS
    <3>2. CASE i = NextId
      BY <1>2, <3>1, <3>2, <2>1 DEF Register
    <3>3. CASE i # NextId
      BY <1>2, <3>1, <3>3, <2>1, <2>2 DEF Register, Ids, NoId
    <3> QED
      BY <3>2, <3>3
  <2> QED
    BY <2>4, <2>5, <2>6, <2>7
<1>3. ASSUME NEW r \in Req, RemoveMeasurement(r) PROVE IdInv'
  BY <1>3 DEF RemoveMeasurement
<1>4. ASSUME NEW r \in Req, RmCmd(r) PROVE IdInv'
  BY <1>4 DEF RmCmd
<1>5. CASE Stop \/ HandleErr
  <2>1. cmds' = [i \in Ids |-> {}] /\ UNCHANGED <<userID, id>>
    BY <1>5 DEF Stop, HandleErr, CloseSocket
  <2> QED
    BY <2>1
<1>6. ASSUME NEW r \in Req,
             Enqueue(r) \/ Receive(r) \/ GiveUp(r) \/ ReadResult(r) \/ GetCmd(r) \/ Send(r)
      PROVE  IdInv'
  <2>1. UNCHANGED <<userID, id, cmds>>
    BY <1>6 DEF Enqueue, Receive, GiveUp, ReadResult, GetCmd, Send
  <2> QED
    BY <2>1
<1>7. CASE WriteCommand \/ Flush \/ WriterExits \/ ReadNext \/ ReadFails \/ ConnectionFails
  <2>1. UNCHANGED <<userID, id, cmds>>
    BY <1>7 DEF WriteCommand, Flush, WriterExits, ReadNext, ReadFails, ConnectionFails
  <2> QED
    BY <2>1
<1>8. CASE UNCHANGED vars
  BY <1>8 DEF vars
<1> QED
  BY <1>1, <1>2, <1>3, <1>4, <1>5, <1>6, <1>7, <1>8, NextCases

\* The command of a measurement goes from the channel to writeConn through the
\* buffer to scamper, its result to one reader, and nothing comes back.
LEMMA StageStep ==
  TypeInv /\ StageInv /\ [Next]_vars => StageInv'
<1> SUFFICES ASSUME TypeInv, StageInv, [Next]_vars PROVE StageInv'
  OBVIOUS
<1> USE DEF StageInv, TypeInv, TypeOK, KnownInv, Asked, connVars, readerVars, callerVars
<1>1. ASSUME NEW r \in Req, Enqueue(r) PROVE StageInv'
  <2>1. r \notin Queued \cup buf \cup scamper /\ reader[r] = "none"
    BY <1>1 DEF Enqueue
  <2>2. /\ Len(write') = Len(write) + 1 /\ write'[Len(write) + 1] = r
        /\ \A k \in 1..Len(write) : write'[k] = write[k]
    BY <1>1 DEF Enqueue
  <2>3. Queued' = Queued \cup {r}
    BY <2>2 DEF Queued
  <2>4. \A k, l \in 1..Len(write') : write'[k] = write'[l] => k = l
    BY <2>1, <2>2 DEF Queued
  <2> QED
    BY <1>1, <2>1, <2>3, <2>4 DEF Enqueue
<1>2. ASSUME NEW r \in Req, ReadResult(r) PROVE StageInv'
  <2>1. /\ r \in scamper /\ scamper' = scamper \ {r}
        /\ UNCHANGED <<write, buf, caller>>
        /\ \A q \in Req : q # r => reader'[q] = reader[q]
    BY <1>2 DEF ReadResult
  <2>2. Queued' = Queued
    BY <2>1 DEF Queued
  <2>3. /\ Queued' \cap buf' = {} /\ Queued' \cap scamper' = {} /\ buf' \cap scamper' = {}
        /\ r \notin Queued' \cup buf' \cup scamper'
        /\ Queued' \cup buf' \cup scamper' \subseteq Queued \cup buf \cup scamper
    BY <2>1, <2>2
  <2>4. caller[r] # "writing"
    BY <2>1
  <2> QED
    BY <2>1, <2>3, <2>4
<1>3. ASSUME NEW r \in Req, Refused(r) \/ Register(r) \/ Receive(r) \/ GiveUp(r) \/ RemoveMeasurement(r)
      PROVE  StageInv'
  <2>1. /\ UNCHANGED <<write, buf, scamper, reader>>
        /\ \A q \in Req : q # r => caller'[q] = caller[q]
    BY <1>3 DEF Refused, Register, Receive, GiveUp, RemoveMeasurement
  <2>2. caller'[r] = "writing" => caller[r] = "idle"
    BY <1>3 DEF Refused, Register, Receive, GiveUp, RemoveMeasurement
  <2>3. Queued' = Queued
    BY <2>1 DEF Queued
  <2>4. caller[r] = "idle" => r \notin Queued \cup buf \cup scamper /\ reader[r] = "none"
    OBVIOUS
  <2> QED
    BY <2>1, <2>2, <2>3, <2>4
<1>4. ASSUME NEW r \in Req, GetCmd(r) \/ RmCmd(r) \/ Send(r) PROVE StageInv'
  <2>1. /\ UNCHANGED <<write, buf, scamper, caller>>
        /\ reader[r] # "none" /\ \A q \in Req : q # r => reader'[q] = reader[q]
    BY <1>4 DEF GetCmd, RmCmd, Send
  <2>2. Queued' = Queued
    BY <2>1 DEF Queued
  <2> QED
    BY <2>1, <2>2
<1>5. CASE WriteCommand
  <2>1. /\ Len(write) > 0 /\ Head(write) = write[1] /\ Len(write') = Len(write) - 1
        /\ \A k \in 1..Len(write') : write'[k] = write[k + 1]
    BY <1>5 DEF WriteCommand
  <2> Len(write) \in Nat /\ Len(write') \in Nat
    BY <1>5 DEF WriteCommand
  <2>a. ASSUME NEW k \in 1..Len(write')
        PROVE  k + 1 \in 1..Len(write) /\ write'[k] = write[k + 1] /\ k + 1 # 1
    BY <2>1
  <2>b. 1 \in 1..Len(write)
    BY <2>1
  <2>2. Head(write) \in Queued /\ Queued' \subseteq Queued \ {Head(write)}
    <3>1. Head(write) \in Queued
      BY <2>1, <2>b DEF Queued
    <3>2. ASSUME NEW k \in 1..Len(write')
          PROVE  write'[k] \in Queued /\ write'[k] # Head(write)
      BY <2>1, <2>a, <2>b DEF Queued
    <3> QED
      BY <3>1, <3>2 DEF Queued
  <2>3. ASSUME NEW k \in 1..Len(write'), NEW l \in 1..Len(write'), write'[k] = write'[l]
        PROVE  k = l
    <3>1. k + 1 = l + 1
      BY <2>a, <2>3
    <3> QED
      BY <3>1
  <2>4. buf' \subseteq buf \cup {Head(write)} /\ UNCHANGED <<scamper, reader, caller>>
    BY <1>5 DEF WriteCommand
  <2>5. Queued' \cap buf' = {} /\ Queued' \cap scamper' = {} /\ buf' \cap scamper' = {}
    BY <2>2, <2>4
  <2>6. Queued' \cup buf' \cup scamper' \subseteq Queued \cup buf \cup scamper
    BY <2>2, <2>4
  <2> QED
    BY <2>3, <2>4, <2>5, <2>6
<1>6. CASE Flush
  <2>1. /\ scamper' \subseteq scamper \cup buf /\ buf' = {}
        /\ UNCHANGED <<write, reader, caller>>
    BY <1>6 DEF Flush
  <2> QED
    BY <2>1 DEF Queued
<1>7. CASE Stop \/ HandleErr
  BY <1>7 DEF Stop, HandleErr, CloseSocket, Queued
<1>8. CASE WriterExits \/ ReadNext \/ ReadFails \/ ConnectionFails \/ UNCHANGED vars
  BY <1>8 DEF WriterExits, ReadNext, ReadFails, ConnectionFails, vars, Queued
<1> QED
  BY <1>1, <1>2, <1>3, <1>4, <1>5, <1>6, <1>7, <1>8, NextCases

\* A result is sent on the channel of its own command, once.
LEMMA ChannelStep ==
  TypeInv /\ IdInv /\ StageInv /\ ChannelInv /\ [Next]_vars => ChannelInv'
<1> SUFFICES ASSUME TypeInv, IdInv, StageInv, ChannelInv, [Next]_vars PROVE ChannelInv'
  OBVIOUS
<1> USE DEF ChannelInv, TypeInv, TypeOK, KnownInv, WithId, Asked, connVars, readerVars, callerVars
<1>1. ASSUME NEW r \in Req, GetCmd(r) PROVE ChannelInv'
  <2>1. id[r] \in Ids /\ r \in WithId
    BY <1>1 DEF GetCmd
  <2>2. \A t \in cmds[id[r]] : t = r
    <3>1. SUFFICES ASSUME NEW t \in cmds[id[r]] PROVE t = r
      OBVIOUS
    <3>2. t \in Req /\ id[t] = id[r]
      BY <2>1, <3>1 DEF IdInv
    <3>3. t \in WithId
      BY <2>1, <3>2
    <3> QED
      BY <2>1, <3>2, <3>3 DEF IdInv
  <2> QED
    BY <1>1, <2>2 DEF GetCmd
<1>2. ASSUME NEW r \in Req, RmCmd(r) PROVE ChannelInv'
  BY <1>2 DEF RmCmd
<1>3. ASSUME NEW r \in Req, Send(r) PROVE ChannelInv'
  BY <1>3 DEF Send
<1>4. ASSUME NEW r \in Req, Receive(r) PROVE ChannelInv'
  BY <1>4 DEF Receive
<1>5. ASSUME NEW r \in Req, ReadResult(r) PROVE ChannelInv'
  BY <1>5 DEF ReadResult, StageInv
<1>6. ASSUME NEW r \in Req,
             Refused(r) \/ Register(r) \/ Enqueue(r) \/ GiveUp(r) \/ RemoveMeasurement(r)
      PROVE  ChannelInv'
  <2>1. UNCHANGED <<readerVars, chan, got>>
    BY <1>6 DEF Refused, Register, Enqueue, GiveUp, RemoveMeasurement
  <2> QED
    BY <2>1
<1>7. CASE \/ Stop \/ HandleErr \/ WriteCommand \/ Flush \/ WriterExits
           \/ ReadNext \/ ReadFails \/ ConnectionFails \/ UNCHANGED vars
  <2>1. UNCHANGED <<readerVars, chan, got>>
    BY <1>7 DEF Stop, HandleErr, CloseSocket, WriteCommand, Flush, WriterExits,
                ReadNext, ReadFails, ConnectionFails, vars
  <2> QED
    BY <2>1
<1> QED
  BY <1>1, <1>2, <1>3, <1>4, <1>5, <1>6, <1>7, NextCases

\* Whoever waits is registered, or a reader or Stop has taken its entry.
LEMMA CallerStep ==
  TypeInv /\ IdInv /\ StageInv /\ ChannelInv /\ CallerInv /\ [Next]_vars => CallerInv'
<1> SUFFICES ASSUME TypeInv, IdInv, StageInv, ChannelInv, CallerInv, [Next]_vars PROVE CallerInv'
  OBVIOUS
<1> USE DEF CallerInv, TypeInv, TypeOK, KnownInv, WithId, Asked, connVars, readerVars, callerVars
<1>1. ASSUME NEW r \in Req, Register(r) PROVE CallerInv'
  BY <1>1, NextIdType DEF Register, Ids, NoId
<1>2. ASSUME NEW r \in Req, RemoveMeasurement(r) \/ RmCmd(r) PROVE CallerInv'
  <2>1. /\ cmds' = [cmds EXCEPT ![id[r]] = {}] /\ UNCHANGED <<id, state, chan, closed>>
        /\ \A q \in Req \ {r} : caller'[q] = caller[q] /\ reader'[q] = reader[q]
    BY <1>2 DEF RemoveMeasurement, RmCmd
  <2>2. r \in WithId
    BY <1>2 DEF RemoveMeasurement, RmCmd
  <2>3. ASSUME NEW q \in Req, caller'[q] \in {"writing", "waiting"}
        PROVE  q \in cmds'[id'[q]] \/ chan'[q] # {} \/ q \in closed' \/ reader'[q] \in {"rmCmd", "send"}
    <3>1. CASE q = r
      BY <1>2, <2>3, <3>1 DEF RemoveMeasurement, RmCmd
    <3>2. CASE q # r
      <4>1. q \in WithId /\ id[q] # id[r]
        BY <2>1, <2>2, <2>3, <3>2 DEF IdInv
      <4> QED
        BY <2>1, <2>3, <3>2, <4>1
    <3> QED
      BY <3>1, <3>2
  <2> QED
    BY <2>1, <2>3
<1>3. ASSUME NEW r \in Req, GetCmd(r) PROVE CallerInv'
  BY <1>3 DEF GetCmd
<1>4. ASSUME NEW r \in Req, Send(r) PROVE CallerInv'
  <2>1. CASE target[r] \in closed
    BY <1>4, <2>1 DEF Send
  <2>2. CASE target[r] \notin closed
    <3>1. target[r] = r /\ chan' = [chan EXCEPT ![r] = {r}] /\ reader' = [reader EXCEPT ![r] = "done"]
      BY <1>4, <2>2 DEF Send, ChannelInv
    <3>2. UNCHANGED <<id, cmds, state, closed, caller>>
      BY <1>4 DEF Send
    <3> QED
      BY <3>1, <3>2
  <2> QED
    BY <2>1, <2>2
<1>5. ASSUME NEW r \in Req, Refused(r) \/ Enqueue(r) \/ Receive(r) \/ GiveUp(r) \/ ReadResult(r)
      PROVE  CallerInv'
  <2>1. CASE Refused(r)
    BY <2>1 DEF Refused
  <2>2. CASE Enqueue(r)
    BY <2>2 DEF Enqueue
  <2>3. CASE Receive(r)
    BY <2>3 DEF Receive
  <2>4. CASE GiveUp(r)
    BY <2>4 DEF GiveUp
  <2>5. CASE ReadResult(r)
    BY <2>5 DEF ReadResult, StageInv
  <2> QED
    BY <1>5, <2>1, <2>2, <2>3, <2>4, <2>5
<1>6. CASE Stop \/ HandleErr
  BY <1>6 DEF Stop, HandleErr, CloseSocket, Registered
<1>7. CASE \/ WriteCommand \/ Flush \/ WriterExits
           \/ ReadNext \/ ReadFails \/ ConnectionFails \/ UNCHANGED vars
  BY <1>7 DEF WriteCommand, Flush, WriterExits, ReadNext, ReadFails, ConnectionFails, vars
<1> QED
  BY <1>1, <1>2, <1>3, <1>4, <1>5, <1>6, <1>7, NextCases

\* mu is held, and writeConn ends, on either side of the closing of the socket.
LEMMA LockStep ==
  TypeInv /\ LockInv /\ [Next]_vars => LockInv'
<1> SUFFICES ASSUME TypeInv, LockInv, [Next]_vars PROVE LockInv'
  OBVIOUS
<1> USE DEF LockInv, TypeInv, TypeOK, connVars, readerVars, callerVars
<1>1. ASSUME NEW r \in Req,
             \/ Refused(r) \/ Register(r) \/ Enqueue(r) \/ Receive(r) \/ RemoveMeasurement(r)
             \/ GiveUp(r) \/ ReadResult(r) \/ GetCmd(r) \/ RmCmd(r) \/ Send(r)
      PROVE  LockInv'
  BY <1>1 DEF Refused, Register, Enqueue, Receive, RemoveMeasurement, GiveUp, ReadResult,
              GetCmd, RmCmd, Send
<1>2. CASE Stop \/ HandleErr
  BY <1>2 DEF Stop, HandleErr, CloseSocket
<1>3. CASE \/ WriteCommand \/ Flush \/ WriterExits
           \/ ReadNext \/ ReadFails \/ ConnectionFails \/ UNCHANGED vars
  BY <1>3 DEF WriteCommand, Flush, WriterExits, ReadNext, ReadFails, ConnectionFails, vars
<1> QED
  BY <1>1, <1>2, <1>3, NextCases

-----------------------------------------------------------------------------

Inv == TypeInv /\ IdInv /\ StageInv /\ ChannelInv /\ CallerInv

\* Fewer measurements than ids: all the invariants together.
THEOREM Invariance == ASSUME FewMeasurements PROVE Spec => []Inv
<1>1. Init => Inv
  <2> SUFFICES ASSUME Init PROVE Inv
    OBVIOUS
  <2> USE DEF Init, WithId, Asked, Queued, Ids, Ended, NoId
  <2>1. TypeInv
    BY SocketAssumption DEF TypeInv, TypeOK, KnownInv
  <2>2. IdInv
    <3>1. WithId = {}
      OBVIOUS
    <3> QED
      BY <3>1, FS_EmptySet DEF IdInv
  <2>3. StageInv /\ ChannelInv /\ CallerInv
    BY DEF StageInv, ChannelInv, CallerInv
  <2> QED
    BY <2>1, <2>2, <2>3 DEF Inv
<1>2. Inv /\ [Next]_vars => Inv'
  BY TypeStep, IdStep, StageStep, ChannelStep, CallerStep DEF Inv
<1> QED
  BY <1>1, <1>2, PTL DEF Spec

\* A caller gets the result of its own command, in whatever order results,
\* timeouts and the closing of the socket come.
THEOREM OwnAnswers == ASSUME FewMeasurements PROVE Spec => []OwnAnswer
<1>1. Inv => OwnAnswer
  BY DEF Inv, ChannelInv, OwnAnswer
<1> QED
  BY <1>1, Invariance, PTL

\* No reader blocks on a full channel.
THEOREM SendsNeverBlock == ASSUME FewMeasurements PROVE Spec => []RoomToSend
<1>1. Inv => RoomToSend
  BY DEF Inv, TypeInv, TypeOK, ChannelInv, RoomToSend
<1> QED
  BY <1>1, Invariance, PTL

\* No caller is left waiting on a closed socket for something that cannot come.
THEOREM StopForgetsNobody == ASSUME FewMeasurements PROVE Spec => []NobodyForgotten
<1>1. Inv => NobodyForgotten
  BY DEF Inv, TypeInv, TypeOK, KnownInv, WithId, Asked, ChannelInv, CallerInv, NobodyForgotten
<1> QED
  BY <1>1, Invariance, PTL

\* The caller that holds mu is served, and lets go of it, before Stop can end
\* writeConn.  This holds even when ids wrap around.
THEOREM LockHoldersAreServed == Spec => []LockHolderIsServed
<1>1. Init => TypeInv /\ LockInv
  BY SocketAssumption DEF Init, TypeInv, TypeOK, KnownInv, WithId, Asked, Queued, Ids, Ended, LockInv
<1>2. TypeInv /\ LockInv => LockHolderIsServed
  BY DEF TypeInv, TypeOK, LockInv, LockHolderIsServed
<1> QED
  BY <1>1, <1>2, TypeStep, LockStep, PTL DEF Spec

-----------------------------------------------------------------------------

ClosedInv == closed # {} => state = "closed"

\* Channels are closed by Stop and by nobody else.
LEMMA ClosedStep ==
  TypeInv /\ ClosedInv /\ [Next]_vars => ClosedInv'
<1> SUFFICES ASSUME TypeInv, ClosedInv, [Next]_vars PROVE ClosedInv'
  OBVIOUS
<1> USE DEF ClosedInv, connVars, readerVars, callerVars
<1>1. ASSUME NEW r \in Req,
             \/ Refused(r) \/ Register(r) \/ Enqueue(r) \/ Receive(r) \/ RemoveMeasurement(r)
             \/ GiveUp(r) \/ ReadResult(r) \/ GetCmd(r) \/ RmCmd(r) \/ Send(r)
      PROVE  ClosedInv'
  BY <1>1 DEF Refused, Register, Enqueue, Receive, RemoveMeasurement, GiveUp, ReadResult,
              GetCmd, RmCmd, Send
<1>2. CASE Stop \/ HandleErr
  BY <1>2 DEF Stop, HandleErr, CloseSocket
<1>3. CASE \/ WriteCommand \/ Flush \/ WriterExits
           \/ ReadNext \/ ReadFails \/ ConnectionFails \/ UNCHANGED vars
  BY <1>3 DEF WriteCommand, Flush, WriterExits, ReadNext, ReadFails, ConnectionFails, vars
<1> QED
  BY <1>1, <1>2, <1>3, NextCases

\* Every step of the socket is a step of Measurements or leaves it unchanged.
LEMMA StepSimulation ==
  TypeInv /\ ClosedInv /\ [Next]_vars => [Abstract!Next]_(Abstract!vars)
<1> SUFFICES ASSUME TypeInv, ClosedInv, [Next]_vars PROVE [Abstract!Next]_(Abstract!vars)
  OBVIOUS
<1> USE DEF TypeInv, TypeOK, Ended, Status, connVars, readerVars, callerVars
<1>1. ASSUME NEW r \in Req, Refused(r) PROVE Abstract!Refuse(r)
  BY <1>1 DEF Refused, Abstract!Refuse
<1>2. ASSUME NEW r \in Req, Register(r) PROVE Abstract!Start(r)
  BY <1>2 DEF Register, Abstract!Start
<1>3. ASSUME NEW r \in Req, Receive(r) PROVE Abstract!Answer(r) \/ Abstract!Abort(r)
  <2>1. CASE chan[r] # {}
    BY <1>3, <2>1 DEF Receive, Abstract!Answer
  <2>2. CASE chan[r] = {}
    BY <1>3, <2>2 DEF Receive, Abstract!Abort, ClosedInv
  <2> QED
    BY <2>1, <2>2
<1>4. ASSUME NEW r \in Req, RemoveMeasurement(r) PROVE Abstract!GiveUp(r)
  BY <1>4 DEF RemoveMeasurement, Abstract!GiveUp
<1>5. ASSUME NEW r \in Req,
             Enqueue(r) \/ GiveUp(r) \/ ReadResult(r) \/ GetCmd(r) \/ RmCmd(r) \/ Send(r)
      PROVE  UNCHANGED Abstract!vars
  BY <1>5 DEF Enqueue, GiveUp, ReadResult, GetCmd, RmCmd, Send, Abstract!vars
<1>6. CASE Stop \/ HandleErr
  BY <1>6 DEF Stop, HandleErr, CloseSocket, Abstract!Next, Abstract!Close, Abstract!vars
<1>7. CASE \/ WriteCommand \/ Flush \/ WriterExits
           \/ ReadNext \/ ReadFails \/ ConnectionFails \/ UNCHANGED vars
  BY <1>7 DEF WriteCommand, Flush, WriterExits, ReadNext, ReadFails, ConnectionFails, vars,
              Abstract!vars
<1> QED
  BY <1>1, <1>2, <1>3, <1>4, <1>5, <1>6, <1>7, NextCases DEF Abstract!Next

\* The socket implements the measurements plcontroller expects, even when ids
\* wrap around.
THEOREM Refinement == Spec => Implements
<1>1. Init => Abstract!Init /\ TypeInv /\ ClosedInv
  BY SocketAssumption DEF Init, TypeInv, TypeOK, KnownInv, WithId, Asked, Queued, Ids, Ended,
                          ClosedInv, Status, Abstract!Init
<1> QED
  BY <1>1, TypeStep, ClosedStep, StepSimulation, PTL DEF Spec, Implements, Abstract!Spec

=============================================================================
