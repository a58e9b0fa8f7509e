--------------------------- MODULE VantagePointProofs ---------------------------
(***************************************************************************)
(* Proofs about the vantage points, on both sides: the quarantines of      *)
(* VPService, for any vantage points, and the process manager of the agent *)
(* of VantagePoint, for any number of restarts and any width of remRetry.  *)
(***************************************************************************)
EXTENDS VPService, VantagePoint, TLAPS

-----------------------------------------------------------------------------
(* The vantage point service                                               *)

RowTypes == [type : {"default", "manual"}, attempt : Nat, over : BOOLEAN]

QuarTypes ==
  /\ quar \in [Node -> RowTypes \union {None}]
  /\ balance \in [Node -> Int]

\* What a pass of tryUnquarantine releases had elapsed or expired when it read
\* the rows.
ReleaseInv == \A n \in DOMAIN try.release : Elapsed(try.release[n]) \/ Expired(try.release[n])

QuarInv == QuarTypes /\ EventsMatch /\ ReleaseInv

-----------------------------------------------------------------------------
(* What the two groups of statements do to the rows and their events.      *)

LEMMA QuarantineMatches ==
  ASSUME NEW N, NEW type \in {"default", "manual"}, QuarTypes, EventsMatch, QuarantineVPs(N, type)
  PROVE  QuarTypes' /\ EventsMatch'
<1> USE DEF QuarTypes, EventsMatch, Quarantined, QuarantineVPs
<1>1. Row(type) \in RowTypes
  BY DEF Row, RowTypes
<1>2. QuarTypes'
  BY <1>1
<1>3. ASSUME NEW n \in Node
      PROVE  balance'[n] = IF quar'[n] # None THEN 1 ELSE 0
  <2>1. CASE n \in N \ Quarantined
    <3>1. quar'[n] = Row(type) /\ Row(type) # None
      BY <1>1, <2>1, VPServiceAssumption DEF RowTypes
    <3> QED
      BY <2>1, <3>1
  <2>2. CASE n \notin N \ Quarantined
    BY <2>2
  <2> QED
    BY <2>1, <2>2
<1> QED
  BY <1>2, <1>3

LEMMA UnquarantineMatches ==
  ASSUME NEW N, QuarTypes, EventsMatch, UnquarantineVPs(N)
  PROVE  QuarTypes' /\ EventsMatch'
  BY DEF QuarTypes, EventsMatch, Quarantined, UnquarantineVPs

\* Time changes a row and keeps it.
LEMMA TimeMatches ==
  ASSUME QuarTypes, EventsMatch, NEW n \in Node, TimePasses(n)
  PROVE  QuarTypes' /\ EventsMatch'
<1> DEFINE row == [quar[n] EXCEPT !.over = TRUE]
<1>1. quar[n] \in RowTypes
  BY DEF TimePasses, Quarantined, QuarTypes
<1>2. row \in RowTypes
  BY <1>1 DEF RowTypes
<1>3. row # None
  BY <1>2, VPServiceAssumption DEF RowTypes
<1>4. quar' = [quar EXCEPT ![n] = row] /\ balance' = balance
  BY DEF TimePasses
<1> HIDE DEF row
<1>5. QuarTypes'
  BY <1>2, <1>4 DEF QuarTypes
<1>6. ASSUME NEW m \in Node PROVE quar'[m] # None <=> quar[m] # None
  BY <1>1, <1>3, <1>4, VPServiceAssumption DEF QuarTypes, TimePasses, Quarantined
<1> QED
  BY <1>4, <1>5, <1>6 DEF EventsMatch, Quarantined

-----------------------------------------------------------------------------

\* No step of the two goroutines, of an operator or of time breaks the
\* invariant.
LEMMA QuarStep == QuarInv /\ [Next]_vars => QuarInv'
<1> SUFFICES ASSUME QuarInv, [Next]_vars PROVE QuarInv'
  OBVIOUS
<1> USE DEF QuarInv
<1>1. ASSUME UNCHANGED <<quar, balance>> PROVE QuarTypes' /\ EventsMatch'
  BY <1>1 DEF QuarTypes, EventsMatch, Quarantined
<1>2. ASSUME UNCHANGED try PROVE ReleaseInv'
  BY <1>2 DEF ReleaseInv
<1>3. ASSUME try'.release = noRows PROVE ReleaseInv'
  BY <1>3 DEF ReleaseInv, noRows
<1>4. CASE \/ Update \/ UpdateFails \/ Test \/ TestFails \/ Save \/ Report \/ UNCHANGED vars
  BY <1>1, <1>2, <1>4 DEF Update, UpdateFails, Test, TestFails, Save, Report, vars
<1>5. CASE QuarantineDown
  BY <1>1, <1>2, <1>5, QuarantineMatches DEF QuarantineDown
<1>6. CASE ReadVPs
  BY <1>1, <1>6 DEF ReadVPs, ReleaseInv
<1>7. CASE ReadQuarantined
  <2>1. try'.release = [n \in ToRelease |-> quar[n]]
    BY <1>7 DEF ReadQuarantined
  <2>2. ReleaseInv'
    BY <2>1 DEF ReleaseInv, ToRelease
  <2> QED
    BY <1>1, <1>7, <2>2 DEF ReadQuarantined
<1>8. CASE ReadFails
  BY <1>1, <1>3, <1>8 DEF ReadFails, asleep
<1>9. CASE Release
  BY <1>3, <1>9, UnquarantineMatches DEF Release
<1>10. CASE ReleaseFails
  BY <1>1, <1>3, <1>10 DEF ReleaseFails
<1>11. CASE StoreBackoff
  BY <1>1, <1>3, <1>11 DEF StoreBackoff, UpdateQuarantines, asleep
<1>12. ASSUME NEW n \in Node, TimePasses(n) PROVE QuarInv'
  BY <1>2, <1>12, TimeMatches DEF TimePasses
<1>13. ASSUME NEW n \in Node, Unquarantine(n) PROVE QuarInv'
  BY <1>2, <1>13, UnquarantineMatches DEF Unquarantine
<1>14. ASSUME NEW n \in Node, NEW type \in {"default", "manual"}, Quarantine(n, type)
       PROVE  QuarInv'
  BY <1>2, <1>14, QuarantineMatches DEF Quarantine
<1> QED
  BY <1>4, <1>5, <1>6, <1>7, <1>8, <1>9, <1>10, <1>11, <1>12, <1>13, <1>14
     DEF Next, Checking, Trying

\* The inductive invariant of the quarantines holds from the start.
THEOREM QuarInvariance == Spec => []QuarInv
<1>1. Init => QuarInv
  BY DEF Init, QuarInv, QuarTypes, EventsMatch, Quarantined, ReleaseInv, asleep, noRows
<1> QED
  BY <1>1, QuarStep, PTL DEF Spec

\* The events of vps_quarantine_events record the table of quarantines, whoever
\* quarantines and unquarantines in which order.
THEOREM EventsRecordQuarantines == Spec => []EventsMatch
<1>1. QuarInv => EventsMatch
  BY DEF QuarInv
<1> QED
  BY <1>1, QuarInvariance, PTL

\* tryUnquarantine ends a manual quarantine before its time only if it had read
\* an earlier quarantine of the same node.
THEOREM ManualQuarantinesStand == Spec => ManualStands
<1> DEFINE Stands ==
      \A n \in Node : (Release /\ n \in Quarantined /\ quar[n].type = "manual" /\ ~quar[n].over)
        => quar'[n] # None \/ try.release[n] # quar[n]
<1>1. QuarInv => Stands
  <2> SUFFICES ASSUME QuarInv, NEW n \in Node, Release, n \in Quarantined,
                      quar[n].type = "manual", ~quar[n].over
               PROVE  quar'[n] # None \/ try.release[n] # quar[n]
    OBVIOUS
  <2>1. CASE n \in DOMAIN try.release
    BY <2>1 DEF QuarInv, ReleaseInv, Elapsed, Expired
  <2>2. CASE n \notin DOMAIN try.release
    BY <2>2 DEF Release, UnquarantineVPs, Quarantined
  <2> QED
    BY <2>1, <2>2
<1>2. QuarInv /\ [Next]_vars => [Stands]_vars
  BY <1>1
<1> QED
  BY <1>2, QuarInvariance, PTL DEF Spec, ManualStands

-----------------------------------------------------------------------------
(* The agent                                                               *)

ProcessTypes ==
  /\ scamper \in [state : {"none", "running", "exited"}, signalled : BOOLEAN,
                  starts : Nat, late : BOOLEAN]
  /\ managed \in [keepAlive : BOOLEAN, remRetry : 0..MaxUint]
  /\ mu \in {"free", "keeper"}
  /\ keeper \in {"none", "wait", "sleep", "done"}
  /\ ender \in {"idle", "found", "ended"}
  /\ stop \in {"idle", "ints", "quit"}
  /\ run \in {"setup", "managing", "ready", "failed"}

\* The keeper sleeps with the lock, and exists from the first start on, which
\* is the last thing that run does.
KeeperInv ==
  /\ run \in {"setup", "managing"} => scamper.state = "none"
  /\ mu = "keeper" <=> keeper = "sleep"
  /\ keeper = "none" <=> scamper.state = "none"
  /\ scamper.state = "none" => scamper.starts = 0 /\ ~managed.keepAlive /\ ~scamper.late

\* After IntAll the keeper of a process it found is not about to start it, nor
\* will be.
InterruptedInv ==
  stop # "idle" /\ ~scamper.late
               => /\ ~managed.keepAlive /\ keeper # "sleep"
                  /\ scamper.state = "running" => scamper.signalled

\* While the process is to be kept alive remRetry counts the starts that are
\* left.  A sleeping keeper has one left, whatever has become of remRetry.
RestartsInv ==
  /\ scamper.starts <= Retry + 1
  /\ managed.keepAlive => scamper.starts + managed.remRetry <= Retry + 1
  /\ keeper = "sleep" => scamper.starts <= Retry /\ (managed.keepAlive => managed.remRetry > 0)

ProcessInv == ProcessTypes /\ KeeperInv /\ InterruptedInv /\ RestartsInv

-----------------------------------------------------------------------------

\* No step of the manager, of its process or of stop breaks the invariant.
\* The monitor of ICMP packets has no part in it.
LEMMA ProcessStep == ProcessInv /\ [AgentNext]_agentVars => ProcessInv'
<1> SUFFICES ASSUME ProcessInv, [AgentNext]_agentVars PROVE ProcessInv'
  OBVIOUS
<1> USE VantagePointAssumption DEF procVars,
            ProcessInv, ProcessTypes, KeeperInv, InterruptedInv, RestartsInv
<1>1. CASE ManageProcess
  <2>1. /\ run' = "ready" /\ scamper.state = "none" /\ keeper # "sleep"
        /\ UNCHANGED <<mu, ender, stop>>
    BY <1>1 DEF ManageProcess
  <2>2. CASE UNCHANGED <<scamper, managed, keeper>>
    BY <2>1, <2>2
  <2>3. CASE ~ UNCHANGED <<scamper, managed, keeper>>
    <3>1. /\ scamper' = Started(stop # "idle")
          /\ managed' = [keepAlive |-> TRUE, remRetry |-> Retry]
          /\ keeper' = "wait"
      BY <1>1, <2>3 DEF ManageProcess
    <3>2. /\ scamper'.state = "running" /\ scamper'.starts = scamper.starts + 1
          /\ scamper'.late = (stop # "idle")
      BY <2>1, <3>1, Zenon DEF Started
    <3>3. scamper.starts = 0
      BY <2>1
    <3>4. scamper' \in [state : {"none", "running", "exited"}, signalled : BOOLEAN,
                        starts : Nat, late : BOOLEAN]
      BY <2>1, <3>1, <3>3 DEF Started
    <3> QED
      BY <2>1, <3>1, <3>2, <3>3, <3>4
  <2> QED
    BY <2>2, <2>3
<1>2. CASE Exit
  BY <1>2 DEF Exit
<1>3. CASE Wake
  BY <1>3 DEF Wake
<1>4. CASE Restart
  <2>1. scamper' = scamper \/ scamper' = Started(scamper.late)
    BY <1>4 DEF Restart
  <2>2. /\ stop = "idle" \/ scamper.late
        /\ stop' = stop /\ ender' = ender /\ run' = run
        /\ keeper' = "wait" /\ mu' = "free" /\ managed'.keepAlive = managed.keepAlive
        /\ managed' \in [keepAlive : BOOLEAN, remRetry : 0..MaxUint]
        /\ managed.keepAlive => managed'.remRetry = managed.remRetry - 1
    BY <1>4 DEF Restart
  <2>3. scamper.state # "none" /\ run \notin {"setup", "managing"} /\ scamper.starts <= Retry
    BY <1>4 DEF Restart
  <2>4. CASE scamper' = scamper
    BY <2>2, <2>3, <2>4
  <2>5. CASE scamper' = Started(scamper.late)
    <3>1. /\ scamper'.state = "running" /\ scamper'.starts = scamper.starts + 1
          /\ scamper'.late = scamper.late
          /\ scamper' \in [state : {"none", "running", "exited"}, signalled : BOOLEAN,
                           starts : Nat, late : BOOLEAN]
      BY <2>5 DEF Started
    <3> QED
      BY <2>2, <2>3, <3>1
  <2> QED
    BY <2>1, <2>4, <2>5
<1>5. CASE FindProcess
  BY <1>5 DEF FindProcess
<1>6. CASE EndKeepAlive
  BY <1>6 DEF EndKeepAlive, Ended
<1>7. CASE IntAll
  <2>1. stop' = "ints" /\ keeper # "sleep" /\ UNCHANGED <<run, mu, keeper, ender>>
    BY <1>7 DEF IntAll
  <2>2. CASE scamper.state = "none"
    BY <1>7, <2>1, <2>2 DEF IntAll
  <2>3. CASE scamper.state # "none"
    <3>1. PICK s \in BOOLEAN : scamper' = [scamper EXCEPT !.signalled = s]
      BY <1>7, <2>3 DEF IntAll
    <3>2. scamper.state = "running" => scamper'.signalled
      BY <1>7, <2>3 DEF IntAll
    <3>3. managed' = [keepAlive |-> FALSE, remRetry |-> 0]
      BY <1>7, <2>3 DEF IntAll, Ended
    <3> QED
      BY <2>1, <2>3, <3>1, <3>2, <3>3
  <2> QED
    BY <2>2, <2>3
<1>8. CASE Quit
  BY <1>8 DEF Quit
<1>9. CASE \/ ExitAgent \/ Packet \/ PacketFails \/ HandOver \/ Take
           \/ TwoSeconds \/ Send \/ UNCHANGED agentVars
  <2>1. UNCHANGED <<run, procVars, stop>>
    BY <1>9 DEF ExitAgent, Packet, PacketFails, HandOver, Take, TakeProbe,
                TakeError, TwoSeconds, Send, agentVars
  <2> QED
    BY <2>1
<1>10. CASE SetUp \/ SetUpFails
  BY <1>10 DEF SetUp, SetUpFails
<1> QED
  BY <1>1, <1>2, <1>3, <1>4, <1>5, <1>6, <1>7, <1>8, <1>9, <1>10 DEF AgentNext, Keeping

\* The inductive invariant of the manager holds from its start.
THEOREM ProcessInvariance == AgentSpec => []ProcessInv
<1>1. AgentInit => ProcessInv
  BY VantagePointAssumption DEF AgentInit, ProcessInv, ProcessTypes, KeeperInv,
                                InterruptedInv, RestartsInv
<1>2. ProcessInv /\ [AgentNext]_agentVars => ProcessInv'
  BY ProcessStep
<1> QED
  BY <1>1, <1>2, PTL DEF AgentSpec

\* Once IntAll of mproc has returned, no process runs that was not interrupted,
\* but one that ManageProcess started after it.
THEOREM NoProcessOutlivesStop == AgentSpec => []NoneLeftRunning
<1>1. ProcessInv => NoneLeftRunning
  BY DEF ProcessInv, InterruptedInv, NoneLeftRunning
<1> QED
  BY <1>1, ProcessInvariance, PTL

\* The manager starts the process at most once and Retry times more, even if
\* remRetry wraps around under a sleeping keepAlive.
THEOREM RestartsBounded == AgentSpec => []RestartsAreBounded
<1>1. ProcessInv => RestartsAreBounded
  BY DEF ProcessInv, RestartsInv, RestartsAreBounded
<1> QED
  BY <1>1, ProcessInvariance, PTL

=============================================================================
