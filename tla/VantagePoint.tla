----------------------------- MODULE VantagePoint -----------------------------
(***************************************************************************)
(* The agent on a vantage point (plvp/plvantagepoint.go, plvp/icmp.go) and *)
(* the process manager it keeps scamper alive with (mproc/mproc.go).       *)
(*                                                                         *)
(* run sets the agent up in a goroutine of its own.  keepAlive waits for   *)
(* the process to exit and starts it again; it holds the lock of the       *)
(* manager while it sleeps before that.  A signal, which may come while    *)
(* run is under way, runs stop and ends the agent; scamper is a process of *)
(* its own and lives on unless it was interrupted.  The monitor reads all  *)
(* ICMP packets, hands spoofed probes and errors to monitorSpoofedPings    *)
(* through channels, and that one sends what it has gathered when nothing  *)
(* came for two seconds.                                                   *)
(***************************************************************************)
EXTENDS Naturals, Sequences, FiniteSets

CONSTANTS Probe,    \* spoofed probes that arrive, once each
          Retry,    \* restarts the manager is asked for
          MaxUint,  \* largest value of remRetry
          Room      \* of the channel of probes

ASSUME VantagePointAssumption ==
  /\ IsFiniteSet(Probe) /\ Retry \in Nat /\ MaxUint \in Nat /\ Retry <= MaxUint
  /\ Room \in Nat \ {0}

VARIABLES up,        \* the process of the agent lives
          run,       \* how far run has come
          scamper,   \* [state, signalled, starts, late] of the process
          managed,   \* [keepAlive, remRetry] of managedP
          mu,        \* who holds the lock of the manager
          keeper,    \* the goroutine of keepAlive
          ender,     \* a call of EndKeepAlive
          stop,      \* how far stop has come
          poll,      \* the goroutine that reads packets, and what it read
          monip, monec, \* its channels, of probes and of errors
          quiet,     \* two seconds without a probe or an error
          batch,     \* sprobes
          sent       \* probes sent, or lost with a failed Send

procVars == <<scamper, managed, mu, keeper, ender>>
icmpVars == <<poll, monip, monec, quiet, batch, sent>>
agentVars == <<up, run, procVars, stop, icmpVars>>

AgentInit ==
  /\ up = TRUE /\ run = "setup"
  /\ scamper = [state |-> "none", signalled |-> FALSE, starts |-> 0, late |-> FALSE]
  /\ managed = [keepAlive |-> FALSE, remRetry |-> 0]
  /\ mu = "free" /\ keeper = "none" /\ ender = "idle" /\ stop = "idle"
  /\ poll = <<"none">> /\ monip = <<>> /\ monec = <<>> /\ quiet = FALSE
  /\ batch = {} /\ sent = {}

-----------------------------------------------------------------------------
(* run                                                                     *)

(* The quit channel is looked at before the next read.                     *)
NextRead == IF stop = "quit" THEN <<"ended">> ELSE <<"read">>

(* A signal that finds no monitor yet does not make this one quit.         *)
SetUp ==
  /\ up /\ run = "setup"
  /\ run' = "managing" /\ poll' \in {<<"read">>, NextRead}
  /\ UNCHANGED <<up, procVars, stop, monip, monec, quiet, batch, sent>>

(* A bad configuration, or no address to bind to: run stops what there is, *)
(* which is nothing yet, and main exits.                                   *)
SetUpFails ==
  /\ up /\ run = "setup"
  /\ up' = FALSE /\ run' = "failed"
  /\ UNCHANGED <<procVars, stop, icmpVars>>

(* mproc.  Start also succeeds when the process runs: started is not set.  *)
Started(late) ==
  [state |-> "running", signalled |-> FALSE, starts |-> scamper.starts + 1, late |-> late]

(* Nobody looks whether a signal has come.  The agent need not start       *)
(* scamper, and ignores a start that fails.                                *)
ManageProcess ==
  /\ up /\ run = "managing" /\ mu = "free"
  /\ run' = "ready"
  /\ \/ /\ scamper' = Started(stop # "idle")
        /\ managed' = [keepAlive |-> TRUE, remRetry |-> Retry]
        /\ keeper' = "wait"
     \/ UNCHANGED <<scamper, managed, keeper>>
  /\ UNCHANGED <<up, mu, ender, stop, icmpVars>>

(* Scamper ends, whether the agent lives or not.                           *)
Exit ==
  /\ scamper.state = "running"
  /\ scamper' = [scamper EXCEPT !.state = "exited"]
  /\ UNCHANGED <<up, run, managed, mu, keeper, ender, stop, icmpVars>>

(* Faulty variant: the lock is not held while the goroutine sleeps.        *)
WakeUnlocked ==
  /\ up /\ keeper = "wait" /\ scamper.state = "exited" /\ mu = "free"
  /\ keeper' = IF managed.keepAlive /\ managed.remRetry > 0 THEN "sleep" ELSE "done"
  /\ UNCHANGED <<up, run, scamper, managed, mu, ender, stop, icmpVars>>

(* Faulty variant: only the retries that remain count.                     *)
WakeByRetries ==
  /\ up /\ keeper = "wait" /\ scamper.state = "exited" /\ mu = "free"
  /\ IF managed.remRetry > 0
     THEN keeper' = "sleep" /\ mu' = "keeper"
     ELSE keeper' = "done" /\ UNCHANGED mu
  /\ UNCHANGED <<up, run, scamper, managed, ender, stop, icmpVars>>

(* The process has been waited for; keepAlive and remRetry are read        *)
(* without the lock that endKeepAlive writes them with.                    *)
Wake ==
  /\ up /\ keeper = "wait" /\ scamper.state = "exited" /\ mu = "free"
  /\ IF managed.keepAlive /\ managed.remRetry > 0
     THEN keeper' = "sleep" /\ mu' = "keeper"
     ELSE keeper' = "done" /\ UNCHANGED mu
  /\ UNCHANGED <<up, run, scamper, managed, ender, stop, icmpVars>>

(* A start that fails counts as well.  remRetry wraps if it was reset.     *)
Restart ==
  /\ up /\ keeper = "sleep"
  /\ keeper' = "wait" /\ mu' = "free"
  /\ scamper' \in {Started(scamper.late), scamper}
  /\ managed' = [managed EXCEPT !.remRetry = IF @ = 0 THEN MaxUint ELSE @ - 1]
  /\ UNCHANGED <<up, run, ender, stop, icmpVars>>

Ended == [keepAlive |-> FALSE, remRetry |-> 0]

(* EndKeepAlive needs the lock to find the process, not to end its keep.   *)
FindProcess ==
  /\ up /\ ender = "idle" /\ mu = "free" /\ scamper.state # "none"
  /\ ender' = "found"
  /\ UNCHANGED <<up, run, scamper, managed, mu, keeper, stop, icmpVars>>

EndKeepAlive ==
  /\ up /\ ender = "found"
  /\ ender' = "ended" /\ managed' = Ended
  /\ UNCHANGED <<up, run, scamper, mu, keeper, stop, icmpVars>>

-----------------------------------------------------------------------------
(* stop: IntAll, Quit of the monitor, Close of the sender; and the exit of *)
(* the agent.  IntAll and Quit reach only what run has made so far.        *)

IntAll ==
  /\ up /\ stop = "idle" /\ mu = "free"
  /\ stop' = "ints"
  /\ IF scamper.state = "none" THEN UNCHANGED <<scamper, managed>>
     ELSE /\ managed' = Ended
          /\ scamper' = [scamper EXCEPT !.signalled = @ \/ scamper.state = "running"]
  /\ UNCHANGED <<up, run, mu, keeper, ender, icmpVars>>

Quit ==
  /\ up /\ stop = "ints"
  /\ stop' = "quit"
  /\ UNCHANGED <<up, run, procVars, icmpVars>>

(* Close makes a Send fail from now on, and nothing else changes.          *)
ExitAgent ==
  /\ up /\ stop = "quit"
  /\ up' = FALSE
  /\ UNCHANGED <<run, procVars, stop, icmpVars>>

-----------------------------------------------------------------------------
(* The monitor.  A packet is a spoofed probe, or gives an error, like any  *)
(* echo reply that is not spoofed.                                         *)

Packet ==
  /\ up /\ poll = <<"read">>
  /\ \/ \E p \in Probe \ (batch \union sent \union {monip[i] : i \in DOMAIN monip}) :
          poll' = <<"probe", p>>
     \/ poll' = <<"error">>
  /\ UNCHANGED <<up, run, procVars, stop, monip, monec, quiet, batch, sent>>

(* A read that fails makes the monitor listen again, and end if it cannot. *)
PacketFails ==
  /\ up /\ poll = <<"read">>
  /\ poll' = <<"failed">>
  /\ UNCHANGED <<up, run, procVars, stop, monip, monec, quiet, batch, sent>>

HandOver ==
  /\ up
  /\ \/ /\ poll[1] = "probe" /\ Len(monip) < Room
        /\ monip' = Append(monip, poll[2])
        /\ poll' = NextRead
        /\ UNCHANGED monec
     \/ /\ poll[1] \in {"error", "failed", "lost"} /\ monec = <<>>
        /\ monec' = <<poll[1]>>
        /\ \/ poll[1] # "lost" /\ poll' = NextRead
           \/ poll[1] = "failed" /\ poll' = <<"lost">>
           \/ poll[1] = "lost" /\ poll' = <<"ended">>
        /\ UNCHANGED monip
  /\ UNCHANGED <<up, run, procVars, stop, quiet, batch, sent>>

(* monitorSpoofedPings.  Whatever it takes from a channel starts its two   *)
(* seconds again.                                                          *)
TakeProbe ==
  /\ up /\ monip # <<>>
  /\ batch' = batch \union {Head(monip)}
  /\ monip' = Tail(monip) /\ quiet' = FALSE
  /\ UNCHANGED <<up, run, procVars, stop, poll, monec, sent>>

TakeError ==
  /\ up /\ monec # <<>>
  /\ monec' = Tail(monec) /\ quiet' = FALSE
  /\ UNCHANGED <<up, run, procVars, stop, poll, monip, batch, sent>>

TwoSeconds ==
  /\ up /\ poll # <<"none">> /\ ~quiet /\ monip = <<>> /\ monec = <<>>
  /\ quiet' = TRUE
  /\ UNCHANGED <<up, run, procVars, stop, poll, monip, monec, batch, sent>>

(* Faulty variant: only a full batch is sent.                              *)
SendFull ==
  /\ up /\ quiet /\ batch = Probe
  /\ sent' = sent \union batch
  /\ batch' = {} /\ quiet' = FALSE
  /\ UNCHANGED <<up, run, procVars, stop, poll, monip, monec>>

(* What Send returns is not looked at.                                     *)
Send ==
  /\ up /\ quiet
  /\ sent' = sent \union batch
  /\ batch' = {} /\ quiet' = FALSE
  /\ UNCHANGED <<up, run, procVars, stop, poll, monip, monec>>

-----------------------------------------------------------------------------

Keeping == Wake \/ Restart
Take == TakeProbe \/ TakeError

AgentNext ==
  \/ SetUp \/ SetUpFails \/ ManageProcess \/ Exit
  \/ Keeping \/ FindProcess \/ EndKeepAlive
  \/ IntAll \/ Quit \/ ExitAgent
  \/ Packet \/ PacketFails \/ HandOver \/ Take \/ TwoSeconds \/ Send

AgentSpec == AgentInit /\ [][AgentNext]_agentVars

(* Goroutines are scheduled and locks are fair; two seconds pass without a *)
(* packet only if packets stop.                                            *)
AgentFairSpec ==
  AgentSpec /\ WF_agentVars(HandOver) /\ WF_agentVars(Take)
            /\ WF_agentVars(TwoSeconds) /\ WF_agentVars(Send)

-----------------------------------------------------------------------------
(* Once IntAll has returned no process runs that was not interrupted: the  *)
(* keeper cannot start one behind its back, however long it slept.  The    *)
(* one exception is a signal that overtakes run: the process it starts     *)
(* late is not interrupted, and outlives the agent.                        *)
NoneLeftRunning ==
  stop # "idle" /\ scamper.state = "running" => scamper.signalled \/ scamper.late

(* The process is started once and then Retry times at most, though        *)
(* remRetry may wrap when EndKeepAlive resets it under a sleeping keeper.  *)
RestartsAreBounded == scamper.starts <= Retry + 1

(* A probe the monitor has read is sent, once packets stop coming, unless  *)
(* the agent ends first.  While they come more often than every two        *)
(* seconds, spoofed or not, nothing is sent.                               *)
ReadIsSent ==
  \/ \A p \in Probe : poll = <<"probe", p>> ~> p \in sent \/ ~up
  \/ []<><<Packet \/ PacketFails>>_agentVars
=============================================================================
