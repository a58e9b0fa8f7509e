------------------------------ MODULE RevtrWeb ------------------------------
(***************************************************************************)
(* The web side of the reverse traceroute server: the page handlers and    *)
(* the web sockets of cmd/revtr/main.go, and the part of                   *)
(* revtr/server/server.go they call (AddRevtr, StartRevtr and the printing *)
(* of a run's state into a channel).                                       *)
(*                                                                         *)
(* A page request (RunRevtr) creates a run under a new key; every browser  *)
(* tab then opens a web socket for that key.  The first one starts the     *)
(* run, later ones join; each tab starts a monitor goroutine that copies   *)
(* statuses from the channel of the run to all the tabs of the key.        *)
(*                                                                         *)
(* Locks: rr.mu (the map of runs) and one oc.mu per output channel.  The   *)
(* critical sections of rs.mu contain no wait for another lock, so each is *)
(* one step here.  A tab's handler and, later, its monitor are both named  *)
(* by the tab: the monitor starts when the handler returns.                *)
(***************************************************************************)
EXTENDS Naturals, Sequences

CONSTANTS Key,    \* the ids AddRevtr gives out
          Tab,    \* browser tabs that open a web socket
          Free,   \* nobody holds the lock
          Cap,    \* capacity of a run's status channel (5 in the code)
          Final   \* number of the last status of a run, the one that says it ended

ASSUME WebAssumption == /\ Cap \in Nat \ {0}
                        /\ Final \in Nat \ {0, 1}
                        /\ Free \notin Tab

VARIABLES up,       \* the process has not been killed by a panic
          page,     \* progress of the page request that got the key
          rrMu,     \* holder of rr.mu
          rts,      \* the map rr.rts: no entry, a nil entry or an outputChan
          oc,       \* the outputChan of a key
          chan,     \* the statuses in the run's channel
          closed,   \* the channel has been closed
          accepted, \* the last status the channel had room for
          printed,  \* how many statuses the run has printed
          revtrs, running, \* the maps of the server
          stored,   \* runs StoreRevtr has stored
          tab,      \* [pc, key, got, shown] of a tab's handler and monitor
          engine    \* the goroutine a tab's StartRevtr call has started

webVars == <<up, page, rrMu, rts, oc, chan, closed, accepted, printed, revtrs,
             running, stored, tab, engine>>

NewOutputChan == [mu |-> Free, funcs |-> {}, last |-> 0, completed |-> FALSE]

Init ==
  /\ up = TRUE
  /\ page = [k \in Key |-> "requested"]
  /\ rrMu = Free
  /\ rts = [k \in Key |-> "absent"]
  /\ oc = [k \in Key |-> NewOutputChan]
  /\ chan = [k \in Key |-> <<>>]
  /\ closed = [k \in Key |-> FALSE]
  /\ accepted = [k \in Key |-> 0]
  /\ printed = [k \in Key |-> 0]
  /\ revtrs = {} /\ running = {} /\ stored = {}
  /\ \E k \in Key : tab = [t \in Tab |-> [pc |-> "closed", key |-> k, got |-> 0, shown |-> 0]]
  /\ engine = [t \in Tab |-> "none"]

Move(t, pc) == tab' = [tab EXCEPT ![t].pc = pc]

-----------------------------------------------------------------------------
(* Printing a run's state: the send does not wait, a full channel loses it *)

PrintStatus(k, s) ==
  /\ printed' = [printed EXCEPT ![k] = s]
  /\ IF Len(chan[k]) < Cap
     THEN /\ chan' = [chan EXCEPT ![k] = Append(@, s)]
          /\ accepted' = [accepted EXCEPT ![k] = s]
     ELSE UNCHANGED <<chan, accepted>>

-----------------------------------------------------------------------------
(* The page request.  AddRevtr fails for an address of no vantage point,   *)
(* and getRTT panics when the controller ends its stream without a value:  *)
(* net/http recovers a panic of a handler, the deferred Unlock runs, and   *)
(* the id is lost.                                                         *)

AddRevtr(k) ==
  /\ page[k] = "requested"
  /\ page' = [page EXCEPT ![k] = "added"]
  /\ PrintStatus(k, 1)
  /\ revtrs' = revtrs \union {k}
  /\ UNCHANGED <<up, rrMu, rts, oc, closed, running, stored, tab, engine>>

AddRevtrFails(k) ==
  /\ page[k] = "requested"
  /\ page' = [page EXCEPT ![k] = "failed"]
  /\ UNCHANGED <<up, rrMu, rts, oc, chan, closed, accepted, printed, revtrs,
                 running, stored, tab, engine>>

RunRevtr(k) ==
  /\ page[k] = "added" /\ rrMu = Free
  /\ page' = [page EXCEPT ![k] = "served"]
  /\ rts' = [rts EXCEPT ![k] = "nil"]
  /\ UNCHANGED <<up, rrMu, oc, chan, closed, accepted, printed, revtrs, running,
                 stored, tab, engine>>

-----------------------------------------------------------------------------
(* The web socket of a tab                                                 *)

OpenWS(t, k) ==
  /\ tab[t].pc = "closed"
  /\ tab' = [tab EXCEPT ![t].pc = "lookup", ![t].key = k]
  /\ UNCHANGED <<up, page, rrMu, rts, oc, chan, closed, accepted, printed, revtrs,
                 running, stored, engine>>

InvalidKey(t) ==
  /\ tab[t].pc = "lookup" /\ rrMu = Free
  /\ rts[tab[t].key] = "absent"
  /\ Move(t, "refused")
  /\ UNCHANGED <<up, page, rrMu, rts, oc, chan, closed, accepted, printed, revtrs,
                 running, stored, engine>>

StartRevtr(t) == LET k == tab[t].key IN
  /\ tab[t].pc = "lookup" /\ rrMu = Free
  /\ rts[k] = "nil"
  /\ rrMu' = t
  /\ engine' = IF k \in revtrs THEN [engine EXCEPT ![t] = "spawned"] ELSE engine
  /\ oc' = [oc EXCEPT ![k] = NewOutputChan]
  /\ rts' = [rts EXCEPT ![k] = "oc"]
  /\ Move(t, "register")
  /\ UNCHANGED <<up, page, chan, closed, accepted, printed, revtrs, running, stored>>

JoinRevtr(t) ==
  /\ tab[t].pc = "lookup" /\ rrMu = Free
  /\ rts[tab[t].key] = "oc"
  /\ rrMu' = t
  /\ Move(t, "register")
  /\ UNCHANGED <<up, page, rts, oc, chan, closed, accepted, printed, revtrs, running,
                 stored, engine>>

(* Faulty variant: a tab is only ever written to once.                     *)
ShowOnce(tabs, s) ==
  [u \in Tab |-> IF u \in tabs /\ tab[u].shown = 0 THEN [tab[u] EXCEPT !.shown = s] ELSE tab[u]]

(* callAll: status s goes to every tab of the key; a tab whose write fails *)
(* is taken off the list.                                                  *)
Show(tabs, s) == [u \in Tab |-> IF u \in tabs THEN [tab[u] EXCEPT !.shown = s] ELSE tab[u]]

(* register, the end of the handler and the start of the tab's monitor.    *)
(* The handler still holds rr.mu when it asks for oc.mu.                   *)
Register(t) ==
  LET k == tab[t].key
      tabs == oc[k].funcs \union {t}
  IN /\ tab[t].pc = "register" /\ oc[k].mu = Free
     /\ \E broken \in SUBSET (IF oc[k].last = 0 THEN {} ELSE tabs) :
          /\ oc' = [oc EXCEPT ![k].funcs = tabs \ broken]
          /\ tab' = [(IF oc[k].last = 0 THEN tab ELSE Show(tabs \ broken, oc[k].last))
                       EXCEPT ![t].pc = "receive"]
     /\ rrMu' = Free
     /\ UNCHANGED <<up, page, rts, chan, closed, accepted, printed, revtrs, running,
                    stored, engine>>

-----------------------------------------------------------------------------
(* The monitor of a tab                                                    *)

Receive(t) == LET k == tab[t].key IN
  /\ tab[t].pc = "receive" /\ chan[k] # <<>>
  /\ tab' = [tab EXCEPT ![t].pc = "deliver", ![t].got = Head(chan[k])]
  /\ chan' = [chan EXCEPT ![k] = Tail(@)]
  /\ UNCHANGED <<up, page, rrMu, rts, oc, closed, accepted, printed, revtrs, running,
                 stored, engine>>

MonitorEnds(t) == LET k == tab[t].key IN
  /\ tab[t].pc = "receive" /\ chan[k] = <<>> /\ closed[k]
  /\ Move(t, "ended")
  /\ UNCHANGED <<up, page, rrMu, rts, oc, chan, closed, accepted, printed, revtrs,
                 running, stored, engine>>

(* The first status ever delivered for a key calls complete(), which wants *)
(* rr.mu while oc.mu is held.                                              *)
Deliver(t) == LET k == tab[t].key IN
  /\ tab[t].pc = "deliver" /\ oc[k].mu = Free
  /\ \E broken \in SUBSET oc[k].funcs :
       /\ tab' = [Show(oc[k].funcs \ broken, tab[t].got)
                    EXCEPT ![t].pc = IF oc[k].completed THEN "receive" ELSE "complete"]
       /\ oc' = [oc EXCEPT ![k] = [mu |-> IF @.completed THEN Free ELSE t,
                                   funcs |-> @.funcs \ broken,
                                   last |-> tab[t].got,
                                   completed |-> TRUE]]
  /\ UNCHANGED <<up, page, rrMu, rts, chan, closed, accepted, printed, revtrs, running,
                 stored, engine>>

(* Faulty variant: the entry is reset instead of deleted.                  *)
CompleteResets(t) == LET k == tab[t].key IN
  /\ tab[t].pc = "complete" /\ rrMu = Free
  /\ rts' = [rts EXCEPT ![k] = "nil"]
  /\ oc' = [oc EXCEPT ![k].mu = Free]
  /\ Move(t, "receive")
  /\ UNCHANGED <<up, page, rrMu, chan, closed, accepted, printed, revtrs, running,
                 stored, engine>>

(* Faulty variant: complete() returns without releasing rr.mu.             *)
CompleteKeepsLock(t) == LET k == tab[t].key IN
  /\ tab[t].pc = "complete" /\ rrMu = Free
  /\ rrMu' = t
  /\ rts' = [rts EXCEPT ![k] = "absent"]
  /\ oc' = [oc EXCEPT ![k].mu = Free]
  /\ Move(t, "receive")
  /\ UNCHANGED <<up, page, chan, closed, accepted, printed, revtrs, running, stored,
                 engine>>

Complete(t) == LET k == tab[t].key IN
  /\ tab[t].pc = "complete" /\ rrMu = Free
  /\ rts' = [rts EXCEPT ![k] = "absent"]
  /\ oc' = [oc EXCEPT ![k].mu = Free]
  /\ Move(t, "receive")
  /\ UNCHANGED <<up, page, rrMu, chan, closed, accepted, printed, revtrs, running,
                 stored, engine>>

-----------------------------------------------------------------------------
(* The goroutine StartRevtr starts.  It looks into rs.running without the  *)
(* lock, and only later adds itself under the lock.                        *)

Step(t, pc) == engine' = [engine EXCEPT ![t] = pc]

CheckRunning(t) ==
  /\ engine[t] = "spawned"
  /\ Step(t, IF tab[t].key \in running THEN "ended" ELSE "starting")
  /\ UNCHANGED <<up, page, rrMu, rts, oc, chan, closed, accepted, printed, revtrs,
                 running, stored, tab>>

RunEngine(t) ==
  /\ engine[t] = "starting"
  /\ running' = running \union {tab[t].key}
  /\ Step(t, "running")
  /\ UNCHANGED <<up, page, rrMu, rts, oc, chan, closed, accepted, printed, revtrs,
                 stored, tab>>

EnginePrints(t) == LET k == tab[t].key IN
  /\ engine[t] = "running" /\ printed[k] + 1 < Final
  /\ PrintStatus(k, printed[k] + 1)
  /\ UNCHANGED <<up, page, rrMu, rts, oc, closed, revtrs, running, stored, tab, engine>>

EngineEnds(t) ==
  /\ engine[t] = "running"
  /\ PrintStatus(tab[t].key, Final)
  /\ Step(t, "done")
  /\ UNCHANGED <<up, page, rrMu, rts, oc, closed, revtrs, running, stored, tab>>

(* getRTT's panic outside a handler: nobody recovers it.                   *)
EnginePanics(t) ==
  /\ engine[t] = "running"
  /\ up' = FALSE
  /\ UNCHANGED <<page, rrMu, rts, oc, chan, closed, accepted, printed, revtrs, running,
                 stored, tab, engine>>

FinishRun(t) == LET k == tab[t].key IN
  /\ engine[t] = "done"
  /\ revtrs' = revtrs \ {k}
  /\ running' = running \ {k}
  /\ closed' = [closed EXCEPT ![k] = TRUE]
  /\ Step(t, "store")
  /\ UNCHANGED <<up, page, rrMu, rts, oc, chan, accepted, printed, stored, tab>>

StoreRun(t) ==
  /\ engine[t] = "store"
  /\ stored' \in {stored, stored \union {tab[t].key}}
  /\ Step(t, "ended")
  /\ UNCHANGED <<up, page, rrMu, rts, oc, chan, closed, accepted, printed, revtrs,
                 running, tab>>

-----------------------------------------------------------------------------

Handler(t) == InvalidKey(t) \/ StartRevtr(t) \/ JoinRevtr(t) \/ Register(t)
Monitor(t) == Receive(t) \/ MonitorEnds(t) \/ Deliver(t) \/ Complete(t)
Engine(t) == \/ CheckRunning(t) \/ RunEngine(t) \/ EnginePrints(t) \/ EngineEnds(t)
             \/ EnginePanics(t) \/ FinishRun(t) \/ StoreRun(t)
Page(k) == AddRevtr(k) \/ AddRevtrFails(k) \/ RunRevtr(k)

Next == up /\ (\/ \E k \in Key : Page(k)
               \/ \E t \in Tab : \/ \E k \in Key : OpenWS(t, k)
                                 \/ Handler(t) \/ Monitor(t) \/ Engine(t))

Spec == Init /\ [][Next]_webVars

(* Goroutines are scheduled, and a lock that is free again and again is    *)
(* granted in the end.  Nothing makes a user open a page.                  *)
FairSpec == /\ Spec
            /\ \A k \in Key : WF_webVars(up /\ RunRevtr(k))
            /\ \A t \in Tab : /\ WF_webVars(up /\ Handler(t))
                              /\ WF_webVars(up /\ Monitor(t))
                              /\ WF_webVars(up /\ Engine(t))

-----------------------------------------------------------------------------
(* Whoever is still going to print into the channel of a run, or to close  *)
(* it, finds it open: no run is measured twice although StartRevtr checks  *)
(* rs.running without the lock.  (A send on a closed channel and a second  *)
(* close kill the process.)                                                *)
NoChannelPanic ==
  \A t \in Tab : engine[t] \in {"starting", "running", "done"} => ~closed[tab[t].key]

Watchers(k) == {t \in Tab : tab[t].key = k /\ tab[t].pc \in {"receive", "deliver", "complete", "ended"}}

(* When a run is over and its channel drained, a tab that has watched it   *)
(* alone and whose connection held shows the last status the channel had   *)
(* room for.  (With two monitors on one channel the order is not kept.)    *)
ShowsTheLast ==
  \A k \in Key, w \in Tab :
    closed[k] /\ chan[k] = <<>> /\ Watchers(k) = {w} /\ tab[w].pc # "deliver"
      => \A t \in oc[k].funcs : tab[t].shown = accepted[k]

(* The handler of a tab holds rr.mu and waits for oc.mu, whose holder is a *)
(* monitor in complete() that waits for rr.mu.                             *)
Inverted == \E t \in Tab : /\ rrMu = t /\ tab[t].pc = "register"
                           /\ oc[tab[t].key].mu \in Tab
                           /\ tab[oc[tab[t].key].mu].pc = "complete"

Waiting(t) == \/ tab[t].pc \in {"lookup", "register", "deliver", "complete"}
              \/ tab[t].pc = "receive" /\ closed[tab[t].key]

(* Nothing on the web side hangs but by that inversion: every handler and  *)
(* every page request returns, every delivery is made, and the monitors of *)
(* a closed channel end, unless the process dies.                          *)
HangsOnlyByInversion ==
  /\ \A t \in Tab : Waiting(t) ~> (~Waiting(t) \/ Inverted \/ ~up)
  /\ \A k \in Key : page[k] = "added" ~> (page[k] = "served" \/ Inverted \/ ~up)

=============================================================================
