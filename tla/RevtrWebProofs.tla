---------------------------- MODULE RevtrWebProofs ----------------------------
(***************************************************************************)
(* Proofs about RevtrWeb, for any keys and tabs, any capacity of the       *)
(* channel of statuses and any number of statuses.                         *)
(***************************************************************************)
EXTENDS RevtrWeb, TLAPS

TabRecords ==
  [pc : {"closed", "lookup", "refused", "register", "receive", "deliver", "complete", "ended"},
   key : Key, got : Nat, shown : Nat]
OutputChans == [mu : Tab \union {Free}, funcs : SUBSET Tab, last : Nat, completed : BOOLEAN]

RunTypes ==
  /\ page \in [Key -> {"requested", "added", "failed", "served"}]
  /\ rts \in [Key -> {"absent", "nil", "oc"}]
  /\ closed \in [Key -> BOOLEAN]
  /\ engine \in [Tab -> {"none", "spawned", "starting", "running", "done", "store", "ended"}]

ChanTypes ==
  chan \in [Key -> Seq(Nat)] /\ accepted \in [Key -> Nat] /\ printed \in [Key -> Nat]

TabTypes == oc \in [Key -> OutputChans] /\ tab \in [Tab -> TabRecords]

WebTypes == RunTypes /\ ChanTypes /\ TabTypes

\* Tabs that have got past the map of runs.
Admitted == {t \in Tab : tab[t].pc \notin {"closed", "lookup", "refused"}}

\* The nil entry of a run is there once: before that, and while it is there,
\* no tab has been admitted.
NilOnceInv ==
  /\ \A k \in Key : rts[k] # "absent" => page[k] = "served"
  /\ \A t \in Admitted : page[tab[t].key] = "served" /\ rts[tab[t].key] # "nil"

\* One tab at most starts a run, and who closed its channel has started it.
OneEngineInv ==
  /\ \A t \in Tab : engine[t] # "none" => t \in Admitted
  /\ \A t, u \in Tab : engine[t] # "none" /\ engine[u] # "none" /\ tab[t].key = tab[u].key => t = u
  /\ \A k \in Key : closed[k] => \E t \in Tab : tab[t].key = k /\ engine[t] \in {"store", "ended"}

StartInv == WebTypes /\ NilOnceInv /\ OneEngineInv

-----------------------------------------------------------------------------

LEMMA RunTypesStep == RunTypes /\ [Next]_webVars => RunTypes'
<1> SUFFICES ASSUME RunTypes, [Next]_webVars PROVE RunTypes'
  OBVIOUS
<1> USE DEF RunTypes
<1>1. ASSUME NEW k \in Key, Page(k) PROVE RunTypes'
  BY <1>1 DEF Page, AddRevtr, AddRevtrFails, RunRevtr
<1>2. ASSUME NEW t \in Tab, NEW k \in Key, OpenWS(t, k) PROVE RunTypes'
  BY <1>2 DEF OpenWS
<1>3. ASSUME NEW t \in Tab, Handler(t) PROVE RunTypes'
  BY <1>3 DEF Handler, InvalidKey, StartRevtr, JoinRevtr, Register
<1>4. ASSUME NEW t \in Tab, Monitor(t) PROVE RunTypes'
  BY <1>4 DEF Monitor, Receive, MonitorEnds, Deliver, Complete
<1>5. ASSUME NEW t \in Tab, Engine(t) PROVE RunTypes'
  <2>1. CASE FinishRun(t)
    BY <2>1 DEF FinishRun, Step
  <2>2. CASE ~FinishRun(t)
    BY <1>5, <2>2 DEF Engine, CheckRunning, RunEngine, EnginePrints, EngineEnds, EnginePanics,
                      StoreRun, Step
  <2> QED
    BY <2>1, <2>2
<1>6. CASE UNCHANGED webVars
  BY <1>6 DEF webVars
<1> QED
  BY <1>1, <1>2, <1>3, <1>4, <1>5, <1>6 DEF Next

LEMMA ChanTypesStep == ChanTypes /\ TabTypes /\ [Next]_webVars => ChanTypes'
<1> SUFFICES ASSUME ChanTypes, TabTypes, [Next]_webVars PROVE ChanTypes'
  OBVIOUS
<1> USE DEF ChanTypes
<1>1. ASSUME NEW k \in Key, NEW n \in Nat, PrintStatus(k, n) PROVE ChanTypes'
  <2>1. Append(chan[k], n) \in Seq(Nat) /\ printed' \in [Key -> Nat]
    BY <1>1 DEF PrintStatus
  <2>2. CASE Len(chan[k]) < Cap
    BY <1>1, <2>1, <2>2 DEF PrintStatus
  <2>3. CASE ~(Len(chan[k]) < Cap)
    BY <1>1, <2>1, <2>3 DEF PrintStatus
  <2> QED
    BY <2>2, <2>3
<1>2. ASSUME NEW t \in Tab PROVE tab[t].key \in Key
  BY DEF TabTypes, TabRecords
<1>3. ASSUME NEW k \in Key, Page(k) PROVE ChanTypes'
  BY <1>1, <1>3 DEF Page, AddRevtr, AddRevtrFails, RunRevtr
<1>4. ASSUME NEW t \in Tab, NEW k \in Key, OpenWS(t, k) PROVE ChanTypes'
  BY <1>4 DEF OpenWS
<1>5. ASSUME NEW t \in Tab, Handler(t) PROVE ChanTypes'
  BY <1>5 DEF Handler, InvalidKey, StartRevtr, JoinRevtr, Register
<1>6. ASSUME NEW t \in Tab, Monitor(t) PROVE ChanTypes'
  <2>1. CASE Receive(t)
    BY <1>2, <2>1 DEF Receive
  <2>2. CASE ~Receive(t)
    BY <1>6, <2>2 DEF Monitor, MonitorEnds, Deliver, Complete
  <2> QED
    BY <2>1, <2>2
<1>7. ASSUME NEW t \in Tab, Engine(t) PROVE ChanTypes'
  <2>1. CASE EnginePrints(t)
    <3>1. printed[tab[t].key] + 1 \in Nat
      BY <1>2
    <3> QED
      BY <1>1, <1>2, <2>1, <3>1 DEF EnginePrints
  <2>2. CASE EngineEnds(t)
    BY <1>1, <1>2, <2>2, WebAssumption DEF EngineEnds
  <2>3. CASE CheckRunning(t) \/ RunEngine(t) \/ EnginePanics(t) \/ FinishRun(t) \/ StoreRun(t)
    BY <2>3 DEF CheckRunning, RunEngine, EnginePanics, FinishRun, StoreRun
  <2> QED
    BY <1>7, <2>1, <2>2, <2>3 DEF Engine
<1>8. CASE UNCHANGED webVars
  BY <1>8 DEF webVars
<1> QED
  BY <1>3, <1>4, <1>5, <1>6, <1>7, <1>8 DEF Next

\* Tabs change one at a time, but for what they show.
LEMMA TabTypesStep == ChanTypes /\ TabTypes /\ [Next]_webVars => TabTypes'
<1> SUFFICES ASSUME ChanTypes, TabTypes, [Next]_webVars PROVE TabTypes'
  OBVIOUS
<1>1. ASSUME NEW t \in Tab, NEW pc \in {"refused", "register", "receive", "ended"},
             Move(t, pc) PROVE tab' \in [Tab -> TabRecords]
  BY <1>1 DEF Move, TabTypes, TabRecords
<1>2. ASSUME NEW tabs, NEW s \in Nat PROVE Show(tabs, s) \in [Tab -> TabRecords]
  <2>1. ASSUME NEW u \in Tab PROVE [tab[u] EXCEPT !.shown = s] \in TabRecords
    BY <2>1 DEF TabTypes, TabRecords
  <2> QED
    BY <2>1 DEF Show, TabTypes
<1>3. ASSUME NEW f \in [Tab -> TabRecords], NEW t \in Tab, NEW pc \in {"receive", "complete"}
      PROVE  [f EXCEPT ![t].pc = pc] \in [Tab -> TabRecords]
  BY <1>3 DEF TabRecords
<1>4. ASSUME NEW t \in Tab PROVE tab[t] \in TabRecords /\ tab[t].key \in Key
  BY DEF TabTypes, TabRecords
<1>5. ASSUME NEW k \in Key PROVE oc[k] \in OutputChans
  BY DEF TabTypes
<1>6. ASSUME NEW k \in Key, Page(k) PROVE TabTypes'
  BY <1>6 DEF Page, AddRevtr, AddRevtrFails, RunRevtr, TabTypes
<1>7. ASSUME NEW t \in Tab, NEW k \in Key, OpenWS(t, k) PROVE TabTypes'
  BY <1>7 DEF OpenWS, TabTypes, TabRecords
<1>8. ASSUME NEW t \in Tab, InvalidKey(t) \/ JoinRevtr(t) \/ MonitorEnds(t) PROVE TabTypes'
  BY <1>1, <1>8 DEF InvalidKey, JoinRevtr, MonitorEnds, TabTypes
<1>9. ASSUME NEW t \in Tab, StartRevtr(t) PROVE TabTypes'
  BY <1>1, <1>4, <1>9 DEF StartRevtr, NewOutputChan, OutputChans, TabTypes
<1>10. ASSUME NEW t \in Tab, Register(t) PROVE TabTypes'
  <2> DEFINE k == tab[t].key
             tabs == oc[k].funcs \union {t}
  <2>1. PICK broken \in SUBSET tabs :
          /\ oc' = [oc EXCEPT ![k].funcs = tabs \ broken]
          /\ tab' = [(IF oc[k].last = 0 THEN tab ELSE Show(tabs \ broken, oc[k].last))
                       EXCEPT ![t].pc = "receive"]
    BY <1>10 DEF Register
  <2>2. k \in Key /\ oc[k].last \in Nat /\ tabs \subseteq Tab
    BY <1>4, <1>5 DEF OutputChans
  <2>3. tab' \in [Tab -> TabRecords]
    BY <1>2, <1>3, <2>1, <2>2 DEF TabTypes
  <2>4. oc' \in [Key -> OutputChans]
    BY <2>1, <2>2 DEF TabTypes, OutputChans
  <2> QED
    BY <2>3, <2>4 DEF TabTypes
<1>11. ASSUME NEW t \in Tab, Receive(t) PROVE TabTypes'
  <2>1. Head(chan[tab[t].key]) \in Nat
    BY <1>4, <1>11 DEF Receive, ChanTypes
  <2> QED
    BY <1>11, <2>1 DEF Receive, TabTypes, TabRecords
<1>12. ASSUME NEW t \in Tab, Deliver(t) PROVE TabTypes'
  <2> DEFINE k == tab[t].key
  <2>1. PICK broken \in SUBSET oc[k].funcs :
          /\ tab' = [Show(oc[k].funcs \ broken, tab[t].got)
                       EXCEPT ![t].pc = IF oc[k].completed THEN "receive" ELSE "complete"]
          /\ oc' = [oc EXCEPT ![k] = [mu |-> IF @.completed THEN Free ELSE t,
                                      funcs |-> @.funcs \ broken,
                                      last |-> tab[t].got,
                                      completed |-> TRUE]]
    BY <1>12 DEF Deliver
  <2>2. k \in Key /\ tab[t].got \in Nat /\ oc[k].funcs \subseteq Tab
    BY <1>4, <1>5 DEF OutputChans, TabRecords
  <2>3. tab' \in [Tab -> TabRecords]
    BY <1>2, <1>3, <2>1, <2>2
  <2>4. oc' \in [Key -> OutputChans]
    BY <2>1, <2>2 DEF TabTypes, OutputChans
  <2> QED
    BY <2>3, <2>4 DEF TabTypes
<1>13. ASSUME NEW t \in Tab, Complete(t) PROVE TabTypes'
  BY <1>1, <1>4, <1>13 DEF Complete, TabTypes, OutputChans
<1>14. ASSUME NEW t \in Tab, Engine(t) PROVE TabTypes'
  BY <1>14 DEF Engine, CheckRunning, RunEngine, EnginePrints, EngineEnds, EnginePanics, FinishRun,
               StoreRun, TabTypes
<1>15. CASE UNCHANGED webVars
  BY <1>15 DEF webVars, TabTypes
<1> QED
  BY <1>6, <1>7, <1>8, <1>9, <1>10, <1>11, <1>12, <1>13, <1>14, <1>15 DEF Next, Handler, Monitor

LEMMA WebTypesStep == WebTypes /\ [Next]_webVars => WebTypes'
  BY RunTypesStep, ChanTypesStep, TabTypesStep DEF WebTypes

-----------------------------------------------------------------------------

\* An admitted tab stays admitted under its key, and the two ways in are
\* StartRevtr and JoinRevtr.
LEMMA AdmittedStep ==
  ASSUME TabTypes, [Next]_webVars
  PROVE  \A t \in Tab :
           /\ t \in Admitted => t \in Admitted' /\ tab'[t].key = tab[t].key
           /\ t \in Admitted' \ Admitted => StartRevtr(t) \/ JoinRevtr(t)
<1> DEFINE Kept == \A t \in Tab :
             /\ t \in Admitted => t \in Admitted' /\ tab'[t].key = tab[t].key
             /\ t \in Admitted' => t \in Admitted
<1> USE DEF TabTypes, TabRecords, Admitted
<1>1. ASSUME UNCHANGED tab PROVE Kept
  BY <1>1
<1>2. ASSUME NEW k \in Key, Page(k) PROVE Kept
  BY <1>1, <1>2 DEF Page, AddRevtr, AddRevtrFails, RunRevtr
<1>3. ASSUME NEW t \in Tab, NEW k \in Key, OpenWS(t, k) PROVE Kept
  BY <1>3 DEF OpenWS
<1>4. ASSUME NEW t \in Tab, InvalidKey(t) \/ MonitorEnds(t) \/ Complete(t) PROVE Kept
  <2>1. CASE InvalidKey(t)
    BY <2>1 DEF InvalidKey, Move
  <2>2. CASE MonitorEnds(t) \/ Complete(t)
    BY <2>2 DEF MonitorEnds, Complete, Move
  <2> QED
    BY <1>4, <2>1, <2>2
<1>5. ASSUME NEW t \in Tab, Receive(t) PROVE Kept
  BY <1>5 DEF Receive
<1>6. ASSUME NEW t \in Tab, StartRevtr(t) \/ JoinRevtr(t)
      PROVE  \A u \in Tab :
               /\ u \in Admitted => u \in Admitted' /\ tab'[u].key = tab[u].key
               /\ u \in Admitted' \ Admitted => u = t
  BY <1>6 DEF StartRevtr, JoinRevtr, Move
<1>7. ASSUME NEW t \in Tab, Register(t) PROVE Kept
  BY <1>7, SMTT(30) DEF Register, Show
<1>8. ASSUME NEW t \in Tab, Deliver(t) PROVE Kept
  BY <1>8 DEF Deliver, Show
<1>9. ASSUME NEW t \in Tab, Engine(t) PROVE Kept
  BY <1>1, <1>9 DEF Engine, CheckRunning, RunEngine, EnginePrints, EngineEnds, EnginePanics,
                     FinishRun, StoreRun
<1>10. ASSUME UNCHANGED webVars PROVE Kept
  BY <1>1, <1>10 DEF webVars
<1> HIDE DEF TabTypes, TabRecords, Admitted
<1>11. CASE \E t \in Tab : StartRevtr(t) \/ JoinRevtr(t)
  BY <1>6, <1>11
<1>12. CASE ~\E t \in Tab : StartRevtr(t) \/ JoinRevtr(t)
  <2>1. Kept
    <3> HIDE DEF Kept
    <3>1. CASE Next
      BY <1>2, <1>3, <1>4, <1>5, <1>7, <1>8, <1>9, <1>12, <3>1, Zenon DEF Next, Handler, Monitor
    <3> QED
      BY <1>10, <3>1
  <2> QED
    BY <2>1
<1> QED
  BY <1>11, <1>12

\* No step puts a second nil entry of a run into the map.
LEMMA NilOnceStep == WebTypes /\ NilOnceInv /\ [Next]_webVars => NilOnceInv'
<1> SUFFICES ASSUME WebTypes, NilOnceInv, [Next]_webVars PROVE NilOnceInv'
  OBVIOUS
<1>1. TabTypes /\ RunTypes
  BY DEF WebTypes
<1>2. \A t \in Tab : tab[t].key \in Key
  BY <1>1 DEF TabTypes, TabRecords
<1>3. Admitted \subseteq Tab
  BY DEF Admitted
<1>4. ASSUME \A k \in Key : /\ page[k] = "served" => page'[k] = "served"
                            /\ rts'[k] = rts[k] \/ rts'[k] = "absent",
             ~\E t \in Tab : StartRevtr(t)
      PROVE  NilOnceInv'
  <2>1. \A k \in Key : rts'[k] # "absent" => page'[k] = "served"
    BY <1>4 DEF NilOnceInv
  <2>2. ASSUME NEW t \in Admitted'
        PROVE  page'[tab'[t].key] = "served" /\ rts'[tab'[t].key] # "nil"
    <3>1. t \in Tab
      BY DEF Admitted
    <3>2. CASE t \in Admitted
      <4>1. tab'[t].key = tab[t].key /\ page[tab[t].key] = "served" /\ rts[tab[t].key] # "nil"
        BY <1>1, <3>1, <3>2, AdmittedStep DEF NilOnceInv
      <4> QED
        BY <1>2, <1>4, <3>1, <4>1
    <3>3. CASE t \notin Admitted
      <4>1. JoinRevtr(t)
        BY <1>1, <1>4, <2>2, <3>1, <3>3, AdmittedStep
      <4>2. tab'[t].key = tab[t].key /\ rts[tab[t].key] = "oc"
        BY <1>1, <3>1, <4>1 DEF JoinRevtr, Move, TabTypes, TabRecords
      <4> QED
        BY <1>2, <1>4, <3>1, <4>2 DEF NilOnceInv
    <3> QED
      BY <3>2, <3>3
  <2> QED
    BY <2>1, <2>2 DEF NilOnceInv
<1>5. ASSUME NEW t \in Tab, StartRevtr(t) PROVE NilOnceInv'
  <2> DEFINE k == tab[t].key
  <2>1. k \in Key /\ rts[k] = "nil" /\ rts' = [rts EXCEPT ![k] = "oc"] /\ page' = page
    BY <1>2, <1>5 DEF StartRevtr
  <2>2. \A u \in Admitted' : u \in Tab /\ tab'[u].key = tab[u].key /\ (u \in Admitted \/ u = t)
    BY <1>1, <1>5 DEF StartRevtr, Move, Admitted, TabTypes, TabRecords
  <2>3. page[k] = "served"
    BY <2>1 DEF NilOnceInv
  <2> QED
    BY <1>1, <2>1, <2>2, <2>3 DEF NilOnceInv, RunTypes
<1>6. ASSUME NEW k \in Key, RunRevtr(k) PROVE NilOnceInv'
  <2>1. /\ page[k] = "added" /\ page' = [page EXCEPT ![k] = "served"]
        /\ rts' = [rts EXCEPT ![k] = "nil"] /\ Admitted' = Admitted /\ tab' = tab
    BY <1>6 DEF RunRevtr, Admitted
  <2>2. \A t \in Admitted : tab[t].key # k
    BY <2>1 DEF NilOnceInv
  <2> QED
    BY <1>1, <1>2, <1>3, <2>1, <2>2 DEF NilOnceInv, RunTypes
<1>7. ASSUME NEW k \in Key, AddRevtr(k) \/ AddRevtrFails(k)
      PROVE  /\ \A i \in Key : /\ page[i] = "served" => page'[i] = "served"
                               /\ rts'[i] = rts[i] \/ rts'[i] = "absent"
             /\ ~\E t \in Tab : StartRevtr(t)
  BY <1>1, <1>7 DEF AddRevtr, AddRevtrFails, StartRevtr, RunTypes
<1>8. ASSUME NEW t \in Tab, Complete(t)
      PROVE  \A i \in Key : /\ page[i] = "served" => page'[i] = "served"
                            /\ rts'[i] = rts[i] \/ rts'[i] = "absent"
  BY <1>1, <1>8 DEF Complete, RunTypes
<1>9. ASSUME ~\E k \in Key : RunRevtr(k) \/ AddRevtr(k) \/ AddRevtrFails(k),
             ~\E t \in Tab : StartRevtr(t) \/ Complete(t)
      PROVE  UNCHANGED <<page, rts>>
  BY <1>9 DEF Next, Page, Handler, Monitor, Engine, OpenWS, InvalidKey, JoinRevtr, Register,
              Receive, MonitorEnds, Deliver, CheckRunning, RunEngine, EnginePrints, EngineEnds,
              EnginePanics, FinishRun, StoreRun, webVars
<1>10. CASE \E t \in Tab : StartRevtr(t)
  BY <1>5, <1>10
<1>11. CASE ~\E t \in Tab : StartRevtr(t)
  BY <1>4, <1>6, <1>7, <1>8, <1>9, <1>11
<1> QED
  BY <1>10, <1>11

\* No step starts a run a second time, or closes the channel of a run that its
\* goroutine has not finished.
LEMMA OneEngineStep == WebTypes /\ NilOnceInv /\ OneEngineInv /\ [Next]_webVars => OneEngineInv'
<1> SUFFICES ASSUME WebTypes, NilOnceInv, OneEngineInv, [Next]_webVars PROVE OneEngineInv'
  OBVIOUS
<1>1. TabTypes /\ RunTypes /\ \A t \in Tab : tab[t].key \in Key
  BY DEF WebTypes, TabTypes, TabRecords
<1>2. \A t \in Tab : engine[t] # "none" => t \in Admitted' /\ tab'[t].key = tab[t].key
  BY <1>1, AdmittedStep DEF OneEngineInv
<1>3. ASSUME UNCHANGED <<engine, closed>> PROVE OneEngineInv'
  BY <1>2, <1>3 DEF OneEngineInv
<1>4. ASSUME NEW t \in Tab, engine[t] # "none",
             NEW pc \in {"starting", "running", "done", "store", "ended"},
             engine' = [engine EXCEPT ![t] = pc],
             engine[t] \in {"store", "ended"} => pc \in {"store", "ended"},
             closed' = closed \/ (pc = "store" /\ closed' = [closed EXCEPT ![tab[t].key] = TRUE])
      PROVE  OneEngineInv'
  <2>1. \A u \in Tab : /\ engine'[u] # "none" <=> engine[u] # "none"
                       /\ engine[u] \in {"store", "ended"} => engine'[u] \in {"store", "ended"}
                       /\ engine'[t] = pc
    BY <1>1, <1>4 DEF RunTypes
  <2>2. \A t1, u \in Tab : engine'[t1] # "none" /\ engine'[u] # "none" /\ tab'[t1].key = tab'[u].key => t1 = u
    BY <1>2, <2>1 DEF OneEngineInv
  <2>3. ASSUME NEW k \in Key, closed'[k]
        PROVE  \E u \in Tab : tab'[u].key = k /\ engine'[u] \in {"store", "ended"}
    <3>1. CASE closed[k]
      <4>1. PICK u \in Tab : tab[u].key = k /\ engine[u] \in {"store", "ended"}
        BY <3>1 DEF OneEngineInv
      <4> QED
        BY <1>2, <2>1, <4>1
    <3>2. CASE ~closed[k]
      <4>1. pc = "store" /\ k = tab[t].key
        BY <1>1, <1>4, <2>3, <3>2 DEF RunTypes
      <4> QED
        BY <1>2, <1>4, <2>1, <4>1
    <3> QED
      BY <3>1, <3>2
  <2> QED
    BY <1>2, <2>1, <2>2, <2>3 DEF OneEngineInv
<1>5. ASSUME NEW t \in Tab, Engine(t) PROVE OneEngineInv'
  <2>1. CASE CheckRunning(t)
    BY <1>4, <2>1 DEF CheckRunning, Step
  <2>2. CASE RunEngine(t)
    BY <1>4, <2>2 DEF RunEngine, Step
  <2>3. CASE EngineEnds(t)
    BY <1>4, <2>3 DEF EngineEnds, Step
  <2>4. CASE FinishRun(t)
    BY <1>4, <2>4 DEF FinishRun, Step
  <2>5. CASE StoreRun(t)
    BY <1>4, <2>5 DEF StoreRun, Step
  <2>6. CASE EnginePrints(t) \/ EnginePanics(t)
    BY <1>3, <2>6 DEF EnginePrints, EnginePanics
  <2> QED
    BY <1>5, <2>1, <2>2, <2>3, <2>4, <2>5, <2>6 DEF Engine
<1>6. ASSUME NEW t \in Tab, StartRevtr(t) PROVE OneEngineInv'
  <2>1. CASE engine' = engine
    BY <1>3, <1>6, <2>1 DEF StartRevtr
  <2>2. CASE engine' = [engine EXCEPT ![t] = "spawned"]
    <3>1. /\ rts[tab[t].key] = "nil" /\ closed' = closed /\ t \in Admitted'
          /\ tab'[t].key = tab[t].key
      BY <1>1, <1>6 DEF StartRevtr, Move, Admitted, TabTypes, TabRecords
    <3>2. \A u \in Tab : engine[u] # "none" => tab[u].key # tab[t].key
      BY <1>1, <3>1 DEF NilOnceInv, OneEngineInv
    <3>3. \A u \in Tab : u # t => engine'[u] = engine[u]
      BY <1>1, <2>2 DEF RunTypes
    <3>4. \A u \in Tab : engine[u] # "none" => u # t
      BY <3>2
    <3> QED
      BY <1>2, <3>1, <3>2, <3>3, <3>4 DEF OneEngineInv
  <2> QED
    BY <1>6, <2>1, <2>2 DEF StartRevtr
<1>7. ASSUME NEW k \in Key, Page(k) PROVE OneEngineInv'
  BY <1>3, <1>7 DEF Page, AddRevtr, AddRevtrFails, RunRevtr
<1>8. ASSUME NEW t \in Tab,
             \/ InvalidKey(t) \/ JoinRevtr(t) \/ Register(t) \/ Monitor(t)
             \/ \E k \in Key : OpenWS(t, k)
      PROVE  OneEngineInv'
  BY <1>3, <1>8 DEF OpenWS, InvalidKey, JoinRevtr, Register, Monitor, Receive, MonitorEnds,
                    Deliver, Complete
<1>9. CASE UNCHANGED webVars
  BY <1>3, <1>9 DEF webVars
<1> QED
  BY <1>5, <1>6, <1>7, <1>8, <1>9 DEF Next, Handler

\* A key is started by one tab at most.
THEOREM StartInvariance == Spec => []StartInv
<1>1. Init => StartInv
  <2> SUFFICES ASSUME Init PROVE StartInv
    OBVIOUS
  <2>1. TabTypes
    BY DEF Init, TabTypes, TabRecords, OutputChans, NewOutputChan
  <2>2. RunTypes /\ ChanTypes
    BY DEF Init, RunTypes, ChanTypes
  <2>3. Admitted = {}
    BY DEF Init, Admitted
  <2>4. NilOnceInv /\ OneEngineInv
    BY <2>3 DEF Init, NilOnceInv, OneEngineInv
  <2> QED
    BY <2>1, <2>2, <2>4 DEF StartInv, WebTypes
<1>2. StartInv /\ [Next]_webVars => StartInv'
  BY WebTypesStep, NilOnceStep, OneEngineStep DEF StartInv
<1> QED
  BY <1>1, <1>2, PTL DEF Spec

\* Nobody prints into, or closes, the channel of a run that has been closed: a
\* run is not measured twice, although StartRevtr looks into rs.running without
\* the lock.
THEOREM ChannelsDoNotPanic == Spec => []NoChannelPanic
<1>1. StartInv => NoChannelPanic
  BY DEF StartInv, WebTypes, TabTypes, TabRecords, OneEngineInv, NoChannelPanic
<1> QED
  BY <1>1, StartInvariance, PTL

-----------------------------------------------------------------------------
(* What the tabs show.                                                     *)

WatchPcs == {"receive", "deliver", "complete", "ended"}

\* The end of a channel is the last status it had room for.  Without a watcher
\* nothing has been taken from it; one that watches alone has just taken, or
\* has delivered, what it took last, and shows what was delivered last.
ShowInv ==
  /\ \A k \in Key : oc[k].funcs \subseteq Watchers(k)
  /\ \A k \in Key : chan[k] # <<>> => chan[k][Len(chan[k])] = accepted[k]
  /\ \A k \in Key : Watchers(k) = {} => oc[k].last = 0 /\ (chan[k] = <<>> => accepted[k] = 0)
  /\ \A k \in Key, w \in Tab : Watchers(k) = {w} /\ chan[k] = <<>> =>
       accepted[k] = IF tab[w].pc = "deliver" THEN tab[w].got ELSE oc[k].last
  /\ \A k \in Key, w \in Tab : Watchers(k) = {w} /\ w \in oc[k].funcs => tab[w].shown = oc[k].last
  /\ \A t \in Tab : tab[t].pc \notin WatchPcs => tab[t].shown = 0

LEMMA SameWatchers ==
  ASSUME \A u \in Tab : /\ tab'[u].pc \in WatchPcs <=> tab[u].pc \in WatchPcs
                        /\ tab[u].pc \in WatchPcs => tab'[u].key = tab[u].key
  PROVE  \A k : Watchers(k)' = Watchers(k)
  BY DEF Watchers, WatchPcs

\* A step that neither takes, delivers nor prints a status, nor brings a tab
\* that watches.
LEMMA QuietStep ==
  ASSUME ShowInv, UNCHANGED <<chan, accepted>>,
         \A k \in Key : oc'[k].funcs = oc[k].funcs /\ oc'[k].last = oc[k].last,
         \A u \in Tab : /\ tab'[u].pc \in WatchPcs <=> tab[u].pc \in WatchPcs
                        /\ tab[u].pc \in WatchPcs => tab'[u].key = tab[u].key
                        /\ tab'[u].pc = "deliver" <=> tab[u].pc = "deliver"
                        /\ tab'[u].got = tab[u].got /\ tab'[u].shown = tab[u].shown
  PROVE  ShowInv'
<1>1. \A k : Watchers(k)' = Watchers(k)
  BY SameWatchers
<1>2. chan' = chan /\ accepted' = accepted
  OBVIOUS
<1> QED
  BY <1>1, <1>2 DEF ShowInv

\* A status is printed: it is the last of the channel, or lost.
LEMMA PrintStep ==
  ASSUME WebTypes, ShowInv, NEW k \in Key, NEW s \in Nat, PrintStatus(k, s), UNCHANGED <<oc, tab>>
  PROVE  ShowInv'
<1>1. \A i : Watchers(i)' = Watchers(i)
  BY SameWatchers
<1>2. chan[k] \in Seq(Nat)
  BY DEF WebTypes, ChanTypes
<1>3. CASE chan' = chan /\ accepted' = accepted
  BY <1>1, <1>3 DEF ShowInv
<1>4. CASE chan' = [chan EXCEPT ![k] = Append(@, s)] /\ accepted' = [accepted EXCEPT ![k] = s]
  <2>1. \A i \in Key : i # k => chan'[i] = chan[i] /\ accepted'[i] = accepted[i]
    BY <1>4 DEF WebTypes, ChanTypes
  <2>2. chan'[k] = Append(chan[k], s) /\ accepted'[k] = s
    BY <1>4 DEF WebTypes, ChanTypes
  <2>3. chan'[k] # <<>> /\ chan'[k][Len(chan'[k])] = s
    BY <1>2, <2>2
  <2> QED
    BY <1>1, <2>1, <2>2, <2>3 DEF ShowInv
<1> QED
  BY <1>3, <1>4 DEF PrintStatus

\* A tab begins to watch.  It shows the last status delivered, and if it is the
\* first there is none.
LEMMA RegisterStep ==
  WebTypes /\ ShowInv /\ (\E t \in Tab : Register(t)) => ShowInv'
<1> SUFFICES ASSUME WebTypes, ShowInv, NEW t \in Tab, Register(t), NEW k \in Key, k = tab[t].key,
                    NEW tabs, tabs = oc[k].funcs \union {t}
             PROVE  ShowInv'
  BY DEF WebTypes, TabTypes, TabRecords
<1>1. PICK broken \in SUBSET (IF oc[k].last = 0 THEN {} ELSE tabs) :
        /\ oc' = [oc EXCEPT ![k].funcs = tabs \ broken]
        /\ tab' = [(IF oc[k].last = 0 THEN tab ELSE Show(tabs \ broken, oc[k].last))
                     EXCEPT ![t].pc = "receive"]
  BY DEF Register
<1>2. tab[t].pc = "register" /\ UNCHANGED <<chan, accepted>>
  BY DEF Register
<1>3. /\ oc'[k].funcs = tabs \ broken /\ oc'[k].last = oc[k].last
      /\ \A i \in Key : i # k => oc'[i] = oc[i]
  BY <1>1, <1>2 DEF WebTypes, TabTypes, OutputChans
<1>4. \A u \in Tab : /\ tab'[u].key = tab[u].key /\ tab'[u].got = tab[u].got
                     /\ tab'[u].pc = IF u = t THEN "receive" ELSE tab[u].pc
                     /\ tab'[u].shown = IF oc[k].last # 0 /\ u \in tabs \ broken
                                        THEN oc[k].last ELSE tab[u].shown
  BY <1>1 DEF Show, WebTypes, TabTypes, TabRecords
<1>5. /\ t \notin Watchers(k) /\ Watchers(k)' = Watchers(k) \union {t}
      /\ \A i \in Key : i # k => Watchers(i)' = Watchers(i) /\ t \notin Watchers(i)
  BY <1>2, <1>4 DEF Watchers
<1>6. \A i \in Key : oc[i].funcs \subseteq Watchers(i)
  BY DEF ShowInv
<1>7. \A i \in Key, u \in Tab : i # k /\ u \in Watchers(i) => u \notin tabs /\ u # t
  <2>1. \A u \in tabs : tab[u].key = k
    BY <1>2, <1>6 DEF Watchers
  <2>2. \A i \in Key : \A u \in Watchers(i) : tab[u].key = i
    BY DEF Watchers
  <2> QED
    BY <1>5, <2>1, <2>2
<1>8. ASSUME NEW w \in Tab, Watchers(k)' = {w}
      PROVE  /\ w = t /\ Watchers(k) = {} /\ oc[k].last = 0 /\ tab'[t].shown = 0
             /\ chan[k] = <<>> => accepted[k] = 0
  <2>1. w = t /\ Watchers(k) = {}
    BY <1>5, <1>8
  <2>2. oc[k].last = 0 /\ (chan[k] = <<>> => accepted[k] = 0)
    BY <1>2, <2>1 DEF ShowInv
  <2>3. tab[t].shown = 0
    BY <1>2 DEF ShowInv, WatchPcs
  <2> QED
    BY <1>4, <2>1, <2>2, <2>3
<1>9. ASSUME NEW u \in Tab, tab'[u].pc \notin WatchPcs PROVE tab'[u].shown = 0
  <2>1. u # t /\ tab'[u].pc = tab[u].pc /\ tab[u].shown = 0
    BY <1>4, <1>9 DEF ShowInv, WatchPcs
  <2>2. u \notin tabs
    BY <1>2, <1>6, <1>9, <2>1 DEF Watchers, WatchPcs
  <2> QED
    BY <1>4, <2>1, <2>2
<1>10. ASSUME NEW i \in Key
       PROVE  /\ oc'[i].funcs \subseteq Watchers(i)'
              /\ Watchers(i)' = {} => Watchers(i) = {} /\ oc'[i].last = oc[i].last
  <2>1. CASE i = k
    <3>1. Watchers(i)' = Watchers(k) \union {t}
      BY <1>5, <2>1
    <3> QED
      BY <1>3, <1>6, <2>1, <3>1
  <2>2. CASE i # k
    <3>1. oc'[i] = oc[i] /\ Watchers(i)' = Watchers(i)
      BY <1>3, <1>5, <2>2
    <3> QED
      BY <1>6, <3>1
  <2> QED
    BY <2>1, <2>2
<1>11. chan' = chan /\ accepted' = accepted
  BY <1>2
<1>12. ASSUME NEW i \in Key, NEW w \in Tab, Watchers(i)' = {w}
       PROVE  /\ chan[i] = <<>> => accepted[i] = IF tab'[w].pc = "deliver" THEN tab'[w].got ELSE oc'[i].last
              /\ w \in oc'[i].funcs => tab'[w].shown = oc'[i].last
  <2>1. CASE i = k
    <3>1. /\ w = t /\ oc[k].last = 0 /\ tab'[t].shown = 0 /\ (chan[k] = <<>> => accepted[k] = 0)
      BY <1>8, <1>12, <2>1
    <3>2. tab'[t].pc # "deliver" /\ oc'[k].last = 0
      BY <1>3, <1>4, <3>1
    <3> QED
      BY <2>1, <3>1, <3>2
  <2>2. CASE i # k
    <3>1. Watchers(i) = {w} /\ oc'[i] = oc[i] /\ tab'[w].pc = tab[w].pc
          /\ tab'[w].got = tab[w].got /\ tab'[w].shown = tab[w].shown
      BY <1>3, <1>4, <1>5, <1>7, <1>12, <2>2
    <3> QED
      BY <3>1 DEF ShowInv
  <2> QED
    BY <2>1, <2>2
<1> QED
  BY <1>9, <1>10, <1>11, <1>12 DEF ShowInv

\* A tab takes the next status: if it is the last there is, it is the last the
\* channel had room for.
LEMMA ReceiveStep ==
  ASSUME WebTypes, ShowInv, NEW t \in Tab, Receive(t) PROVE ShowInv'
<1> SUFFICES ASSUME NEW k \in Key, k = tab[t].key PROVE ShowInv'
  BY DEF WebTypes, TabTypes, TabRecords
<1>1. /\ tab[t].pc = "receive" /\ chan[k] # <<>> /\ chan[k] \in Seq(Nat)
      /\ chan' = [chan EXCEPT ![k] = Tail(@)]
      /\ UNCHANGED <<oc, accepted>>
  BY DEF Receive, WebTypes, ChanTypes
<1>2. \A u \in Tab : /\ tab'[u].key = tab[u].key /\ tab'[u].shown = tab[u].shown
                     /\ tab'[u].pc = IF u = t THEN "deliver" ELSE tab[u].pc
                     /\ tab'[u].got = IF u = t THEN Head(chan[k]) ELSE tab[u].got
  BY DEF Receive, WebTypes, TabTypes, TabRecords
<1>3. \A i : Watchers(i)' = Watchers(i)
  BY <1>1, <1>2, SameWatchers DEF WatchPcs
<1>4. chan'[k] = Tail(chan[k]) /\ \A i \in Key : i # k => chan'[i] = chan[i]
  BY <1>1 DEF WebTypes, ChanTypes
<1>5. t \in Watchers(k) /\ \A i \in Key : i # k => t \notin Watchers(i)
  BY <1>1 DEF Watchers
<1>6. chan'[k] # <<>> => chan'[k][Len(chan'[k])] = accepted[k]
  <2>1. ASSUME NEW s \in Seq(Nat), s # <<>>, Tail(s) # <<>> PROVE Tail(s)[Len(Tail(s))] = s[Len(s)]
    <3>1. Len(Tail(s)) = Len(s) - 1 /\ Tail(s) \in Seq(Nat) /\ Len(s) \in Nat
      BY <2>1
    <3>2. Len(Tail(s)) # 0
      BY <2>1, <3>1
    <3>3. Tail(s)[Len(Tail(s))] = s[Len(Tail(s)) + 1]
      BY <2>1, <3>1, <3>2
    <3>4. Len(Tail(s)) + 1 = Len(s)
      BY <3>1
    <3> QED
      BY <3>3, <3>4
  <2> QED
    BY <1>1, <1>4, <2>1 DEF ShowInv
<1>7. chan'[k] = <<>> => Head(chan[k]) = accepted[k]
  <2>1. ASSUME NEW s \in Seq(Nat), s # <<>>, Tail(s) = <<>> PROVE Head(s) = s[Len(s)]
    <3>1. s \in Seq(Nat) /\ s # <<>> => Len(Tail(s)) = Len(s) - 1
      OBVIOUS
    <3>2. Len(Tail(s)) = 0
      <4>1. Len(<<>>) = 0
        OBVIOUS
      <4> QED
        BY <2>1, <4>1, Zenon
    <3>3. Len(s) \in Nat /\ (Len(s) = 1 => Head(s) = s[Len(s)])
      BY <2>1
    <3> QED
      BY <2>1, <3>1, <3>2, <3>3
  <2> QED
    BY <1>1, <1>4, <2>1 DEF ShowInv
<1>8. ASSUME NEW i \in Key, NEW w \in Tab, Watchers(i) = {w}, chan'[i] = <<>>
      PROVE  accepted[i] = IF tab'[w].pc = "deliver" THEN tab'[w].got ELSE oc[i].last
  <2>1. CASE i = k
    <3>1. w = t
      BY <1>5, <1>8, <2>1
    <3> QED
      BY <1>2, <1>7, <1>8, <2>1, <3>1
  <2>2. CASE i # k
    <3>1. w # t /\ chan[i] = <<>>
      BY <1>4, <1>5, <1>8, <2>2
    <3> QED
      BY <1>2, <1>8, <3>1 DEF ShowInv
  <2> QED
    BY <2>1, <2>2
<1>9. ASSUME NEW i \in Key, Watchers(i) = {} PROVE chan'[i] = chan[i]
  BY <1>4, <1>5, <1>9
<1>10. \A i \in Key : chan'[i] # <<>> => chan'[i][Len(chan'[i])] = accepted[i]
  BY <1>4, <1>6 DEF ShowInv
<1>11. \A u \in Tab : tab'[u].pc \notin WatchPcs => tab'[u].shown = 0
  BY <1>1, <1>2 DEF ShowInv, WatchPcs
<1>12. oc' = oc /\ accepted' = accepted
  BY <1>1
<1> QED
  BY <1>2, <1>3, <1>8, <1>9, <1>10, <1>11, <1>12 DEF ShowInv

\* A tab hands a status on: all who are still on the list show it.
LEMMA DeliverStep ==
  ASSUME WebTypes, ShowInv, NEW t \in Tab, Deliver(t) PROVE ShowInv'
<1> SUFFICES ASSUME NEW k \in Key, k = tab[t].key PROVE ShowInv'
  BY DEF WebTypes, TabTypes, TabRecords
<1>1. PICK broken \in SUBSET oc[k].funcs :
        /\ tab' = [Show(oc[k].funcs \ broken, tab[t].got)
                     EXCEPT ![t].pc = IF oc[k].completed THEN "receive" ELSE "complete"]
        /\ oc' = [oc EXCEPT ![k] = [mu |-> IF @.completed THEN Free ELSE t,
                                    funcs |-> @.funcs \ broken,
                                    last |-> tab[t].got,
                                    completed |-> TRUE]]
  BY DEF Deliver
<1> SUFFICES ASSUME NEW tabs, tabs = oc[k].funcs \ broken PROVE ShowInv'
  OBVIOUS
<1>2. tab[t].pc = "deliver" /\ chan' = chan /\ accepted' = accepted
  BY DEF Deliver
<1>3. /\ oc'[k].funcs = tabs /\ oc'[k].last = tab[t].got
      /\ \A i \in Key : i # k => oc'[i] = oc[i]
  BY <1>1 DEF WebTypes, TabTypes, OutputChans
<1>4. \A u \in Tab : /\ tab'[u].key = tab[u].key /\ tab'[u].got = tab[u].got
                     /\ IF u = t THEN tab'[u].pc \in {"receive", "complete"}
                                 ELSE tab'[u].pc = tab[u].pc
                     /\ tab'[u].shown = IF u \in tabs THEN tab[t].got ELSE tab[u].shown
  BY <1>1 DEF Show, WebTypes, TabTypes, TabRecords
<1>5. \A i : Watchers(i)' = Watchers(i)
  BY <1>2, <1>4, SameWatchers DEF WatchPcs
<1>6. /\ t \in Watchers(k) /\ tabs \subseteq Watchers(k)
      /\ \A i \in Key : i # k => Watchers(i) \intersect Watchers(k) = {}
  BY <1>2 DEF Watchers, ShowInv
<1>7. ASSUME NEW i \in Key, NEW w \in Tab, Watchers(i) = {w}
      PROVE  /\ chan[i] = <<>> => accepted[i] = IF tab'[w].pc = "deliver" THEN tab'[w].got
                                                                          ELSE oc'[i].last
             /\ w \in oc'[i].funcs => tab'[w].shown = oc'[i].last
  <2>1. CASE i = k
    <3>1. w = t
      BY <1>6, <1>7, <2>1
    <3>2. chan[k] = <<>> => accepted[k] = tab[t].got
      BY <1>2, <1>7, <2>1, <3>1 DEF ShowInv
    <3> QED
      BY <1>3, <1>4, <2>1, <3>1, <3>2
  <2>2. CASE i # k
    <3>1. w # t /\ w \notin tabs /\ oc'[i] = oc[i]
      BY <1>3, <1>6, <1>7, <2>2
    <3> QED
      BY <1>4, <1>7, <3>1 DEF ShowInv
  <2> QED
    BY <2>1, <2>2
<1>8. \A i \in Key : /\ oc'[i].funcs \subseteq Watchers(i)
                     /\ Watchers(i) = {} => oc'[i] = oc[i]
  BY <1>3, <1>6 DEF ShowInv
<1>9. ASSUME NEW u \in Tab, tab'[u].pc \notin WatchPcs PROVE tab'[u].shown = 0
  <2>1. tab[u].pc \notin WatchPcs
    BY <1>2, <1>4, <1>9 DEF WatchPcs
  <2>2. u \notin tabs /\ tab[u].shown = 0
    BY <1>6, <2>1 DEF Watchers, WatchPcs, ShowInv
  <2> QED
    BY <1>4, <2>2
<1> QED
  BY <1>2, <1>5, <1>7, <1>8, <1>9 DEF ShowInv

\* Nobody has been admitted before the run is started, and the list is empty.
LEMMA StartStep ==
  ASSUME WebTypes, NilOnceInv, ShowInv, NEW t \in Tab, StartRevtr(t) PROVE ShowInv'
<1> SUFFICES ASSUME NEW k \in Key, k = tab[t].key PROVE ShowInv'
  BY DEF WebTypes, TabTypes, TabRecords
<1>1. /\ tab[t].pc = "lookup" /\ rts[k] = "nil" /\ UNCHANGED <<chan, accepted>>
      /\ oc' = [oc EXCEPT ![k] = NewOutputChan] /\ tab' = [tab EXCEPT ![t].pc = "register"]
  BY DEF StartRevtr, Move
<1>2. Watchers(k) = {}
  BY <1>1 DEF Watchers, NilOnceInv, Admitted
<1>3. oc[k].funcs = {} /\ oc[k].last = 0
  BY <1>2 DEF ShowInv
<1>4. \A i \in Key : oc'[i].funcs = oc[i].funcs /\ oc'[i].last = oc[i].last
  BY <1>1, <1>3 DEF NewOutputChan, WebTypes, TabTypes
<1>5. \A u \in Tab : /\ tab'[u].pc \in WatchPcs <=> tab[u].pc \in WatchPcs
                     /\ tab[u].pc \in WatchPcs => tab'[u].key = tab[u].key
                     /\ tab'[u].pc = "deliver" <=> tab[u].pc = "deliver"
                     /\ tab'[u].got = tab[u].got /\ tab'[u].shown = tab[u].shown
  BY <1>1 DEF WebTypes, TabTypes, TabRecords, WatchPcs
<1> QED
  BY <1>1, <1>4, <1>5, QuietStep

LEMMA ShowStep == WebTypes /\ NilOnceInv /\ ShowInv /\ [Next]_webVars => ShowInv'
<1> SUFFICES ASSUME WebTypes, NilOnceInv, ShowInv, [Next]_webVars PROVE ShowInv'
  OBVIOUS
<1>1. ASSUME UNCHANGED <<oc, tab, chan, accepted>> PROVE ShowInv'
  BY <1>1, QuietStep
<1>2. ASSUME UNCHANGED <<oc, chan, accepted>>, NEW t \in Tab,
             \/ InvalidKey(t) \/ JoinRevtr(t) \/ MonitorEnds(t)
             \/ \E k \in Key : OpenWS(t, k)
      PROVE  ShowInv'
  <2>1. \A u \in Tab : /\ tab'[u].pc \in WatchPcs <=> tab[u].pc \in WatchPcs
                       /\ tab[u].pc \in WatchPcs => tab'[u].key = tab[u].key
                       /\ tab'[u].pc = "deliver" <=> tab[u].pc = "deliver"
                       /\ tab'[u].got = tab[u].got /\ tab'[u].shown = tab[u].shown
    <3> USE DEF WatchPcs, WebTypes, TabTypes, TabRecords
    <3>1. CASE InvalidKey(t) \/ JoinRevtr(t)
      BY <3>1 DEF InvalidKey, JoinRevtr, Move
    <3>2. CASE MonitorEnds(t)
      BY <3>2 DEF MonitorEnds, Move
    <3>3. CASE \E k \in Key : OpenWS(t, k)
      BY <3>3 DEF OpenWS
    <3> QED
      BY <1>2, <3>1, <3>2, <3>3
  <2> QED
    BY <1>2, <2>1, QuietStep
<1>3. ASSUME NEW t \in Tab, Complete(t) PROVE ShowInv'
  <2>1. \A u \in Tab : /\ tab'[u].pc \in WatchPcs <=> tab[u].pc \in WatchPcs
                       /\ tab[u].pc \in WatchPcs => tab'[u].key = tab[u].key
                       /\ tab'[u].pc = "deliver" <=> tab[u].pc = "deliver"
                       /\ tab'[u].got = tab[u].got /\ tab'[u].shown = tab[u].shown
    BY <1>3 DEF Complete, Move, WatchPcs, WebTypes, TabTypes, TabRecords
  <2>2. \A i \in Key : oc'[i].funcs = oc[i].funcs /\ oc'[i].last = oc[i].last
    BY <1>3 DEF Complete, WebTypes, TabTypes, OutputChans
  <2> QED
    BY <1>3, <2>1, <2>2, QuietStep DEF Complete
<1>4. ASSUME NEW k \in Key, Page(k) PROVE ShowInv'
  <2>1. CASE AddRevtr(k)
    BY <2>1, PrintStep DEF AddRevtr
  <2>2. CASE AddRevtrFails(k) \/ RunRevtr(k)
    BY <1>1, <2>2 DEF AddRevtrFails, RunRevtr
  <2> QED
    BY <1>4, <2>1, <2>2 DEF Page
<1>5. ASSUME NEW t \in Tab, Engine(t) PROVE ShowInv'
  <2> SUFFICES ASSUME NEW k \in Key, k = tab[t].key PROVE ShowInv'
    BY DEF WebTypes, TabTypes, TabRecords
  <2>1. CASE EnginePrints(t)
    <3>1. printed[k] + 1 \in Nat
      BY DEF WebTypes, ChanTypes
    <3> QED
      BY <2>1, <3>1, PrintStep DEF EnginePrints
  <2>2. CASE EngineEnds(t)
    BY <2>2, PrintStep, WebAssumption DEF EngineEnds
  <2>3. CASE CheckRunning(t) \/ RunEngine(t) \/ EnginePanics(t) \/ FinishRun(t) \/ StoreRun(t)
    BY <1>1, <2>3 DEF CheckRunning, RunEngine, EnginePanics, FinishRun, StoreRun
  <2> QED
    BY <1>5, <2>1, <2>2, <2>3 DEF Engine
<1>6. ASSUME NEW t \in Tab, NEW k \in Key, OpenWS(t, k) PROVE ShowInv'
  BY <1>2, <1>6 DEF OpenWS
<1>7. ASSUME NEW t \in Tab, Handler(t) PROVE ShowInv'
  BY <1>2, <1>7, RegisterStep, StartStep DEF Handler, InvalidKey, JoinRevtr
<1>8. ASSUME NEW t \in Tab, Monitor(t) PROVE ShowInv'
  BY <1>2, <1>3, <1>8, ReceiveStep, DeliverStep DEF Monitor, MonitorEnds
<1>9. CASE UNCHANGED webVars
  BY <1>1, <1>9 DEF webVars
<1> QED
  BY <1>4, <1>5, <1>6, <1>7, <1>8, <1>9 DEF Next

\* When a run is over and its channel drained, a tab that has watched it alone
\* and whose connection held shows the last status the channel had room for.
THEOREM TabsShowTheLast == Spec => []ShowsTheLast
<1>1. Init => ShowInv
  BY DEF Init, NewOutputChan, ShowInv, Watchers, WatchPcs
<1>2. StartInv /\ ShowInv /\ [Next]_webVars => ShowInv'
  BY ShowStep DEF StartInv
<1>3. ShowInv => ShowsTheLast
  <2> SUFFICES ASSUME ShowInv, NEW k \in Key, NEW w \in Tab, chan[k] = <<>>, Watchers(k) = {w},
                      tab[w].pc # "deliver", NEW t \in oc[k].funcs
               PROVE  tab[t].shown = accepted[k]
    BY DEF ShowsTheLast
  <2>1. t = w
    BY DEF ShowInv
  <2> QED
    BY <2>1 DEF ShowInv
<1> QED
  BY <1>1, <1>2, <1>3, StartInvariance, PTL DEF Spec

===============================================================================
