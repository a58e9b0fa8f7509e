------------------------------ MODULE VPService ------------------------------
(***************************************************************************)
(* The vantage point service: its list of vantage points, their tests, and *)
(* their quarantines (vpservice/server/server.go, vpservice/httpapi/api.go *)
(* and the tables of vpservice/repo/repo.go).                              *)
(*                                                                         *)
(* Two goroutines and the requests of operators share the tables and no    *)
(* lock: checkCapabilitiesAndUpdate follows the list of the controller,    *)
(* tests vantage points and quarantines those that can do nothing;         *)
(* tryUnquarantine releases those that expired or are up again when their  *)
(* backoff has elapsed.  A node is an ip with its hostname; a vantage      *)
(* point is a node with a site.  Gauges are not modelled.                  *)
(***************************************************************************)
EXTENDS Integers, FiniteSets

CONSTANTS VP, Node, NodeOf, SiteOf, TestSize, None

ASSUME VPServiceAssumption ==
  /\ NodeOf \in [VP -> Node] /\ IsFiniteSet(VP) /\ TestSize \in Nat \ {0}
  /\ None \notin [type : {"default", "manual"}, attempt : Nat, over : BOOLEAN]

(* Lists of vantage points in which every node is once.                    *)
Lists == {S \in SUBSET VP : \A v, w \in S : NodeOf[v] = NodeOf[w] => v = w}

VARIABLES reported,  \* what the controller knows
          table,     \* vantage_points, a row for an ip
          canMeasure, \* nodes whose row has one of the five capabilities
          quar,      \* quarantined_vps: [Node -> row or None]
          balance,   \* events ADDED minus events REMOVED of a node
          check,     \* checkCapabilitiesAndUpdate: [pc, left, down]
          try        \* tryUnquarantine: [pc, up, release, backoff], where release
                     \* maps the nodes to release to the rows they were read with

vars == <<reported, table, canMeasure, quar, balance, check, try>>
idle == [pc |-> "idle", left |-> {}, down |-> {}]
noRows == [n \in {} |-> None]
asleep == [pc |-> "idle", up |-> {}, release |-> noRows, backoff |-> {}]

(* A row; time makes its backoff elapse, or a manual one expire.           *)
Row(type) == [type |-> type, attempt |-> 0, over |-> FALSE]

Init ==
  /\ reported \in Lists /\ table = {} /\ canMeasure = {}
  /\ quar = [n \in Node |-> None] /\ balance = [n \in Node |-> 0]
  /\ check = idle /\ try = asleep

Rows == {NodeOf[v] : v \in table}
Quarantined == {n \in Node : quar[n] # None}

-----------------------------------------------------------------------------
(* The tables.  Every statement of a group is one transaction.             *)

(* insert ignore: a node already in quarantine keeps its row.  An event is *)
(* added for the rows that are.                                            *)
QuarantineVPs(N, type) ==
  /\ quar' = [n \in Node |-> IF n \in N \ Quarantined THEN Row(type) ELSE quar[n]]
  /\ balance' = [n \in Node |-> IF n \in N \ Quarantined THEN balance[n] + 1 ELSE balance[n]]

(* Faulty variant: an event for every node, whether its row was there.     *)
UnquarantineAlways(N) ==
  /\ quar' = [n \in Node |-> IF n \in N THEN None ELSE quar[n]]
  /\ balance' = [n \in Node |-> IF n \in N THEN balance[n] - 1 ELSE balance[n]]

(* Rows are deleted by ip, whatever they now say.                          *)
UnquarantineVPs(N) ==
  /\ quar' = [n \in Node |-> IF n \in N THEN None ELSE quar[n]]
  /\ balance' = [n \in Node |-> IF n \in N \intersect Quarantined THEN balance[n] - 1
                                ELSE balance[n]]

(* update ... set quarantine = ? where ip = ?, with the ip and the row in  *)
(* this order: there is no ip that equals a row.                           *)
UpdateQuarantines(N) == UNCHANGED quar

(* UpdateActiveVPs.  A new row has no capabilities.  Vantage points are    *)
(* compared with their site, inserted before others are deleted, and the   *)
(* ip is the key: one that has changed its site is inserted twice, and the *)
(* transaction rolled back.                                                *)
Clash(list) == \E v \in list \ table, w \in table : NodeOf[v] = NodeOf[w]

(* Faulty variant: vantage points that have gone keep their rows.          *)
UpdateKeepsOld(list) ==
  /\ ~Clash(list)
  /\ table' = table \union list
  /\ UNCHANGED canMeasure

UpdateActiveVPs(list) ==
  /\ ~Clash(list)
  /\ table' = list
  /\ canMeasure' = canMeasure \intersect {NodeOf[v] : v \in list \intersect table}

-----------------------------------------------------------------------------
(* checkCapabilitiesAndUpdate, every five minutes.  Whatever fails, even   *)
(* the update, the round goes on to the tests, unless GetVps does.         *)

Update ==
  /\ check.pc = "idle"
  /\ check' = [check EXCEPT !.pc = "test"]
  /\ UpdateActiveVPs(reported)
  /\ UNCHANGED <<reported, quar, balance, try>>

UpdateFails ==
  /\ check.pc = "idle"
  /\ check' = [check EXCEPT !.pc = "test"]
  /\ UNCHANGED <<reported, table, canMeasure, quar, balance, try>>

(* checkCapabilities: some vantage points, those checked longest ago, ping *)
(* and trace those at other sites, and get the capabilities that worked.   *)
Tested(T, v) == \E w \in T : SiteOf[v] # SiteOf[w]

Test ==
  /\ check.pc = "test"
  /\ \E T \in SUBSET table, ok \in SUBSET table :
       /\ Cardinality(T) = TestSize \/ (Cardinality(T) < TestSize /\ T = table)
       /\ ok \subseteq {v \in T : Tested(T, v)}
       /\ check' = [pc |-> "save", left |-> {NodeOf[v] : v \in T},
                    down |-> {NodeOf[v] : v \in T \ ok}]
  /\ UNCHANGED <<reported, table, canMeasure, quar, balance, try>>

TestFails ==
  /\ check.pc = "test"
  /\ check' = idle
  /\ UNCHANGED <<reported, table, canMeasure, quar, balance, try>>

(* UpdateVP, a statement for each; it may fail.                            *)
Save ==
  /\ check.pc = "save"
  /\ \E n \in check.left :
       /\ check' = [check EXCEPT !.left = @ \ {n}]
       /\ canMeasure' \in {canMeasure, IF n \in check.down THEN canMeasure \ {n}
                                       ELSE canMeasure \union {n}}
  /\ UNCHANGED <<reported, table, quar, balance, try>>

(* Those that can do nothing are quarantined; the transaction may fail.    *)
QuarantineDown ==
  /\ check.pc = "save" /\ check.left = {}
  /\ check' = idle
  /\ QuarantineVPs(check.down, "default") \/ UNCHANGED <<quar, balance>>
  /\ UNCHANGED <<reported, table, canMeasure, try>>

-----------------------------------------------------------------------------
(* tryUnquarantine, every two minutes.  It decides on the rows it has read *)
(* and deletes those of the nodes it releases.                             *)

ReadVPs ==
  /\ try.pc = "idle"
  /\ try' = [try EXCEPT !.pc = "quarantined", !.up = canMeasure]
  /\ UNCHANGED <<reported, table, canMeasure, quar, balance, check>>

(* Faulty variant: a manual quarantine elapses like a default one, and its *)
(* backoff is the zero time.                                               *)
ElapsedLikeDefault(row) == row.over \/ row.type = "manual"

(* A manual quarantine never elapses, a default one never expires.         *)
Elapsed(row) == row.type # "manual" /\ row.over
Expired(row) == row.type = "manual" /\ row.over

(* Faulty variant: a row that has expired waits for its node to be up.     *)
ToReleaseUp == {n \in Quarantined : Elapsed(quar[n]) /\ n \notin try.up}

ToRelease == {n \in Quarantined : \/ Expired(quar[n])
                                  \/ Elapsed(quar[n]) /\ n \in try.up}

ReadQuarantined ==
  /\ try.pc = "quarantined"
  /\ try' = [pc |-> "release", up |-> {}, release |-> [n \in ToRelease |-> quar[n]],
             backoff |-> {n \in Quarantined : Elapsed(quar[n])} \ ToRelease]
  /\ UNCHANGED <<reported, table, canMeasure, quar, balance, check>>

ReadFails ==
  /\ try.pc = "quarantined"
  /\ try' = asleep
  /\ UNCHANGED <<reported, table, canMeasure, quar, balance, check>>

Release ==
  /\ try.pc = "release"
  /\ try' = [try EXCEPT !.pc = "backoff", !.release = noRows]
  /\ UnquarantineVPs(DOMAIN try.release)
  /\ UNCHANGED <<reported, table, canMeasure, check>>

ReleaseFails ==
  /\ try.pc = "release" /\ DOMAIN try.release # {}
  /\ try' = [try EXCEPT !.pc = "backoff", !.release = noRows]
  /\ UNCHANGED <<reported, table, canMeasure, quar, balance, check>>

StoreBackoff ==
  /\ try.pc = "backoff"
  /\ try' = asleep
  /\ UpdateQuarantines(try.backoff)
  /\ UNCHANGED <<reported, table, canMeasure, balance, check>>

-----------------------------------------------------------------------------
(* Operators quarantine, by hand or through an alert, and unquarantine.    *)

Quarantine(n, type) ==
  /\ QuarantineVPs({n}, type)
  /\ UNCHANGED <<reported, table, canMeasure, check, try>>

(* The request reads the rows first, but deletes by ip as well.            *)
Unquarantine(n) ==
  /\ UnquarantineVPs({n})
  /\ UNCHANGED <<reported, table, canMeasure, check, try>>

(* The controller learns of vantage points and forgets them; time passes.  *)

Report ==
  /\ reported' \in Lists
  /\ UNCHANGED <<table, canMeasure, quar, balance, check, try>>

TimePasses(n) ==
  /\ n \in Quarantined /\ ~quar[n].over
  /\ quar' = [quar EXCEPT ![n].over = TRUE]
  /\ UNCHANGED <<reported, table, canMeasure, balance, check, try>>

-----------------------------------------------------------------------------

Checking == Update \/ UpdateFails \/ Test \/ TestFails \/ Save \/ QuarantineDown
Trying == ReadVPs \/ ReadQuarantined \/ ReadFails \/ Release \/ ReleaseFails \/ StoreBackoff

Next == \/ Checking \/ Trying \/ Report
        \/ \E n \in Node : \/ TimePasses(n) \/ Unquarantine(n)
                           \/ \E type \in {"default", "manual"} : Quarantine(n, type)

Spec == Init /\ [][Next]_vars

(* Both goroutines tick for ever and statements do not fail every time.    *)
FairSpec == /\ Spec /\ WF_vars(Checking) /\ SF_vars(Update)
            /\ WF_vars(Trying) /\ SF_vars(ReadQuarantined) /\ SF_vars(Release)
            /\ \A n \in Node : WF_vars(TimePasses(n))

-----------------------------------------------------------------------------
(* The events record the table: a node has one more ADDED than REMOVED     *)
(* while it is in quarantine and as many of both when it is not, although  *)
(* three parties add and delete rows with what they read before.           *)
EventsMatch == \A n \in Node : balance[n] = IF n \in Quarantined THEN 1 ELSE 0

(* A manual quarantine ends when it has expired or an operator asks.  Only *)
(* a pass of tryUnquarantine that read an earlier quarantine of the node   *)
(* can end one before its time, because rows are deleted by ip.            *)
ManualStands ==
  [][\A n \in Node : (Release /\ n \in Quarantined /\ quar[n].type = "manual" /\ ~quar[n].over)
       => quar'[n] # None \/ try.release[n] # quar[n]]_vars

(* No quarantine outlasts its time for ever while the node is known to     *)
(* work: what is over and not renewed is seen and released.                *)
WorkingIsReleased ==
  \A n \in Node : ~<>[](/\ n \in Quarantined /\ n \in canMeasure)

(* While the controller reports the same list the table becomes that list, *)
(* and stays it, or a vantage point of it has moved to another site: from  *)
(* then on no list of vantage points is taken over.                        *)
TableFollows ==
  <>[][FALSE]_reported => <>[](table = reported \/ Clash(reported))

(* server.go: "Not up or not running, set the next backoff and update in   *)
(* db": rows whose backoff is over count one more attempt afterwards.      *)
BackoffIsStored ==
  [][StoreBackoff => \A n \in try.backoff :
       n \in Quarantined /\ Elapsed(quar[n]) => quar'[n].attempt = quar[n].attempt + 1]_vars
=============================================================================
