----------------------------- MODULE RevtrBatch -----------------------------
(***************************************************************************)
(* Batches of reverse traceroutes: RunRevtr and GetRevtr of                *)
(* revtr/server/server.go over the tables of revtr/repository/repo.go, for *)
(* one user.  Handlers run concurrently, each in a transaction of its own; *)
(* a goroutine per batch stores what the engine finishes; the process may  *)
(* die and come back, the tables stay.                                     *)
(*                                                                         *)
(* A transaction sees a snapshot of what was committed before it (InnoDB). *)
(* Requests refused before the database is written (unknown key, address   *)
(* of no vantage point, no service) change nothing and are left out.       *)
(***************************************************************************)
EXTENDS Naturals, FiniteSets, FiniteSetsExt

CONSTANTS Handler,    \* RunRevtr calls that may be in progress at one time
          UserMax,    \* users.max
          MaxRequest, \* most measurements in a request
          Polled,     \* batches a client asks for (the others are alike)
          MaxId,      \* bound: rows of reverse_traceroutes
          MaxCrashes  \* bound: times the process dies

ASSUME BatchAssumption == /\ UserMax \in Nat \ {0} /\ MaxRequest \in Nat \ {0}
                          /\ MaxId \in Nat \ {0} /\ MaxCrashes \in Nat
                          /\ IsFiniteSet(Handler)

Id == 1..MaxId
Batch == 1..MaxId       \* a batch has at least one row

VARIABLES row,      \* reverse_traceroutes with batch_revtr, hops and stats
          aged,     \* newest batch created more than users.delay minutes ago
          handler,  \* RunRevtr calls: [pc, n] and the verdict of the quota
          working,  \* ids whose result the goroutine of their batch waits for
          tx,       \* the id whose row a batch's goroutine has updated, not committed
          reader,   \* a GetRevtr call
          lost,     \* results that were never stored
          crashes

batchVars == <<row, aged, handler, working, tx, reader, lost, crashes>>

NoRow == [batch |-> 0, status |-> "none", path |-> FALSE]
Idle == [pc |-> "idle", n |-> 0]
NoTx == 0
NoReader == [todo |-> {}, status |-> <<>>, path |-> {}]

Init ==
  /\ row = [i \in Id |-> NoRow]
  /\ aged = 0
  /\ handler = [h \in Handler |-> Idle]
  /\ working = {}
  /\ tx = [b \in Batch |-> NoTx]
  /\ reader = NoReader
  /\ lost = {}
  /\ crashes = 0

Rows == {i \in Id : row[i].status # "none"}
InWindow == {i \in Rows : row[i].batch > aged}
Batches == {row[i].batch : i \in Rows}

-----------------------------------------------------------------------------
(* RunRevtr.  Only ErrCannotAddRevtrBatch is taken for a failure: when the *)
(* transaction cannot even begin, the caller gets batch 0 and no error.    *)

(* Faulty variant: the quota looks at each request by itself.              *)
CanAddTracesByItself(n) == n < UserMax

(* revtrCanAddTraces: the query has no row when the window is empty, and   *)
(* that counts as a yes, whatever the size of the request.                 *)
CanAddTraces(n) == InWindow = {} \/ Cardinality(InWindow) + n < UserMax

BeginBatch(h) ==
  /\ handler[h].pc = "idle"
  /\ \E n \in 1..MaxRequest :
       handler' = [handler EXCEPT ![h] = IF CanAddTraces(n) THEN [pc |-> "mayAdd", n |-> n]
                                                              ELSE Idle]
  /\ UNCHANGED <<row, aged, working, tx, reader, lost, crashes>>

(* The inserts and the commit; ids are given out in the order of commits,  *)
(* which only names them.                                                  *)
CreateRevtrBatch(h) ==
  LET first == Cardinality(Rows) + 1
      new == first..(first + handler[h].n - 1)
      b == Max(Batches \union {0}) + 1
  IN /\ handler[h].pc = "mayAdd" /\ new \subseteq Id
     /\ row' = [i \in Id |-> IF i \in new
                             THEN [batch |-> b, status |-> "RUNNING", path |-> FALSE]
                             ELSE row[i]]
     /\ working' = working \union new
     /\ handler' = [handler EXCEPT ![h] = Idle]
     /\ UNCHANGED <<aged, tx, reader, lost, crashes>>

CreateFails(h) ==
  /\ handler[h].pc = "mayAdd"
  /\ handler' = [handler EXCEPT ![h] = Idle]
  /\ UNCHANGED <<row, aged, working, tx, reader, lost, crashes>>

AgeBatch ==
  /\ aged + 1 \in Batches
  /\ aged' = aged + 1
  /\ UNCHANGED <<row, handler, working, tx, reader, lost, crashes>>

-----------------------------------------------------------------------------
(* The goroutine of a batch: one finished run at a time is stored, in one  *)
(* transaction: first the row, then what belongs to it (the path and the   *)
(* statistics, "path" for short).                                          *)

(* Faulty variant: the row is updated outside the transaction.             *)
UpdateRowAtOnce(b) ==
  /\ tx[b] = NoTx
  /\ \E i \in working : /\ row[i].batch = b
                        /\ tx' = [tx EXCEPT ![b] = i]
                        /\ working' = working \ {i}
                        /\ row' = [row EXCEPT ![i].status = "COMPLETED"]
  /\ UNCHANGED <<aged, handler, reader, lost, crashes>>

UpdateRow(b) ==
  /\ tx[b] = NoTx
  /\ \E i \in working : /\ row[i].batch = b
                        /\ tx' = [tx EXCEPT ![b] = i]
                        /\ working' = working \ {i}
  /\ UNCHANGED <<row, aged, handler, reader, lost, crashes>>

InsertAndCommit(b) ==
  /\ tx[b] # NoTx
  /\ row' = [row EXCEPT ![tx[b]] = [@ EXCEPT !.status = "COMPLETED", !.path = TRUE]]
  /\ tx' = [tx EXCEPT ![b] = NoTx]
  /\ UNCHANGED <<aged, handler, working, reader, lost, crashes>>

(* Faulty variant: the goroutine returns after an error, and the results   *)
(* still to come are received by nobody.                                   *)
RollbackAndQuit(b) ==
  /\ tx[b] # NoTx
  /\ lost' = lost \union {tx[b]}
  /\ working' = {i \in working : row[i].batch # b}
  /\ tx' = [tx EXCEPT ![b] = NoTx]
  /\ UNCHANGED <<row, aged, handler, reader, crashes>>

(* Any statement, or the commit, fails: the error is logged.               *)
Rollback(b) ==
  /\ tx[b] # NoTx
  /\ lost' = lost \union {tx[b]}
  /\ tx' = [tx EXCEPT ![b] = NoTx]
  /\ UNCHANGED <<row, aged, handler, working, reader, crashes>>

-----------------------------------------------------------------------------
(* GetRevtr: the statuses of a batch in one query, then for each of its    *)
(* rows the hops, if it was completed, and the statistics.                 *)

GetRevtr(b) ==
  /\ reader = NoReader /\ b \in Batches \intersect Polled
  /\ LET mine == {i \in Rows : row[i].batch = b}
     IN reader' = [NoReader EXCEPT !.todo = mine,
                     !.status = [i \in mine |-> row[i].status]]
  /\ UNCHANGED <<row, aged, handler, working, tx, lost, crashes>>

GetHops ==
  /\ reader.todo # {}
  /\ LET i == Min(reader.todo)
     IN reader' = [reader EXCEPT !.todo = @ \ {i},
                     !.path = @ \union {j \in {i} : reader.status[i] = "COMPLETED" /\ row[i].path}]
  /\ UNCHANGED <<row, aged, handler, working, tx, lost, crashes>>

Answered == reader # NoReader /\ reader.todo = {}

(* The answer is sent; or a query fails before (an error, or a panic of    *)
(* the deferred Close when it is the first one).                           *)
ReaderReturns ==
  /\ reader # NoReader
  /\ reader' = NoReader
  /\ UNCHANGED <<row, aged, handler, working, tx, lost, crashes>>

-----------------------------------------------------------------------------
(* The process dies and is started again: nothing looks for rows that were *)
(* being worked on.                                                        *)
CrashAndRestart ==
  /\ crashes < MaxCrashes
  /\ crashes' = crashes + 1
  /\ lost' = lost \union working \union ({tx[b] : b \in Batch} \ {NoTx})
  /\ working' = {}
  /\ tx' = [b \in Batch |-> NoTx]
  /\ handler' = [h \in Handler |-> Idle]
  /\ reader' = NoReader
  /\ UNCHANGED <<row, aged>>

Store(b) == UpdateRow(b) \/ InsertAndCommit(b) \/ Rollback(b)

Next == \/ \E h \in Handler : BeginBatch(h) \/ CreateRevtrBatch(h) \/ CreateFails(h)
        \/ \E b \in Batch : Store(b) \/ GetRevtr(b)
        \/ AgeBatch \/ GetHops \/ ReaderReturns \/ CrashAndRestart

Spec == Init /\ [][Next]_batchVars

(* The engine finishes every measurement (module Revtr) and a batch's      *)
(* goroutine is scheduled.                                                 *)
FairSpec == Spec /\ \A b \in Batch : WF_batchVars(Store(b))

-----------------------------------------------------------------------------
(* The measurements of calls that have been admitted: n of each.           *)
AdmittedMeas == {m \in Handler \X (1..MaxRequest) : m[2] <= handler[m[1]].n}

(* What the quota is worth: however requests overlap, the rows the user    *)
(* has in the window and those already admitted are never more than the    *)
(* larger of the quota and one request, and one request more for every     *)
(* other call in progress.                                                 *)
QuotaBound ==
  Cardinality(InWindow) + Cardinality(AdmittedMeas)
    <= Max({UserMax - 1, MaxRequest}) + (Cardinality(Handler) - 1) * MaxRequest

(* An answer never says that a reverse traceroute is completed without     *)
(* its path and statistics, although they are read by separate queries     *)
(* while results are being stored.                                         *)
AnswerIsWhole ==
  Answered => \A i \in DOMAIN reader.status : reader.status[i] = "COMPLETED" => i \in reader.path

(* What is accepted ends as COMPLETED, unless a crash or a failing store   *)
(* lost its result: then it says RUNNING for ever.                         *)
BatchEnds ==
  \A i \in Id : row[i].status = "RUNNING" ~> (row[i].status = "COMPLETED" \/ i \in lost)
=============================================================================
