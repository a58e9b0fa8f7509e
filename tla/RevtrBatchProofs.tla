--------------------------- MODULE RevtrBatchProofs ---------------------------
(***************************************************************************)
(* Proofs about RevtrBatch, for any number of concurrent calls, any quota, *)
(* any size of requests, any number of rows and any number of crashes.     *)
(***************************************************************************)
EXTENDS RevtrBatch, FiniteSetTheorems, TLAPS

RowRecords == [batch : Nat, status : {"none", "RUNNING", "COMPLETED"}, path : BOOLEAN]
Calls == [pc : {"idle", "mayAdd"}, n : 0..MaxRequest]

BatchTypes ==
  /\ row \in [Id -> RowRecords]
  /\ aged \in Nat
  /\ handler \in [Handler -> Calls]
  /\ tx \in [Batch -> Id \union {NoTx}]
  /\ reader = [todo |-> reader.todo, status |-> reader.status, path |-> reader.path]

\* Ids have no gaps, batches are numbered in the order of their rows, and what
\* is being measured or stored has a row.
RowsInv ==
  /\ Rows = 1..Cardinality(Rows)
  /\ \A i, j \in Rows : i <= j => row[i].batch <= row[j].batch
  /\ working \subseteq Rows
  /\ \A b \in Batch : tx[b] \in Rows \union {NoTx}

\* A completed row has its path; a row the reader has seen completed still is,
\* and its path has been read or is still to be.
WholeInv ==
  /\ \A i \in Id : row[i].status = "COMPLETED" => row[i].path
  /\ DOMAIN reader.status \subseteq Id
  /\ \A i \in DOMAIN reader.status : reader.status[i] = "COMPLETED" =>
       row[i].status = "COMPLETED" /\ (i \in reader.todo \/ i \in reader.path)

BatchInv == BatchTypes /\ RowsInv /\ WholeInv

-----------------------------------------------------------------------------
(* Finite sets                                                             *)

LEMMA IntervalSize ==
  ASSUME NEW n \in Nat
  PROVE  IsFiniteSet(1..n) /\ Cardinality(1..n) = n
<1>1. (1 > n => n = 0) /\ n - 1 + 1 = n
  OBVIOUS
<1> QED
  BY <1>1, FS_Interval

LEMMA RowsAreFinite == IsFiniteSet(Id) /\ IsFiniteSet(Rows) /\ IsFiniteSet(InWindow)
<1>1. IsFiniteSet(Id)
  BY BatchAssumption, IntervalSize DEF Id
<1>2. Rows \in SUBSET Id /\ InWindow \in SUBSET Id
  BY DEF Rows, InWindow
<1> QED
  BY <1>1, <1>2, FS_Subset

LEMMA MaxOf ==
  ASSUME NEW S, NEW m \in S, S \subseteq Nat, \A x \in S : x <= m
  PROVE  Max(S) = m
<1>1. \E x \in S : \A y \in S : x >= y
  <2>1. \A y \in S : m >= y
    OBVIOUS
  <2> QED
    BY <2>1
<1>2. Max(S) \in S /\ \A y \in S : Max(S) >= y
  BY <1>1 DEF Max
<1>3. Max(S) \in Nat /\ m \in Nat /\ Max(S) <= m /\ Max(S) >= m
  BY <1>2
<1> QED
  BY <1>3

\* The new batch has a number no row exceeds.
LEMMA NextBatch ==
  ASSUME BatchTypes, RowsInv
  PROVE  /\ Cardinality(Rows) \in Nat
         /\ Max(Batches \union {0}) \in Nat
         /\ \A i \in Rows : row[i].batch <= Max(Batches \union {0})
<1>1. Cardinality(Rows) \in Nat
  BY RowsAreFinite, FS_CardinalityType
<1>2. Rows \subseteq Id /\ \A i \in Rows : row[i].batch \in Nat
  BY DEF BatchTypes, RowRecords, Rows
<1>3. CASE Rows = {}
  <2>1. Batches \union {0} = {0}
    BY <1>3 DEF Batches
  <2>2. Max(Batches \union {0}) = 0
    BY <2>1, MaxOf
  <2> QED
    BY <1>1, <1>3, <2>2
<1>4. CASE Rows # {}
  <2> DEFINE last == Cardinality(Rows)
  <2>1. last \in Rows /\ \A i \in Rows : i <= last
    BY <1>1, <1>4 DEF RowsInv
  <2>2. \A i \in Rows : row[i].batch <= row[last].batch
    BY <2>1 DEF RowsInv
  <2>3. /\ row[last].batch \in Batches \union {0} /\ Batches \union {0} \subseteq Nat
        /\ \A x \in Batches \union {0} : x <= row[last].batch
    BY <1>2, <2>1, <2>2 DEF Batches
  <2>4. Max(Batches \union {0}) = row[last].batch
    BY <2>3, MaxOf
  <2> QED
    BY <1>1, <1>2, <2>1, <2>2, <2>4
<1> QED
  BY <1>3, <1>4

-----------------------------------------------------------------------------
(* Rows and answers                                                        *)

\* A step that leaves the rows alone and works on none that is not there.
LEMMA SameRows ==
  ASSUME RowsInv, UNCHANGED row, working' \subseteq working,
         \A b \in Batch : tx'[b] \in {tx[b], NoTx} \union working
  PROVE  RowsInv'
<1>1. Rows' = Rows
  BY DEF Rows
<1> QED
  BY <1>1 DEF RowsInv

LEMMA CreateStep ==
  ASSUME BatchInv, NEW h \in Handler, CreateRevtrBatch(h) PROVE BatchInv'
<1>1. PICK first, new, b :
        /\ first = Cardinality(Rows) + 1 /\ new = first..(first + handler[h].n - 1)
        /\ b = Max(Batches \union {0}) + 1 /\ new \subseteq Id
        /\ row' = [i \in Id |-> IF i \in new
                                THEN [batch |-> b, status |-> "RUNNING", path |-> FALSE]
                                ELSE row[i]]
        /\ working' = working \union new
        /\ handler' = [handler EXCEPT ![h] = Idle]
        /\ UNCHANGED <<aged, tx, reader>>
  BY DEF CreateRevtrBatch
<1> USE DEF BatchInv
<1>2. /\ first \in Nat /\ Cardinality(Rows) \in Nat /\ b \in Nat /\ handler[h].n \in Nat
      /\ \A i \in Rows : row[i].batch <= b /\ row[i].batch \in Nat
  <2>1. handler[h].n \in Nat /\ \A i \in Rows : row[i].batch \in Nat
    BY BatchAssumption DEF BatchTypes, Calls, Rows, RowRecords
  <2>2. BatchTypes /\ RowsInv
    OBVIOUS
  <2>3. /\ Cardinality(Rows) \in Nat /\ Max(Batches \union {0}) \in Nat
        /\ \A i \in Rows : row[i].batch <= Max(Batches \union {0})
    BY <2>2, NextBatch
  <2>4. first \in Nat /\ b \in Nat
    BY <1>1, <2>3
  <2>5. \A i \in Rows : row[i].batch <= b
    <3> SUFFICES ASSUME NEW i \in Rows PROVE row[i].batch <= b
      OBVIOUS
    <3>1. row[i].batch \in Nat /\ row[i].batch <= Max(Batches \union {0})
      BY <2>1, <2>3
    <3> QED
      BY <1>1, <2>3, <3>1
  <2> QED
    BY <2>1, <2>3, <2>4, <2>5
<1>3. Rows \subseteq Id /\ Rows = 1..Cardinality(Rows) /\ Rows \intersect new = {}
  <2>1. Rows \subseteq Id /\ Rows = 1..Cardinality(Rows)
    BY DEF RowsInv, Rows
  <2>2. \A i \in 1..Cardinality(Rows) : i < first
    BY <1>1, <1>2
  <2>3. \A i \in new : ~(i < first)
    BY <1>1, <1>2
  <2> QED
    BY <2>1, <2>2, <2>3
<1>4. \A i \in Rows : row'[i] = row[i] /\ \A j \in new : i < j
  BY <1>1, <1>2, <1>3
<1>5. \A i \in new : row'[i] = [batch |-> b, status |-> "RUNNING", path |-> FALSE] /\ i \in Nat
  BY <1>1, <1>2
<1>6. \A i \in Id : i \notin new => row'[i] = row[i]
  BY <1>1
<1>7. Rows' = Rows \union new
  BY <1>1, <1>4, <1>5, <1>6 DEF Rows
<1>8. BatchTypes'
  BY <1>1, <1>2, BatchAssumption DEF BatchTypes, RowRecords, Calls, Idle
<1>9. RowsInv'
  <2>1. Rows' = 1..(Cardinality(Rows) + handler[h].n)
    BY <1>1, <1>2, <1>3, <1>7
  <2>2. Cardinality(1..(Cardinality(Rows) + handler[h].n)) = Cardinality(Rows) + handler[h].n
    <3>1. PICK n \in Nat : n = Cardinality(Rows) + handler[h].n
      BY <1>2
    <3> QED
      BY <3>1, IntervalSize
  <2>3. ASSUME NEW i \in Rows', NEW j \in Rows', i <= j PROVE row'[i].batch <= row'[j].batch
    <3>1. CASE i \in Rows /\ j \in Rows
      BY <1>4, <2>3, <3>1 DEF RowsInv
    <3>2. CASE i \in new /\ j \in Rows
      <4>1. j < i /\ i \in Nat /\ j \in Nat
        BY <1>2, <1>3, <1>4, <1>5, <3>2
      <4> QED
        BY <2>3, <4>1
    <3>3. CASE j \in new
      BY <1>2, <1>4, <1>5, <1>7, <2>3, <3>3
    <3> QED
      BY <1>7, <2>3, <3>1, <3>2, <3>3
  <2> QED
    BY <1>1, <1>7, <2>1, <2>2, <2>3 DEF RowsInv
<1>10. WholeInv'
  <2>1. \A i \in Id : row'[i].status = "COMPLETED" => row'[i] = row[i]
    BY <1>5, <1>6
  <2>2. \A i \in Id : row[i].status = "COMPLETED" => row'[i] = row[i]
    BY <1>4 DEF Rows
  <2> QED
    BY <1>1, <2>1, <2>2 DEF WholeInv
<1> QED
  BY <1>8, <1>9, <1>10

LEMMA CommitStep ==
  ASSUME BatchInv, NEW b \in Batch, InsertAndCommit(b) PROVE BatchInv' /\ Rows' = Rows
<1> USE DEF BatchInv
<1>1. PICK i \in Rows : tx[b] = i
  BY DEF InsertAndCommit, RowsInv
<1>2. /\ i \in Id /\ row' = [row EXCEPT ![i] = [@ EXCEPT !.status = "COMPLETED", !.path = TRUE]]
      /\ tx' = [tx EXCEPT ![b] = NoTx] /\ UNCHANGED <<aged, handler, working, reader>>
  BY <1>1 DEF InsertAndCommit, Rows
<1>3. /\ row' \in [Id -> RowRecords]
      /\ row'[i].status = "COMPLETED" /\ row'[i].path /\ row'[i].batch = row[i].batch
      /\ \A j \in Id : j # i => row'[j] = row[j]
  BY <1>2 DEF BatchTypes, RowRecords
<1>4. Rows' = Rows
  BY <1>1, <1>3 DEF Rows
<1>5. \A j \in Id : row'[j].batch = row[j].batch
  BY <1>3
<1>6. BatchTypes' /\ \A c \in Batch : tx'[c] \in {tx[c], NoTx}
  BY <1>2, <1>3 DEF BatchTypes
<1>7. RowsInv'
  <2>1. Rows \subseteq Id
    BY DEF Rows
  <2> QED
    BY <1>2, <1>4, <1>5, <1>6, <2>1 DEF RowsInv
<1>8. WholeInv'
  BY <1>2, <1>3 DEF WholeInv
<1> QED
  BY <1>4, <1>6, <1>7, <1>8

LEMMA BatchStep == BatchInv /\ [Next]_batchVars => BatchInv'
<1> SUFFICES ASSUME BatchInv, [Next]_batchVars PROVE BatchInv'
  OBVIOUS
<1> USE DEF BatchInv
<1>1. ASSUME NEW h \in Handler, BeginBatch(h) PROVE BatchInv'
  <2>1. PICK n \in 1..MaxRequest :
          handler' = [handler EXCEPT ![h] = IF CanAddTraces(n) THEN [pc |-> "mayAdd", n |-> n]
                                                                 ELSE Idle]
    BY <1>1 DEF BeginBatch
  <2>2. handler' \in [Handler -> Calls]
    BY <2>1, BatchAssumption DEF BatchTypes, Calls, Idle
  <2>3. UNCHANGED <<row, aged, working, tx, reader>>
    BY <1>1 DEF BeginBatch
  <2> QED
    BY <2>2, <2>3, SameRows DEF BatchTypes, WholeInv
<1>2. ASSUME NEW h \in Handler, CreateFails(h) PROVE BatchInv'
  <2>1. handler' \in [Handler -> Calls]
    BY <1>2, BatchAssumption DEF CreateFails, BatchTypes, Calls, Idle
  <2> QED
    BY <1>2, <2>1, SameRows DEF CreateFails, BatchTypes, WholeInv
<1>3. ASSUME NEW b \in Batch, UpdateRow(b) PROVE BatchInv'
  <2>1. PICK i \in working : tx' = [tx EXCEPT ![b] = i] /\ working' = working \ {i}
    BY <1>3 DEF UpdateRow
  <2>2. tx' \in [Batch -> Id \union {NoTx}]
    BY <2>1 DEF BatchTypes, RowsInv, Rows
  <2>3. \A c \in Batch : tx'[c] \in {tx[c], NoTx} \union working
    BY <2>1 DEF BatchTypes
  <2> QED
    BY <1>3, <2>1, <2>2, <2>3, SameRows DEF UpdateRow, BatchTypes, WholeInv
<1>4. ASSUME NEW b \in Batch, Rollback(b) PROVE BatchInv'
  <2>1. tx' \in [Batch -> Id \union {NoTx}] /\ \A c \in Batch : tx'[c] \in {tx[c], NoTx}
    BY <1>4 DEF Rollback, BatchTypes
  <2> QED
    BY <1>4, <2>1, SameRows DEF Rollback, BatchTypes, WholeInv
<1>5. ASSUME NEW b \in Batch, GetRevtr(b) PROVE BatchInv'
  <2>1. PICK mine : /\ mine = {i \in Rows : row[i].batch = b}
                    /\ reader' = [NoReader EXCEPT !.todo = mine,
                                    !.status = [i \in mine |-> row[i].status]]
    BY <1>5 DEF GetRevtr
  <2>2. mine \subseteq Id
    BY <2>1 DEF Rows
  <2>3. /\ reader'.todo = mine /\ reader'.status = [i \in mine |-> row[i].status]
        /\ reader' = [todo |-> reader'.todo, status |-> reader'.status, path |-> reader'.path]
    BY <2>1 DEF NoReader
  <2>4. UNCHANGED <<row, aged, handler, working, tx>>
    BY <1>5 DEF GetRevtr
  <2>5. WholeInv'
    BY <2>2, <2>3, <2>4 DEF WholeInv
  <2> QED
    BY <2>3, <2>4, <2>5, SameRows DEF BatchTypes
<1>6. ASSUME GetHops PROVE BatchInv'
  <2>1. PICK i : reader' = [reader EXCEPT !.todo = @ \ {i},
                     !.path = @ \union {j \in {i} : reader.status[i] = "COMPLETED" /\ row[i].path}]
    BY <1>6 DEF GetHops
  <2>2. /\ reader'.todo = reader.todo \ {i} /\ reader'.status = reader.status
        /\ reader'.path = reader.path \union {j \in {i} : reader.status[i] = "COMPLETED" /\ row[i].path}
        /\ reader' = [todo |-> reader'.todo, status |-> reader'.status, path |-> reader'.path]
    BY <2>1 DEF BatchTypes
  <2>3. UNCHANGED <<row, aged, handler, working, tx>>
    BY <1>6 DEF GetHops
  <2>4. WholeInv'
    BY <2>2, <2>3 DEF WholeInv
  <2> QED
    BY <2>2, <2>3, <2>4, SameRows DEF BatchTypes
<1>7. ASSUME UNCHANGED <<row, working, tx>>, aged' \in Nat, UNCHANGED handler,
             reader' \in {reader, NoReader}
      PROVE  BatchInv'
  <2>1. /\ NoReader = [todo |-> NoReader.todo, status |-> NoReader.status, path |-> NoReader.path]
        /\ DOMAIN NoReader.status = {}
    BY DEF NoReader
  <2>2. BatchTypes' /\ WholeInv'
    BY <1>7, <2>1 DEF BatchTypes, WholeInv
  <2> QED
    BY <1>7, <2>2, SameRows
<1>8. ASSUME AgeBatch \/ ReaderReturns \/ UNCHANGED batchVars PROVE BatchInv'
  BY <1>7, <1>8 DEF AgeBatch, ReaderReturns, batchVars, BatchTypes
<1>9. ASSUME CrashAndRestart PROVE BatchInv'
  <2>1. /\ NoReader = [todo |-> NoReader.todo, status |-> NoReader.status, path |-> NoReader.path]
        /\ DOMAIN NoReader.status = {}
    BY DEF NoReader
  <2>2. /\ handler' \in [Handler -> Calls] /\ tx' \in [Batch -> Id \union {NoTx}]
        /\ \A b \in Batch : tx'[b] = NoTx
    BY <1>9, BatchAssumption DEF CrashAndRestart, Calls, Idle
  <2>3. UNCHANGED <<row, aged>> /\ working' = {} /\ reader' = NoReader
    BY <1>9 DEF CrashAndRestart
  <2>4. BatchTypes' /\ WholeInv'
    BY <2>1, <2>2, <2>3 DEF BatchTypes, WholeInv
  <2> QED
    BY <2>2, <2>3, <2>4, SameRows
<1> QED
  BY <1>1, <1>2, <1>3, <1>4, <1>5, <1>6, <1>8, <1>9, CreateStep, CommitStep DEF Next, Store

\* Ids have no gaps, and what is measured or stored has a row.
THEOREM BatchInvariance == Spec => []BatchInv
<1>1. Init => BatchInv
  <2> SUFFICES ASSUME Init PROVE BatchInv
    OBVIOUS
  <2>1. Rows = {}
    BY DEF Init, Rows, NoRow
  <2>2. Cardinality(Rows) = 0
    BY <2>1, FS_EmptySet
  <2>3. BatchTypes
    BY BatchAssumption DEF Init, BatchTypes, RowRecords, NoRow, Calls, Idle, NoReader
  <2>4. RowsInv
    BY <2>1, <2>2 DEF Init, RowsInv
  <2>5. WholeInv
    BY DEF Init, WholeInv, NoRow, NoReader
  <2> QED
    BY <2>3, <2>4, <2>5 DEF BatchInv
<1> QED
  BY <1>1, BatchStep, PTL DEF Spec

\* An answer never says that a reverse traceroute is completed without its path,
\* although the two are read by separate queries.
THEOREM AnswersAreWhole == Spec => []AnswerIsWhole
<1>1. BatchInv => AnswerIsWhole
  BY DEF BatchInv, WholeInv, AnswerIsWhole, Answered
<1> QED
  BY <1>1, BatchInvariance, PTL

-----------------------------------------------------------------------------
(* The quota                                                               *)

LEMMA QuotaCounts ==
  /\ IsFiniteSet(Handler \X (1..MaxRequest)) /\ IsFiniteSet(AdmittedMeas)
  /\ Cardinality(AdmittedMeas) \in Nat /\ Cardinality(InWindow) \in Nat
  /\ Cardinality(Handler) \in Nat
<1>1. IsFiniteSet(1..MaxRequest)
  BY BatchAssumption, IntervalSize
<1>2. IsFiniteSet(Handler \X (1..MaxRequest))
  BY <1>1, BatchAssumption, FS_Product
<1>3. AdmittedMeas \in SUBSET (Handler \X (1..MaxRequest))
  BY DEF AdmittedMeas
<1>4. IsFiniteSet(AdmittedMeas)
  BY <1>2, <1>3, FS_Subset
<1> QED
  BY <1>2, <1>4, RowsAreFinite, BatchAssumption, FS_CardinalityType

\* The measurements of one call, and of all the others.
LEMMA OneAndOthers ==
  ASSUME NEW h \in Handler, NEW n \in 0..MaxRequest
  PROVE  /\ IsFiniteSet({h} \X (1..n)) /\ Cardinality({h} \X (1..n)) = n
         /\ IsFiniteSet((Handler \ {h}) \X (1..MaxRequest))
         /\ Cardinality((Handler \ {h}) \X (1..MaxRequest)) = (Cardinality(Handler) - 1) * MaxRequest
<1>1. /\ IsFiniteSet(1..n) /\ Cardinality(1..n) = n
      /\ IsFiniteSet(1..MaxRequest) /\ Cardinality(1..MaxRequest) = MaxRequest
  BY BatchAssumption, IntervalSize
<1>2. IsFiniteSet({h}) /\ Cardinality({h}) = 1
  BY FS_Singleton
<1>3. IsFiniteSet({h} \X (1..n)) /\ Cardinality({h} \X (1..n)) = n
  <2>1. Cardinality({h} \X (1..n)) = 1 * n /\ IsFiniteSet({h} \X (1..n))
    BY <1>1, <1>2, FS_Product, ZenonT(60)
  <2>2. 1 * n = n
    OBVIOUS
  <2> QED
    BY <2>1, <2>2
<1>4. IsFiniteSet(Handler \ {h}) /\ Cardinality(Handler \ {h}) = Cardinality(Handler) - 1
  BY BatchAssumption, FS_RemoveElement
<1>5. /\ IsFiniteSet((Handler \ {h}) \X (1..MaxRequest))
      /\ Cardinality((Handler \ {h}) \X (1..MaxRequest))
           = Cardinality(Handler \ {h}) * Cardinality(1..MaxRequest)
  BY <1>1, <1>4, FS_Product
<1>6. Cardinality((Handler \ {h}) \X (1..MaxRequest)) = (Cardinality(Handler) - 1) * MaxRequest
  BY <1>1, <1>4, <1>5, Zenon
<1> QED
  BY <1>3, <1>5, <1>6

\* What the sum is compared with.
QuotaLimit == Max({UserMax - 1, MaxRequest}) + (Cardinality(Handler) - 1) * MaxRequest

LEMMA LimitIs ==
  /\ QuotaLimit \in Int /\ (Cardinality(Handler) - 1) * MaxRequest \in Int
  /\ QuotaLimit >= UserMax - 1 + (Cardinality(Handler) - 1) * MaxRequest
  /\ QuotaLimit >= MaxRequest + (Cardinality(Handler) - 1) * MaxRequest
<1>1. UserMax - 1 \in Nat /\ MaxRequest \in Nat
  BY BatchAssumption
<1>2. /\ Max({UserMax - 1, MaxRequest}) \in Nat
      /\ Max({UserMax - 1, MaxRequest}) >= UserMax - 1
      /\ Max({UserMax - 1, MaxRequest}) >= MaxRequest
  <2>1. CASE UserMax - 1 >= MaxRequest
    <3>1. Max({UserMax - 1, MaxRequest}) = UserMax - 1
      BY <1>1, <2>1, MaxOf
    <3> QED
      BY <1>1, <2>1, <3>1
  <2>2. CASE ~(UserMax - 1 >= MaxRequest)
    <3>1. Max({UserMax - 1, MaxRequest}) = MaxRequest
      BY <1>1, <2>2, MaxOf
    <3> QED
      BY <1>1, <2>2, <3>1
  <2> QED
    BY <2>1, <2>2
<1>3. (Cardinality(Handler) - 1) * MaxRequest \in Int
  <2>1. Cardinality(Handler) - 1 \in Int
    BY QuotaCounts
  <2> QED
    BY <1>1, <2>1
<1> HIDE DEF Max
<1> QED
  BY <1>1, <1>2, <1>3 DEF QuotaLimit

LEMMA SumLess ==
  ASSUME QuotaBound, Cardinality(InWindow)' \in Nat, Cardinality(AdmittedMeas)' \in Nat,
         Cardinality(InWindow)' + Cardinality(AdmittedMeas)'
           <= Cardinality(InWindow) + Cardinality(AdmittedMeas)
  PROVE  QuotaBound'
<1>1. Cardinality(InWindow) + Cardinality(AdmittedMeas) <= QuotaLimit
  BY DEF QuotaBound, QuotaLimit
<1>2. Cardinality(InWindow)' + Cardinality(AdmittedMeas)' <= QuotaLimit
  BY <1>1, QuotaCounts, LimitIs
<1> QED
  BY <1>2 DEF QuotaBound, QuotaLimit

\* Fewer rows in the window, and fewer admitted.
LEMMA SetsLess ==
  ASSUME QuotaBound, InWindow' \subseteq InWindow, AdmittedMeas' \subseteq AdmittedMeas
  PROVE  QuotaBound'
<1>1. Cardinality(InWindow') <= Cardinality(InWindow) /\ Cardinality(InWindow') \in Nat
  BY RowsAreFinite, FS_Subset, FS_CardinalityType
<1>2. Cardinality(AdmittedMeas') <= Cardinality(AdmittedMeas) /\ Cardinality(AdmittedMeas') \in Nat
  BY QuotaCounts, FS_Subset, FS_CardinalityType
<1> QED
  BY <1>1, <1>2, QuotaCounts, SumLess

\* A call is admitted against the rows in the window; the others ask for at most
\* one request each.
LEMMA AdmitStep ==
  ASSUME BatchTypes, QuotaBound, NEW h \in Handler, BeginBatch(h) PROVE QuotaBound'
<1>1. PICK n \in 1..MaxRequest :
        handler' = [handler EXCEPT ![h] = IF CanAddTraces(n) THEN [pc |-> "mayAdd", n |-> n]
                                                               ELSE Idle]
  BY DEF BeginBatch
<1>2. InWindow' = InWindow
  BY DEF BeginBatch, InWindow, Rows
<1>3. CASE ~CanAddTraces(n)
  <2>1. handler'[h].n = 0 /\ \A g \in Handler : g # h => handler'[g] = handler[g]
    BY <1>1, <1>3 DEF BatchTypes, Idle
  <2>2. AdmittedMeas' \subseteq AdmittedMeas
    BY <2>1 DEF AdmittedMeas
  <2> QED
    BY <1>2, <2>2, SetsLess
<1>4. CASE CanAddTraces(n)
  <2> DEFINE mine == {h} \X (1..n)
             others == (Handler \ {h}) \X (1..MaxRequest)
             room == (Cardinality(Handler) - 1) * MaxRequest
  <2>1. handler'[h].n = n
    BY <1>1, <1>4 DEF BatchTypes
  <2>2. AdmittedMeas' \subseteq mine \union others
    BY <2>1 DEF AdmittedMeas
  <2>3. IsFiniteSet(mine) /\ Cardinality(mine) = n /\ IsFiniteSet(others) /\ Cardinality(others) = room
    <3>1. n \in 0..MaxRequest
      BY BatchAssumption
    <3> QED
      BY <3>1, OneAndOthers, Zenon
  <2>4. mine \intersect others = {}
    OBVIOUS
  <2> HIDE DEF mine, others, room
  <2>5. room \in Int /\ n \in Nat /\ n <= MaxRequest /\ MaxRequest \in Nat
    BY LimitIs, BatchAssumption DEF room
  <2>6. IsFiniteSet(mine \union others) /\ Cardinality(mine \union others) = n + room
    <3>1. Cardinality(mine \intersect others) = 0
      BY <2>4, FS_EmptySet
    <3> QED
      BY <2>3, <2>5, <3>1, FS_Union
  <2>7. Cardinality(AdmittedMeas)' \in Nat /\ Cardinality(AdmittedMeas)' <= n + room
    BY <2>2, <2>6, FS_Subset, FS_CardinalityType
  <2>8. CASE InWindow = {}
    <3>1. Cardinality(InWindow) = 0
      BY <2>8, FS_EmptySet
    <3>2. QuotaLimit \in Int /\ n + room <= QuotaLimit
      BY <2>5, LimitIs DEF room
    <3>3. 0 + Cardinality(AdmittedMeas)' <= QuotaLimit
      BY <2>5, <2>7, <3>2
    <3> QED
      BY <1>2, <3>1, <3>3 DEF QuotaBound, QuotaLimit
  <2>9. CASE Cardinality(InWindow) + n < UserMax
    <3>1. Cardinality(InWindow) + n <= UserMax - 1
      BY <2>5, <2>9, QuotaCounts, BatchAssumption
    <3>2. QuotaLimit \in Int /\ QuotaLimit >= UserMax - 1 + room
      BY LimitIs DEF room
    <3>3. Cardinality(InWindow) + Cardinality(AdmittedMeas)' <= QuotaLimit
      BY <2>5, <2>7, <3>1, <3>2, QuotaCounts, BatchAssumption
    <3> QED
      BY <1>2, <3>3 DEF QuotaBound, QuotaLimit
  <2> QED
    BY <1>4, <2>8, <2>9 DEF CanAddTraces
<1> QED
  BY <1>3, <1>4

\* What was admitted becomes rows, at most as many in the window.
LEMMA RowsForAdmitted ==
  ASSUME BatchTypes, QuotaBound, NEW h \in Handler, CreateRevtrBatch(h) PROVE QuotaBound'
<1>1. PICK first, new, b :
        /\ first = Cardinality(Rows) + 1 /\ new = first..(first + handler[h].n - 1)
        /\ row' = [i \in Id |-> IF i \in new
                                THEN [batch |-> b, status |-> "RUNNING", path |-> FALSE]
                                ELSE row[i]]
        /\ handler' = [handler EXCEPT ![h] = Idle]
        /\ UNCHANGED aged
  BY DEF CreateRevtrBatch
<1> DEFINE n == handler[h].n
           mine == {h} \X (1..n)
<1>2. first \in Nat /\ n \in Nat /\ n \in 0..MaxRequest
  <2>1. Cardinality(Rows) \in Nat
    BY RowsAreFinite, FS_CardinalityType
  <2> QED
    BY <1>1, <2>1, BatchAssumption DEF BatchTypes, Calls
<1>3. InWindow' \subseteq InWindow \union new
  BY <1>1 DEF InWindow, Rows
<1>4. IsFiniteSet(new) /\ Cardinality(new) = n
  <2>1. PICK last \in Int : last = first + n - 1
    BY <1>2
  <2>2. /\ first \in Int /\ new = first..last
        /\ n = IF first > last THEN 0 ELSE last - first + 1
    BY <1>1, <1>2, <2>1
  <2>3. /\ IsFiniteSet(first..last)
        /\ Cardinality(first..last) = IF first > last THEN 0 ELSE last - first + 1
    BY <2>2, FS_Interval
  <2> QED
    BY <2>2, <2>3, Zenon
<1>5. Cardinality(InWindow)' \in Nat /\ Cardinality(InWindow)' <= Cardinality(InWindow) + n
  <2>1. /\ IsFiniteSet(InWindow \union new)
        /\ Cardinality(InWindow \union new) = Cardinality(InWindow) + n - Cardinality(InWindow \intersect new)
        /\ Cardinality(InWindow \intersect new) \in Nat
    BY <1>4, RowsAreFinite, FS_Union, FS_Intersection, FS_CardinalityType
  <2>2. /\ Cardinality(InWindow') \in Nat
        /\ Cardinality(InWindow') <= Cardinality(InWindow \union new)
    BY <1>3, <2>1, FS_Subset, FS_CardinalityType
  <2> QED
    BY <1>2, <2>1, <2>2, QuotaCounts
<1>6. Cardinality(AdmittedMeas)' \in Nat /\ Cardinality(AdmittedMeas) = Cardinality(AdmittedMeas)' + n
  <2>1. handler'[h].n = 0 /\ \A g \in Handler : g # h => handler'[g] = handler[g]
    BY <1>1 DEF BatchTypes, Idle
  <2>2. AdmittedMeas' = AdmittedMeas \ mine
    BY <1>2, <2>1 DEF AdmittedMeas
  <2>3. AdmittedMeas \intersect mine = mine
    BY <1>2, BatchAssumption DEF AdmittedMeas
  <2>4. Cardinality(mine) = n
    BY <1>2, OneAndOthers
  <2> HIDE DEF mine
  <2>5. /\ IsFiniteSet(AdmittedMeas \ mine)
        /\ Cardinality(AdmittedMeas \ mine) = Cardinality(AdmittedMeas) - n
    <3>1. /\ IsFiniteSet(AdmittedMeas \ mine)
          /\ Cardinality(AdmittedMeas \ mine) = Cardinality(AdmittedMeas) - Cardinality(AdmittedMeas \intersect mine)
      BY QuotaCounts, FS_Difference
    <3> QED
      BY <2>3, <2>4, <3>1, Zenon
  <2> QED
    BY <1>2, <2>2, <2>5, QuotaCounts, FS_CardinalityType
<1> QED
  BY <1>2, <1>5, <1>6, QuotaCounts, SumLess

\* However requests overlap, the rows in the window and the measurements that
\* have been admitted keep to the quota, or one request, and a request for every
\* other call in progress.
THEOREM QuotaIsBounded == Spec => []QuotaBound
<1>1. Init => QuotaBound
  <2> SUFFICES ASSUME Init PROVE QuotaBound
    OBVIOUS
  <2>1. InWindow = {} /\ AdmittedMeas = {}
    BY DEF Init, InWindow, Rows, NoRow, AdmittedMeas, Idle
  <2>2. Cardinality(InWindow) = 0 /\ Cardinality(AdmittedMeas) = 0
    BY <2>1, FS_EmptySet
  <2>3. 0 <= QuotaLimit
    <3>1. MaxRequest \in Nat /\ QuotaLimit >= MaxRequest + (Cardinality(Handler) - 1) * MaxRequest
      BY LimitIs, BatchAssumption
    <3>2. MaxRequest + (Cardinality(Handler) - 1) * MaxRequest = Cardinality(Handler) * MaxRequest
      BY <3>1, QuotaCounts
    <3>3. Cardinality(Handler) * MaxRequest \in Nat
      BY <3>1, QuotaCounts
    <3> QED
      BY <3>1, <3>2, <3>3, LimitIs
  <2> QED
    BY <2>2, <2>3 DEF QuotaBound, QuotaLimit
<1>2. BatchInv /\ QuotaBound /\ [Next]_batchVars => QuotaBound'
  <2> SUFFICES ASSUME BatchTypes, RowsInv, BatchInv, QuotaBound, [Next]_batchVars PROVE QuotaBound'
    BY DEF BatchInv
  <2>1. ASSUME UNCHANGED <<row, aged, handler>> PROVE QuotaBound'
    BY <2>1, SetsLess DEF InWindow, Rows, AdmittedMeas
  <2>2. ASSUME NEW h \in Handler, CreateFails(h) PROVE QuotaBound'
    <3>1. handler'[h].n = 0 /\ \A g \in Handler : g # h => handler'[g] = handler[g]
      BY <2>2 DEF CreateFails, BatchTypes, Idle
    <3> QED
      BY <2>2, <3>1, SetsLess DEF CreateFails, InWindow, Rows, AdmittedMeas
  <2>3. ASSUME NEW b \in Batch, InsertAndCommit(b) PROVE QuotaBound'
    <3>1. Rows' = Rows /\ UNCHANGED <<aged, handler>>
      BY <2>3, CommitStep DEF InsertAndCommit
    <3>2. \A i \in Rows : row'[i].batch = row[i].batch
      BY <2>3 DEF InsertAndCommit, Rows, BatchTypes, RowRecords
    <3> QED
      BY <3>1, <3>2, SetsLess DEF InWindow, AdmittedMeas
  <2>4. ASSUME AgeBatch PROVE QuotaBound'
    <3>1. /\ Rows' = Rows /\ aged' = aged + 1 /\ aged \in Nat /\ UNCHANGED <<row, handler>>
          /\ \A i \in Rows : row[i].batch \in Nat
      BY <2>4 DEF AgeBatch, Rows, BatchTypes, RowRecords
    <3> QED
      BY <3>1, SetsLess DEF InWindow, AdmittedMeas
  <2>5. ASSUME CrashAndRestart PROVE QuotaBound'
    <3>1. \A g \in Handler : handler'[g].n = 0
      BY <2>5 DEF CrashAndRestart, Idle
    <3> QED
      BY <2>5, <3>1, SetsLess DEF CrashAndRestart, InWindow, Rows, AdmittedMeas
  <2>6. ASSUME NEW b \in Batch, UpdateRow(b) \/ Rollback(b) \/ GetRevtr(b) PROVE QuotaBound'
    BY <2>1, <2>6 DEF UpdateRow, Rollback, GetRevtr
  <2>7. ASSUME GetHops \/ ReaderReturns \/ UNCHANGED batchVars PROVE QuotaBound'
    BY <2>1, <2>7 DEF GetHops, ReaderReturns, batchVars
  <2> QED
    BY <2>2, <2>3, <2>4, <2>5, <2>6, <2>7, AdmitStep, RowsForAdmitted DEF Next, Store
<1> QED
  BY <1>1, <1>2, BatchInvariance, PTL DEF Spec

===============================================================================
