----------------------------- MODULE Measurements -----------------------------
(***************************************************************************)
(* What plcontroller expects of a connection to a vantage point: it takes  *)
(* measurements until it is closed, and each measurement ends in one of    *)
(* four ways.  No command, no reply and no goroutine is visible here.      *)
(***************************************************************************)
CONSTANT Req            \* the measurements asked for

VARIABLES
  closed,   \* the connection is closed
  status    \* what became of each measurement

vars == <<closed, status>>

Init == closed = FALSE /\ status = [r \in Req |-> "idle"]

\* An open connection takes the measurement.
Start(r) ==
  /\ ~closed /\ status[r] = "idle"
  /\ status' = [status EXCEPT ![r] = "pending"] /\ UNCHANGED closed

\* The measurement is turned down before it starts.
Refuse(r) ==
  /\ status[r] = "idle"
  /\ status' = [status EXCEPT ![r] = "refused"] /\ UNCHANGED closed

\* Its own result arrives, in time even if the connection is closed by then.
Answer(r) ==
  /\ status[r] = "pending"
  /\ status' = [status EXCEPT ![r] = "answered"] /\ UNCHANGED closed

\* Nobody waits for a result that a closed connection cannot deliver.
Abort(r) ==
  /\ closed /\ status[r] = "pending"
  /\ status' = [status EXCEPT ![r] = "aborted"] /\ UNCHANGED closed

GiveUp(r) ==
  /\ status[r] = "pending"
  /\ status' = [status EXCEPT ![r] = "timedout"] /\ UNCHANGED closed

Close == ~closed /\ closed' = TRUE /\ UNCHANGED status

Next == Close \/ \E r \in Req : Start(r) \/ Refuse(r) \/ Answer(r) \/ Abort(r) \/ GiveUp(r)

Spec == Init /\ [][Next]_vars

=============================================================================
