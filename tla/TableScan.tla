------------------------------ MODULE TableScan ------------------------------
(***************************************************************************)
(* What sap_read_table promises DuckDB: a sequence of chunks, each at most *)
(* one vector long, whose columns are aligned (every column of a chunk     *)
(* holds the same rows) and which together hold the first rows of the      *)
(* table, in order, each exactly once - all of them, or MAX_ROWS of them   *)
(* where the caller gave a limit.  The scan ends after the last row or     *)
(* with an error.                                                          *)
(***************************************************************************)
EXTENDS Integers

CONSTANTS STANDARD_VECTOR_SIZE, Cols

VARIABLES
  nrows,       \* rows of the table that pass the filter
  limit,       \* MAX_ROWS, 0 for none
  delivered,   \* rows handed over so far
  chunk,       \* per column, the rows of the last chunk: the first and how many
  outcome      \* "scanning", "ended" or "failed"

vars == <<nrows, limit, delivered, chunk, outcome>>

Wanted == IF limit = 0 \/ nrows <= limit THEN nrows ELSE limit

Chunk(from, n) == [c \in Cols |-> [from |-> from, rows |-> n]]

Init ==
  /\ nrows \in Nat
  /\ limit \in Nat
  /\ delivered = 0
  /\ chunk = Chunk(0, 0)
  /\ outcome = "scanning"

Deliver ==
  /\ outcome = "scanning"
  /\ \E n \in 1 .. STANDARD_VECTOR_SIZE :
       /\ delivered + n <= Wanted
       /\ delivered' = delivered + n
       /\ chunk' = Chunk(delivered, n)
  /\ UNCHANGED <<nrows, limit, outcome>>

End ==
  /\ outcome = "scanning"
  /\ delivered = Wanted
  /\ outcome' = "ended"
  /\ UNCHANGED <<nrows, limit, delivered, chunk>>

Fail ==
  /\ outcome = "scanning"
  /\ outcome' = "failed"
  /\ UNCHANGED <<nrows, limit, delivered, chunk>>

Next == Deliver \/ End \/ Fail

Spec == Init /\ [][Next]_vars

FairSpec == Spec /\ WF_vars(Next)
=============================================================================
