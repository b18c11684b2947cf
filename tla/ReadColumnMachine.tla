-------------------------- MODULE ReadColumnMachine --------------------------
(***************************************************************************)
(* RfcReadColumnStateMachine: one projected column of a sap_read_table     *)
(* scan.  A machine alternates between reading one batch from SAP and      *)
(* handing it to DuckDB one vector at a time.  The operators below are the *)
(* steps RfcReadColumnTask::ExecuteTask makes on the machine, as functions *)
(* from its record to its record; ReadTableScan drives them.               *)
(*                                                                         *)
(* Rows of the SAP table are numbered from 0 in the order of GET_SORTED.   *)
(* Two fields are not in the code: "skip" is the ROWSKIPS of the resident  *)
(* batch, hence the number of its first row, and "first" is the number of  *)
(* the first row of the last vector handed out.                            *)
(***************************************************************************)
EXTENDS BatchSizing

ReadTableStates ==
  {"INIT", "EXTRACT_FROM_SAP", "LOAD_TO_DUCKDB", "FINAL_LOAD_TO_DUCKDB", "FINISHED"}

StateMachine ==
  [ current_state      : ReadTableStates,
    desired_batch_size : Nat \ {0},
    pending_records    : Nat,
    cardinality        : Nat,
    duck_count         : Nat,
    total_rows         : Nat,
    current_batch_rows : Nat,    \* 0 also when no result table is resident
    skip               : Nat,
    first              : Nat ]

(* A MAX_ROWS that fits one batch makes the whole scan one batch.          *)
NewStateMachine(limit) ==
  [ current_state      |-> "INIT",
    desired_batch_size |-> IF 0 < limit /\ limit <= MAX_BATCH_SIZE
                             THEN limit ELSE STANDARD_VECTOR_SIZE,
    pending_records    |-> 0,
    cardinality        |-> 0,
    duck_count         |-> 0,
    total_rows         |-> 0,
    current_batch_rows |-> 0,
    skip               |-> 0,
    first              |-> 0 ]

-----------------------------------------------------------------------------
(* A task takes the machine's lock: nothing loaded yet in this Step.       *)
Started(m) ==
  [m EXCEPT !.cardinality = 0,
            !.current_state = IF @ = "INIT" THEN "EXTRACT_FROM_SAP" ELSE @]

(* ROWSKIPS and ROWCOUNT of the call a machine in EXTRACT_FROM_SAP makes.  *)
RowSkips(m) == m.total_rows
RowCount(m, limit) ==
  TrimmedActualBatchSize(m.desired_batch_size, m.total_rows, limit)

(* Mutant: compare the batch with what was asked for, not with what a full *)
(* batch would be.                                                         *)
NeverLastBatch(m, limit, extracted) == extracted = 0

(* The batch just read is known to be the last one.                        *)
LastBatch(m, limit, extracted) ==
  \/ extracted < m.desired_batch_size
  \/ limit > 0 /\ m.total_rows + extracted = limit

(* A call returned "extracted" rows, now resident in the SDK's result      *)
(* table until the next call replaces them or the column finishes.         *)
Extracted(m, limit, max_batch_size, extracted) ==
  [m EXCEPT
     !.duck_count         = 0,
     !.pending_records    = @ + extracted,
     !.current_batch_rows = extracted,
     !.skip               = RowSkips(m),
     !.current_state      = IF LastBatch(m, limit, extracted)
                              THEN "FINAL_LOAD_TO_DUCKDB" ELSE "LOAD_TO_DUCKDB",
     !.desired_batch_size =
       IF limit = 0
         THEN NextDesiredBatchSize(@, m.total_rows + extracted, max_batch_size)
         ELSE @]

-----------------------------------------------------------------------------
BatchStart(m) == m.duck_count * STANDARD_VECTOR_SIZE

(* Mutant: every vector is full.                                           *)
FullVector(m, limit) == STANDARD_VECTOR_SIZE

(* Mutant: no clipping of an over-fetched batch.                           *)
UnclippedLoad(m, limit) ==
  IF BatchStart(m) >= m.current_batch_rows
    THEN 0
    ELSE Smaller(STANDARD_VECTOR_SIZE, m.current_batch_rows - BatchStart(m))

(* Rows LoadNextBatchToDuckDBColumn writes: the next vector of the         *)
(* resident batch, clipped to MAX_ROWS.                                    *)
LoadNextBatch(m, limit) ==
  LET window == Smaller(STANDARD_VECTOR_SIZE, m.current_batch_rows - BatchStart(m))
  IN  IF BatchStart(m) >= m.current_batch_rows
        THEN 0
        ELSE IF limit > 0 /\ m.total_rows + window > limit
               THEN limit - m.total_rows
               ELSE window

(* One vector was loaded.  A finished machine drops its invocation and     *)
(* with it the resident batch.                                             *)
Loaded(m, limit) ==
  LET rows    == LoadNextBatch(m, limit)
      drained == m.pending_records - rows = 0
  IN  [m EXCEPT
         !.cardinality        = rows,
         !.first              = m.skip + BatchStart(m),
         !.duck_count         = @ + 1,
         !.pending_records    = @ - rows,
         !.total_rows         = @ + rows,
         !.current_batch_rows = IF drained /\ m.current_state = "FINAL_LOAD_TO_DUCKDB"
                                  THEN 0 ELSE @,
         !.current_state      = IF ~drained THEN @
                                ELSE IF @ = "FINAL_LOAD_TO_DUCKDB"
                                  THEN "FINISHED" ELSE "EXTRACT_FROM_SAP"]
=============================================================================
