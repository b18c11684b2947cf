----------------------------- MODULE BatchSizing -----------------------------
(***************************************************************************)
(* The pure arithmetic of sap_read_table's batches: how many rows the next *)
(* RFC_READ_TABLE call of a column asks for.  The function module refuses  *)
(* a call whose ROWSKIPS is not a multiple of its ROWCOUNT; these three    *)
(* helpers of RfcReadColumnStateMachine grow, cap and trim the batch so    *)
(* that the next offset stays legal.                                       *)
(***************************************************************************)
EXTENDS Integers

CONSTANT STANDARD_VECTOR_SIZE     \* rows of one DuckDB DataChunk (2048)

ASSUME VectorSizeAssumption == STANDARD_VECTOR_SIZE \in Nat \ {0}

MAX_BATCH_SIZE == 16 * STANDARD_VECTOR_SIZE

(* Sizes the warm-up can double through on its way to MAX_BATCH_SIZE.      *)
WarmUpSizes == { k * STANDARD_VECTOR_SIZE : k \in {1, 2, 4, 8, 16} }

Smaller(a, b) == IF a <= b THEN a ELSE b

-----------------------------------------------------------------------------
(* Mutant: double without looking at the rows already read.                *)
EagerNextDesiredBatchSize(current, total_rows_after, max_batch_size) ==
  IF current >= max_batch_size
    THEN current
    ELSE Smaller(2 * current, max_batch_size)

(* Mutant: forget that the cap may have been lowered below current.        *)
UncappedNextDesiredBatchSize(current, total_rows_after, max_batch_size) ==
  IF current < MAX_BATCH_SIZE /\ total_rows_after % (2 * current) = 0
    THEN 2 * current
    ELSE current

(* The size of the next batch: twice the current one, but only at an       *)
(* offset the doubled size divides.                                        *)
NextDesiredBatchSize(current, total_rows_after, max_batch_size) ==
  LET next_size == Smaller(2 * current, max_batch_size)
  IN  IF current < max_batch_size /\ total_rows_after % next_size = 0
        THEN next_size
        ELSE current

(* The largest warm-up size whose product with the number of columns stays *)
(* within the budget, STANDARD_VECTOR_SIZE at least.                       *)
MaxBatchSizeForColumnCount(num_columns, concurrent_row_budget) ==
  IF num_columns <= 1 \/ concurrent_row_budget = 0
    THEN MAX_BATCH_SIZE
    ELSE LET per_col == concurrent_row_budget \div num_columns
             Fits(c) == c = STANDARD_VECTOR_SIZE \/ c <= per_col
         IN  CHOOSE cap \in WarmUpSizes :
               Fits(cap) /\ \A c \in WarmUpSizes : Fits(c) => c <= cap

(* The ROWCOUNT sent: the rest up to MAX_ROWS where that is a legal batch  *)
(* size at this offset, else the full batch (over-fetch, clipped later).   *)
TrimmedActualBatchSize(desired, total_rows, limit) ==
  LET remaining == limit - total_rows
  IN  IF /\ limit # 0
         /\ total_rows + desired > limit
         /\ remaining > 0
         /\ total_rows % remaining = 0
        THEN remaining
        ELSE desired
=============================================================================
