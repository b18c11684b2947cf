---------------------------- MODULE ReadTableScan ----------------------------
(***************************************************************************)
(* A sap_read_table scan: DuckDB calls RfcReadTableScan until it returns   *)
(* an empty chunk; each call runs RfcReadTableBindData::Step, which runs   *)
(* one RfcReadColumnTask per projected column on DuckDB's worker threads,  *)
(* at most max_threads of them at a time, and joins them before it checks  *)
(* that every column produced the same number of rows.                     *)
(*                                                                         *)
(* Each task reads its own column over its own connection; how that read   *)
(* is done, retried and abandoned is in ReadTaskConnections.  Here a read  *)
(* either returns rows or raises.  The table does not change during the    *)
(* scan.                                                                   *)
(***************************************************************************)
EXTENDS ReadColumnMachine, FiniteSets

CONSTANTS
  NCols,        \* number of projected columns
  Scans,        \* pairs <<rows of the table, MAX_ROWS>> a run covers
  ThreadCaps,   \* values of the THREADS parameter, 0 for no cap
  Budgets       \* values of erpl_rfc_read_table_batch_budget

ASSUME ScanAssumption ==
  /\ NCols \in Nat \ {0}
  /\ Scans \subseteq Nat \X Nat
  /\ ThreadCaps \subseteq Nat
  /\ Budgets \subseteq Nat

VARIABLES
  nrows,        \* rows of the table that pass the pushed-down filter
  limit,        \* MAX_ROWS
  max_threads,  \* THREADS
  budget,       \* the process-wide row budget, which any session may SET
  budgets_set,  \* history: the budgets in force at some time of the scan
  sm,           \* the state machine of each column
  task,         \* the task of each column in the current Step
  group_start,  \* columns whose tasks ran in earlier groups of this Step
  effective_max_batch_size,
  phase,        \* where DuckDB and Step are
  delivered,    \* rows DuckDB accepted
  chunk         \* the last chunk it accepted

parameters == <<nrows, limit, max_threads>>
setting    == <<budget, budgets_set>>
output     == <<delivered, chunk>>
vars == <<parameters, setting, sm, task, group_start, effective_max_batch_size,
          phase, output>>

Cols == 1 .. NCols

(* A task waits for a worker, holds its machine's lock, has returned, was  *)
(* dropped because another task of its group raised, or raised itself.     *)
TaskStates == {"none", "queued", "running", "done", "skipped", "raised"}
Finished == {"done", "skipped", "raised"}

Phases == {"between calls", "stepping", "ended", "failed"}

Chunk == [Cols -> [from : Nat, rows : Nat]]

TypeOK ==
  /\ <<nrows, limit>> \in Scans
  /\ max_threads \in ThreadCaps
  /\ budgets_set \in SUBSET Budgets /\ budget \in budgets_set
  /\ sm \in [Cols -> StateMachine]
  /\ task \in [Cols -> TaskStates]
  /\ group_start \in 0 .. NCols
  /\ effective_max_batch_size \in WarmUpSizes
  /\ phase \in Phases
  /\ delivered \in Nat
  /\ chunk \in Chunk

Init ==
  /\ \E s \in Scans : nrows = s[1] /\ limit = s[2]
  /\ max_threads \in ThreadCaps
  /\ budget \in Budgets
  /\ budgets_set = {budget}
  /\ sm = [c \in Cols |-> NewStateMachine(limit)]
  /\ task = [c \in Cols |-> "none"]
  /\ group_start = 0
  /\ effective_max_batch_size = MAX_BATCH_SIZE
  /\ phase = "between calls"
  /\ delivered = 0
  /\ chunk = [c \in Cols |-> [from |-> 0, rows |-> 0]]

-----------------------------------------------------------------------------
(* The function call: scanning, stepping, and what DuckDB does with it.    *)

(* Mutant: go on until DuckDB has seen an empty chunk.                      *)
AlwaysMoreResults == TRUE

HasMoreResults == \E c \in Cols : sm[c].current_state # "FINISHED"

GroupSize == IF max_threads > 0 /\ max_threads < NCols THEN max_threads ELSE NCols

(* Mutant: the cap on concurrent calls is ignored.                         *)
WholeGroup(start) == {c \in Cols : c > start}

(* Mutant: the last column of a group is left out.                         *)
ShortGroup(start) == {c \in Cols : start < c /\ c < start + GroupSize}

(* The columns whose tasks are scheduled together after the first "start". *)
Group(start) == {c \in Cols : start < c /\ c <= start + GroupSize}

Scheduled(start) == [c \in Cols |-> IF c \in Group(start) THEN "queued" ELSE task[c]]

(* Nothing left: the scan function returns the empty chunk untouched.      *)
ReturnEmpty ==
  /\ phase = "between calls"
  /\ ~ HasMoreResults
  /\ phase' = "ended"
  /\ UNCHANGED <<parameters, setting, sm, task, group_start,
                 effective_max_batch_size, output>>

BeginStep ==
  /\ phase = "between calls"
  /\ HasMoreResults
  /\ phase' = "stepping"
  /\ effective_max_batch_size' = MaxBatchSizeForColumnCount(NCols, budget)
  /\ group_start' = 0
  /\ task' = Scheduled(0)
  /\ UNCHANGED <<parameters, setting, sm, output>>

(* WorkOnTasks returns once every task of the group has finished.          *)
GroupDone == \A c \in Group(group_start) : task[c] \in Finished
GroupRaised == \E c \in Group(group_start) : task[c] = "raised"
LastGroup == group_start + GroupSize >= NCols

NextGroup ==
  /\ phase = "stepping"
  /\ GroupDone
  /\ ~ GroupRaised
  /\ ~ LastGroup
  /\ group_start' = group_start + GroupSize
  /\ task' = Scheduled(group_start + GroupSize)
  /\ UNCHANGED <<parameters, setting, sm, effective_max_batch_size, phase, output>>

(* An error of a task is rethrown out of Step and ends the query.          *)
StepRaises ==
  /\ phase = "stepping"
  /\ GroupDone
  /\ GroupRaised
  /\ phase' = "failed"
  /\ UNCHANGED <<parameters, setting, sm, task, group_start,
                 effective_max_batch_size, output>>

AreActiveStateMachineCardinalitiesEqual ==
  \A c \in Cols : sm[c].cardinality = sm[1].cardinality

(* Step returns the chunk.  DuckDB takes an empty one for the end of the   *)
(* scan and calls again after any other.                                   *)
EndStep ==
  /\ phase = "stepping"
  /\ GroupDone
  /\ ~ GroupRaised
  /\ LastGroup
  /\ task' = [c \in Cols |-> "none"]
  /\ \/ /\ ~ AreActiveStateMachineCardinalitiesEqual
        /\ phase' = "failed"
        /\ UNCHANGED output
     \/ /\ AreActiveStateMachineCardinalitiesEqual
        /\ sm[1].cardinality = 0
        /\ phase' = "ended"
        /\ UNCHANGED output
     \/ /\ AreActiveStateMachineCardinalitiesEqual
        /\ sm[1].cardinality > 0
        /\ phase' = "between calls"
        /\ delivered' = delivered + sm[1].cardinality
        /\ chunk' = [c \in Cols |-> [from |-> sm[c].first, rows |-> sm[c].cardinality]]
  /\ UNCHANGED <<parameters, setting, sm, group_start, effective_max_batch_size>>

-----------------------------------------------------------------------------
(* RfcReadColumnTask::ExecuteTask for column c, on some worker thread.     *)

(* RFC_READ_TABLE: rows from offset skip on, count of them at most.        *)
ServerRows(skip, count) ==
  IF skip >= nrows THEN 0 ELSE Smaller(count, nrows - skip)

(* A worker picks the task up and locks the machine.                       *)
StartTask(c) ==
  /\ task[c] = "queued"
  /\ ~ GroupRaised
  /\ task' = [task EXCEPT ![c] = "running"]
  /\ sm' = [sm EXCEPT ![c] = Started(@)]
  /\ UNCHANGED <<parameters, setting, group_start, effective_max_batch_size,
                 phase, output>>

(* The executor already holds an error: the task is counted, not run.      *)
SkipTask(c) ==
  /\ task[c] = "queued"
  /\ GroupRaised
  /\ task' = [task EXCEPT ![c] = "skipped"]
  /\ UNCHANGED <<parameters, setting, sm, group_start, effective_max_batch_size,
                 phase, output>>

(* Mutant: the task computes the cap from the live setting.                *)
LiveBudgetReadBatch(c) ==
  /\ task[c] = "running"
  /\ sm[c].current_state = "EXTRACT_FROM_SAP"
  /\ sm' = [sm EXCEPT ![c] =
              Extracted(@, limit, MaxBatchSizeForColumnCount(NCols, budget),
                        ServerRows(RowSkips(@), RowCount(@, limit)))]
  /\ UNCHANGED <<parameters, setting, task, group_start, effective_max_batch_size,
                 phase, output>>

(* The call returned: INIT or an exhausted batch, then EXTRACT_FROM_SAP.   *)
ReadBatch(c) ==
  /\ task[c] = "running"
  /\ sm[c].current_state = "EXTRACT_FROM_SAP"
  /\ sm' = [sm EXCEPT ![c] =
              Extracted(@, limit, effective_max_batch_size,
                        ServerRows(RowSkips(@), RowCount(@, limit)))]
  /\ UNCHANGED <<parameters, setting, task, group_start, effective_max_batch_size,
                 phase, output>>

(* The read gave up, or a row could not be converted while it was loaded:  *)
(* the error goes to the executor.                                         *)
TaskRaises(c) ==
  /\ task[c] = "running"
  /\ sm[c].current_state # "FINISHED"
  /\ task' = [task EXCEPT ![c] = "raised"]
  /\ UNCHANGED <<parameters, setting, sm, group_start, effective_max_batch_size,
                 phase, output>>

(* One vector goes into the output chunk and control back to DuckDB.       *)
LoadVector(c) ==
  /\ task[c] = "running"
  /\ sm[c].current_state \in {"LOAD_TO_DUCKDB", "FINAL_LOAD_TO_DUCKDB"}
  /\ task' = [task EXCEPT ![c] = "done"]
  /\ sm' = [sm EXCEPT ![c] = Loaded(@, limit)]
  /\ UNCHANGED <<parameters, setting, group_start, effective_max_batch_size,
                 phase, output>>

(* SET erpl_rfc_read_table_batch_budget in any session of the process.     *)
SetBudget ==
  /\ phase \in {"between calls", "stepping"}
  /\ budget' \in Budgets \ {budget}
  /\ budgets_set' = budgets_set \cup {budget'}
  /\ UNCHANGED <<parameters, sm, task, group_start, effective_max_batch_size,
                 phase, output>>

-----------------------------------------------------------------------------
Task(c) ==
  StartTask(c) \/ SkipTask(c) \/ ReadBatch(c) \/ TaskRaises(c) \/ LoadVector(c)

Step == BeginStep \/ NextGroup \/ StepRaises \/ EndStep

Next ==
  \/ Step
  \/ ReturnEmpty
  \/ \E c \in Cols : Task(c)
  \/ SetBudget

Spec == Init /\ [][Next]_vars

(* DuckDB runs a query to its end, and its workers run every queued task;  *)
(* a remote call returns or raises.                                        *)
Fairness ==
  /\ WF_vars(Step \/ ReturnEmpty)
  /\ \A c \in Cols : WF_vars(Task(c))

FairSpec == Spec /\ Fairness

-----------------------------------------------------------------------------
(***************************************************************************)
(* What the scan must get right.                                           *)
(***************************************************************************)

(* Every call a column is about to make is one RFC_READ_TABLE accepts: it  *)
(* asks for at least one row (0 would mean all) and its ROWSKIPS is a      *)
(* multiple of its ROWCOUNT.  About CreateFunctionArguments and the        *)
(* doubling and trimming rules, across warm-up, budget changes and         *)
(* MAX_ROWS.                                                               *)
LegalRowSkips ==
  \A c \in Cols :
    sm[c].current_state = "EXTRACT_FROM_SAP" =>
      /\ RowCount(sm[c], limit) > 0
      /\ RowSkips(sm[c]) % RowCount(sm[c], limit) = 0

(* The columns never drift apart: whenever no task is in flight, all       *)
(* machines have handed out the same rows and are in the same state, and   *)
(* the rows they count are those delivered.  About Step running the tasks  *)
(* in groups and in any order, each on its own machine.                    *)
LockStep ==
  phase = "between calls" =>
    \A c \in Cols : sm[c] = sm[1] /\ sm[c].total_rows = delivered

(* The equal-cardinality check of Step never fires on a table that does    *)
(* not change: the error it raises "should not happen".                    *)
CardinalitiesAgree ==
  phase = "stepping" /\ LastGroup /\ GroupDone /\ ~ GroupRaised =>
    AreActiveStateMachineCardinalitiesEqual

(* No more than THREADS columns are between taking their machine's lock    *)
(* and returning, hence no more than THREADS remote calls are outstanding. *)
ThreadsRespected ==
  max_threads > 0 => Cardinality({c \in Cols : task[c] = "running"}) <= max_threads

(* However often the budget is changed during a scan, a column's batch     *)
(* times the number of columns stays within a budget that was in force at  *)
(* some time of that scan, unless the batch is the minimum of one vector,  *)
(* there is a single column, or no bound was asked for meanwhile (0): the  *)
(* bound on SDK buffers (issue #69).  MAX_ROWS scans are outside it: their *)
(* batch is MAX_ROWS itself.                                               *)
BuffersWithinBudget ==
  limit = 0 /\ NCols > 1 =>
    \A c \in Cols : \/ sm[c].current_batch_rows <= STANDARD_VECTOR_SIZE
                   \/ \E b \in budgets_set : b = 0 \/ NCols * sm[c].current_batch_rows <= b

(* When the scan has ended, MAX_ROWS or not, no column still holds the     *)
(* connection and the result table of its last batch - provided the last   *)
(* batch was not over-fetched.                                             *)
Overfetched ==
  /\ limit > MAX_BATCH_SIZE
  /\ nrows > limit
  /\ limit % STANDARD_VECTOR_SIZE # 0
  /\ limit % (limit % STANDARD_VECTOR_SIZE) # 0

ReleasedAtEnd ==
  phase = "ended" /\ ~ Overfetched =>
    \A c \in Cols : sm[c].current_state = "FINISHED" /\ sm[c].current_batch_rows = 0

(* The scan implements TableScan, and it comes to an end.                  *)
Outcome ==
  CASE phase = "ended"  -> "ended"
    [] phase = "failed" -> "failed"
    [] OTHER            -> "scanning"

Abstract == INSTANCE TableScan WITH outcome <- Outcome

Implements == Abstract!Spec

ScanEnds == <>(phase \in {"ended", "failed"})
=============================================================================
