-------------------------- MODULE InvokeResultSet --------------------------
(***************************************************************************)
(* The result of sap_rfc_invoke as DuckDB scans it: RfcResultSet hands its *)
(* columns over chunk by chunk, with a cursor that lives in the bind data  *)
(* of the statement.  The metadata functions (sap_rfc_show_function,       *)
(* sap_describe_fields and others) read theirs through it as well, some    *)
(* with a list of the columns they want, in their order.                   *)
(*                                                                         *)
(* A cell is a column and a row of it.  All tables of a result have as     *)
(* many rows: tables of different parameters never meet in a chunk.        *)
(***************************************************************************)
EXTENDS ResultPath

CONSTANTS
  STANDARD_VECTOR_SIZE,
  Invocations,     \* [results, rows, path, selected]: types of the result
                   \* parameters, rows of their tables, the path, and the
                   \* columns wanted (<<>> for all)
  MaxExecutions    \* bound: executions of the statement after the first

(* The types are trees and the rows of a table have fields; columns are    *)
(* wanted only of the table a path ends at, none twice.                    *)
ASSUME InvokeAssumption ==
  /\ STANDARD_VECTOR_SIZE \in Nat \ {0}
  /\ MaxExecutions \in Nat
  /\ \A i \in Invocations :
       /\ i.rows \in Nat
       /\ i.path \in Seq(Nat)
       /\ i.selected \in Seq(Seq(Nat))
       /\ IsInjective(i.selected)
       /\ PathFound(i.results, i.path) /\ i.selected # <<>> =>
            Pivoted(i.results, i.path) /\ ValuePath(i.results, i.path) = i.path
       /\ PathFound(i.results, i.path) /\ Pivoted(i.results, i.path) =>
            InferResultSchema(i.results, i.path) # <<>>
       /\ PathFound(i.results, i.path) =>
            \A p \in {i.path, ValuePath(i.results, i.path)} :
              /\ p \in Seq(Nat)
              /\ TypeAt(i.results, p).fields \in Seq(Range(TypeAt(i.results, p).fields))

VARIABLES
  invocation,
  phase,             \* "bind", "scan", "ended", "raised" or "crashed"
  total_rows, current_row_idx, ok_only_emitted,
  out,               \* per column of the statement, the cells DuckDB got
  abandoned,         \* the execution ended before its last row, as by LIMIT
  executions

cursor == <<total_rows, current_row_idx, ok_only_emitted>>
vars == <<invocation, phase, cursor, out, abandoned, executions>>

Schema == InferResultSchema(invocation.results, invocation.path)
Values == ValueColumns(invocation.results, invocation.path)
Tabular == IsTabularResult(invocation.results, invocation.path)
FromTable == Pivoted(invocation.results, invocation.path)

(* The columns of the statement; one without any is given a column "ok".   *)
OkColumn == <<0>>
OkOnly == Schema = <<>>

(* The bind data's own list has no names unless columns are wanted; then   *)
(* it is what the metadata functions return, as sap_rfc_invoke returns the *)
(* names of the result.                                                    *)
GetResultNames == invocation.selected

ColumnNames ==
  IF OkOnly THEN <<OkColumn>>
  ELSE IF invocation.selected = <<>> THEN Schema ELSE GetResultNames

(* The column whose type each has: wanted ones in the order of the result. *)
GetResultTypes ==
  IF invocation.selected = <<>>
    THEN Schema
    ELSE SelectSeq(Schema, LAMBDA name : Contains(invocation.selected, name))

TypeOK ==
  /\ invocation \in Invocations
  /\ phase \in {"bind", "scan", "ended", "raised", "crashed"}
  /\ total_rows \in Nat /\ current_row_idx \in Nat
  /\ ok_only_emitted \in BOOLEAN /\ abandoned \in BOOLEAN
  /\ executions \in 0 .. MaxExecutions
  /\ out \in Seq(Seq(Seq(Nat) \X Nat))

Init ==
  /\ invocation \in Invocations
  /\ phase = "bind"
  /\ total_rows = 0 /\ current_row_idx = 0 /\ ok_only_emitted = FALSE
  /\ out = <<>>
  /\ abandoned = FALSE
  /\ executions = 0

-----------------------------------------------------------------------------
TotalRows == IF FromTable THEN invocation.rows ELSE 1

(* RfcInvokeBind calls the function and takes its result.  A wanted column *)
(* the result does not have leaves fewer types than names: DuckDB refuses. *)
Bind ==
  /\ phase = "bind"
  /\ PathFound(invocation.results, invocation.path)
  /\ PathConvertible(invocation.results, invocation.path)
  /\ \A i \in DOMAIN invocation.selected : Contains(Schema, invocation.selected[i])
  /\ phase' = "scan"
  /\ total_rows' = TotalRows
  /\ out' = [i \in DOMAIN ColumnNames |-> <<>>]
  /\ UNCHANGED <<invocation, current_row_idx, ok_only_emitted, abandoned, executions>>

(* The call raises, or the path or the conversion does.                    *)
BindRaises ==
  /\ phase = "bind"
  /\ phase' = "raised"
  /\ UNCHANGED <<invocation, cursor, out, abandoned, executions>>

BindCrashes ==
  /\ phase = "bind"
  /\ PathFound(invocation.results, invocation.path)
  /\ PathUndefined(invocation.results, invocation.path)
  /\ phase' = "crashed"
  /\ UNCHANGED <<invocation, cursor, out, abandoned, executions>>

-----------------------------------------------------------------------------
HasMoreResults == current_row_idx < total_rows

(* Mutant: a value goes to the column at its own place.                    *)
MapColumnsByPosition(s) ==
  IF s \in DOMAIN Schema /\ s \in DOMAIN ColumnNames THEN s ELSE 0

(* The output column of value s: the place its name has among the columns  *)
(* of the statement, 0 for none.  A path that goes on below a table leaves *)
(* more values than names, and the next name is read from behind the last, *)
(* which finds nothing or crashes (FetchCrashes).                          *)
MapColumnsByFieldSelection(s) ==
  IF s \in DOMAIN Schema
    THEN SelectInSeq(ColumnNames, LAMBDA name : name = Schema[s])
    ELSE 0

Mapped == {s \in DOMAIN Values : MapColumnsByFieldSelection(s) # 0}

(* The value that fills output column i; a column without one keeps what   *)
(* its vector held.                                                        *)
NoColumn == <<>>
ValueOf(i) ==
  LET sources == {s \in Mapped : MapColumnsByFieldSelection(s) = i}
  IN IF sources = {} THEN NoColumn ELSE Values[CHOOSE s \in sources : TRUE]

(* Mutant: the last row is left to a call that is not made.                *)
WindowButLast ==
  LET rest == invocation.rows - current_row_idx - 1 IN
  IF rest > STANDARD_VECTOR_SIZE THEN STANDARD_VECTOR_SIZE ELSE rest

(* Mutant: the window is not cut to a vector.                              *)
WindowOfRest == invocation.rows - current_row_idx

Window ==
  LET rest == invocation.rows - current_row_idx IN
  IF rest > STANDARD_VECTOR_SIZE THEN STANDARD_VECTOR_SIZE ELSE rest

(* What value s puts into a cell: an element of a column, or a row of a    *)
(* table that was not pivoted.                                             *)
ElementKind(s) ==
  LET kind == TypeAt(invocation.results, Values[s]).kind
  IN IF FromTable THEN kind ELSE IF kind = "table" THEN "struct" ELSE "scalar"

ColumnType(s) ==
  TypeAt(invocation.results, GetResultTypes[MapColumnsByFieldSelection(s)])

(* SetValue casts it to the type of the output column, which DuckDB cannot *)
(* do between a structure and a list; to another type it may or may not.   *)
CastFails ==
  /\ Window > 0
  /\ \E s \in Mapped :
       \/ ElementKind(s) = "struct" /\ ColumnType(s).kind \in {"table", "lines"}
       \/ ElementKind(s) \in {"table", "lines"} /\ ColumnType(s).kind = "struct"

CastMayFail ==
  /\ Window > 0
  /\ \E s \in Mapped :
       FromTable => TypeAt(invocation.results, Values[s]) # ColumnType(s)

(* DuckDB takes a chunk without rows for the end.                          *)
FetchNextTabularResult ==
  /\ phase = "scan" /\ ~ OkOnly /\ HasMoreResults
  /\ Tabular /\ ~ CastFails
  /\ out' = [i \in DOMAIN out |->
               out[i] \o [k \in 1 .. Window |-> <<ValueOf(i), current_row_idx + k>>]]
  /\ current_row_idx' = current_row_idx + Window
  /\ phase' = IF Window = 0 THEN "ended" ELSE "scan"
  /\ UNCHANGED <<invocation, total_rows, ok_only_emitted, abandoned, executions>>

(* Otherwise the chunk has one row, and the cursor moves by the number of  *)
(* columns.                                                                *)
FetchNextRow ==
  /\ phase = "scan" /\ ~ OkOnly /\ HasMoreResults
  /\ ~ Tabular
  /\ out' = [i \in DOMAIN out |-> Append(out[i], <<Values[i], 1>>)]
  /\ current_row_idx' = current_row_idx + Len(Values)
  /\ UNCHANGED <<invocation, phase, total_rows, ok_only_emitted, abandoned, executions>>

FetchRaises ==
  /\ phase = "scan" /\ ~ OkOnly /\ HasMoreResults
  /\ Tabular /\ CastMayFail
  /\ phase' = "raised"
  /\ UNCHANGED <<invocation, cursor, out, abandoned, executions>>

(* A name behind the last is read, when no cast before it has raised.      *)
FetchCrashes ==
  /\ phase = "scan" /\ ~ OkOnly /\ HasMoreResults
  /\ Tabular /\ ~ CastFails
  /\ ~ (DOMAIN Values \subseteq DOMAIN Schema)
  /\ phase' = "crashed"
  /\ UNCHANGED <<invocation, cursor, out, abandoned, executions>>

(* A function without results: one row, ok = true.                         *)
FetchOk ==
  /\ phase = "scan" /\ OkOnly /\ ~ ok_only_emitted
  /\ ok_only_emitted' = TRUE
  /\ out' = [i \in DOMAIN out |-> Append(out[i], <<OkColumn, 1>>)]
  /\ UNCHANGED <<invocation, phase, total_rows, current_row_idx, abandoned, executions>>

(* Mutant: the end is where the cursor meets the number of rows.           *)
ScanEndsAtLastRow ==
  /\ phase = "scan"
  /\ IF OkOnly THEN ok_only_emitted ELSE current_row_idx = total_rows
  /\ phase' = "ended"
  /\ UNCHANGED <<invocation, cursor, out, abandoned, executions>>

ScanEnds ==
  /\ phase = "scan"
  /\ IF OkOnly THEN ok_only_emitted ELSE ~ HasMoreResults
  /\ phase' = "ended"
  /\ UNCHANGED <<invocation, cursor, out, abandoned, executions>>

-----------------------------------------------------------------------------
(* DuckDB stops calling when the rest of the plan wants no more rows, and  *)
(* scans the same bind data when a prepared statement is executed again.   *)
Abandon ==
  /\ phase = "scan"
  /\ phase' = "ended"
  /\ abandoned' = TRUE
  /\ UNCHANGED <<invocation, cursor, out, executions>>

ExecuteAgain ==
  /\ phase = "ended" /\ executions < MaxExecutions
  /\ phase' = "scan"
  /\ executions' = executions + 1
  /\ abandoned' = FALSE
  /\ UNCHANGED <<invocation, cursor, out>>

RfcInvokeScan ==
  \/ FetchNextTabularResult \/ FetchNextRow \/ FetchRaises \/ FetchCrashes
  \/ FetchOk \/ ScanEnds

Next == Bind \/ BindRaises \/ BindCrashes \/ RfcInvokeScan \/ Abandon \/ ExecuteAgain

Spec == Init /\ [][Next]_vars

(* DuckDB calls the scan until it ends.                                    *)
FairSpec == Spec /\ WF_vars(RfcInvokeScan)

-----------------------------------------------------------------------------
(* The path goes on below a table, or there is none and all results are    *)
(* tables: one row of tables that counts as tabular.                       *)
BelowTable == ValuePath(invocation.results, invocation.path) # invocation.path
OnlyTables == ~ FromTable /\ Tabular /\ ~ OkOnly

(* Every column of the statement holds the rows of the column it is named  *)
(* after, in order, each once, and all columns as many: the schema, the    *)
(* values and the selection are three walks that have to agree.            *)
ColumnsHoldTheirRows ==
  out # <<>> /\ ~ OnlyTables /\ ~ BelowTable =>
    \A i \in DOMAIN out :
      out[i] = [j \in 1 .. Len(out[1]) |-> <<ColumnNames[i], j>>]

(* When an execution has run to its end, all executions have together      *)
(* returned every row: the cursor loses none at a vector's boundary, nor   *)
(* when an earlier execution was abandoned.                                *)
EndsComplete ==
  phase = "ended" /\ ~ abandoned /\ ~ OnlyTables /\ ~ BelowTable => Len(out[1]) = TotalRows

(* No chunk has more rows than a vector.                                   *)
ChunksFit ==
  [][\A i \in DOMAIN out : Len(out'[i]) <= Len(out[i]) + STANDARD_VECTOR_SIZE]_vars

(* Every execution ends: HasMoreResults turns false for one row, beyond    *)
(* which the cursor jumps, as it does for a table.                         *)
ExecutionsEnd == phase = "scan" ~> phase \in {"ended", "raised", "crashed"}
=============================================================================
