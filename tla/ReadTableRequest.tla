-------------------------- MODULE ReadTableRequest --------------------------
(***************************************************************************)
(* What sap_read_table asks of SAP: RfcReadTableBind and InitGlobalState   *)
(* turn FILTER, COLUMNS, the projection and DuckDB's pushed-down filters   *)
(* into the OPTIONS and FIELDS of the read function, every active column   *)
(* sends its request, and ResolveResultTable looks for the answer among    *)
(* the function's result tables.                                           *)
(*                                                                         *)
(* A WHERE clause is a sequence of words with single blanks between them,  *)
(* each with its length: a condition is a column, an operator and a        *)
(* literal.  An option is a line of the clause: words, and whether the     *)
(* line starts with a blank.  The rows of the table are fixed.             *)
(***************************************************************************)
EXTENDS Integers, Sequences, FiniteSets, SequencesExt, FiniteSetsExt

CONSTANTS
  FieldNames,              \* DDIC fields of the table, in order: a sequence
  FieldKind,               \* of each: "text", "date" or "NODE"
  FieldWidth,              \* of each, in the characters of a result row
  NameLength,              \* of each, in characters
  Values,                  \* of the fields
  ValueLength,             \* of each, in characters, as DuckDB prints it
  Greater,                 \* of each, the values greater than it
  Rows,                    \* the table: a set of functions from fields to values
  ReadTableFunctions,      \* the allowed READ_TABLE_FUNCTIONs
  Parameters,              \* of each: [name, direction]
  ResultTables,            \* of each, its result tables
  TableWidth,              \* of each result table the widest row it takes
  TableCandidates,         \* TBLOUT30000 .. TBLOUT128, the widest first: a sequence
  MAX_OPTION_LEN,          \* 70
  MAX_IN_VALUES,           \* 5
  Projections,             \* column_ids: sequences of column numbers, 0: rowid
  Filters,                 \* pushed-down filters of one column
  Statements,              \* [function, columns, where]: where is FILTER in words
  MaxExecutions            \* bound: executions of the bound statement

GetTableFieldMetas == SelectSeq(FieldNames, LAMBDA f : FieldKind[f] # "NODE")

Fields == Range(GetTableFieldMetas)

(* Names, values and words have lengths; a line has room for more than an  *)
(* AND.                                                                    *)
ASSUME RequestAssumption ==
  /\ {MAX_OPTION_LEN, MAX_IN_VALUES, MaxExecutions} \subseteq Nat \ {0}
  /\ MAX_OPTION_LEN > 3
  /\ GetTableFieldMetas \in Seq(Fields)
  /\ \A f \in Fields : NameLength[f] \in Nat /\ FieldWidth[f] \in Nat
  /\ \A v \in Values : ValueLength[v] \in Nat
  /\ \A s \in Statements :
       /\ s.columns \in Seq(Range(s.columns))
       /\ s.where \in Seq(Range(s.where))
       /\ \A w \in Range(s.where) : w.len \in Nat
  /\ \A filter \in Filters : filter.values \subseteq Values /\ IsFiniteSet(filter.values)
  /\ Projections \subseteq Seq(Nat)

(* The read functions: all take OPTIONS; RFC_READ_TABLE answers in DATA, a *)
(* function with TBLOUT tables in one of them, and its widest takes every  *)
(* field of the table.                                                     *)
ASSUME FunctionAssumption ==
  /\ TableCandidates \in Seq(Range(TableCandidates))
  /\ "DATA" \notin Range(TableCandidates)
  /\ \A t \in Range(TableCandidates) : TableWidth[t] \in Nat
  /\ \A function \in ReadTableFunctions :
       LET tables == ResultTables[function] \cap Range(TableCandidates)
       IN /\ \E p \in Parameters[function] : p.name = "OPTIONS" /\ p.direction # "EXPORT"
          /\ function = "RFC_READ_TABLE" => tables = {}
          /\ tables # {} =>
               \A f \in Fields : \E t \in tables : TableWidth[t] >= FieldWidth[f]

VARIABLES
  pc,           \* "bind", "bound", "reading", "done", "too_long" or "error"
  bind_data,    \* what RfcReadTableBindData keeps
  plan,         \* DuckDB's: column_ids, and filters per projected column
  answer,       \* per column <<the rows found>>, <<>>: not read
  executions

vars == <<pc, bind_data, plan, answer, executions>>

-----------------------------------------------------------------------------
(* Words, lines and what a clause admits.                                  *)

NoField == "no_field"
Word(part, len) == [part |-> part, field |-> NoField, values |-> {}, len |-> len]
AndWord == Word("AND", 3)
OrWord == Word("OR", 2)

LengthOf(words) ==
  LET End[n \in 0 .. Len(words)] == IF n = 0 THEN -1 ELSE End[n - 1] + 1 + words[n].len
  IN End[Len(words)]

LineLength(line) == LengthOf(line.words) + (IF line.blank THEN 1 ELSE 0)

Clause(lines) == FlattenSeq([i \in DOMAIN lines |-> lines[i].words])

(* The SAP side: AND binds tighter than OR, lines make one clause.         *)
Admits(words, row) ==
  LET ors == {i \in DOMAIN words : words[i].part = "OR"}
      Met(i) == words[i].part = "literal" => row[words[i].field] \in words[i].values
  IN words = <<>> \/ \E first \in {0} \cup ors :
       \A i \in first + 1 .. Len(words) :
         Met(i) \/ \E o \in ors : first < o /\ o <= i

-----------------------------------------------------------------------------
Line(words, n, blank) == [words |-> SubSeq(words, 1, n), blank |-> blank]

(* Mutants: the blank a line starts with is not counted; character         *)
(* MAX_OPTION_LEN itself is not looked at.                                 *)
OptionEndUncounted(words, blank) ==
  LET cuts == {n \in 1 .. Len(words) - 1 :
                 LineLength(Line(words, n, FALSE)) <= MAX_OPTION_LEN}
  IN IF LineLength(Line(words, Len(words), FALSE)) <= MAX_OPTION_LEN THEN Len(words)
     ELSE IF cuts = {} THEN 0 ELSE Max(cuts)
OptionEndBefore(words, blank) ==
  LET cuts == {n \in 1 .. Len(words) - 1 :
                 LineLength(Line(words, n, blank)) < MAX_OPTION_LEN}
  IN IF LineLength(Line(words, Len(words), blank)) <= MAX_OPTION_LEN THEN Len(words)
     ELSE IF cuts = {} THEN 0 ELSE Max(cuts)

(* How many words the next line takes; 0: the clause cannot be split.  A   *)
(* line that does not hold the rest ends before the last blank up to       *)
(* character MAX_OPTION_LEN; the blank it starts with does not count.      *)
OptionEnd(words, blank) ==
  LET cuts == {n \in 1 .. Len(words) - 1 :
                 LineLength(Line(words, n, blank)) <= MAX_OPTION_LEN}
  IN IF LineLength(Line(words, Len(words), blank)) <= MAX_OPTION_LEN THEN Len(words)
     ELSE IF cuts = {} THEN 0 ELSE Max(cuts)

(* One turn of the loop: a line is cut from the rest of the clause, with   *)
(* the blank behind the line before it.                                    *)
CutLine(cut) ==
  LET blank == cut.lines # <<>>
      n == OptionEnd(cut.rest, blank)
  IN IF cut.threw \/ cut.rest = <<>> THEN cut
     ELSE IF n = 0 THEN [cut EXCEPT !.threw = TRUE]
     ELSE [cut EXCEPT !.lines = Append(@, Line(cut.rest, n, blank)),
                      !.rest = SubSeq(@, n + 1, Len(@))]

AddOptionsFromWhereClause(options, where_clause) ==
  LET Turn[j \in 0 .. Len(where_clause)] ==
        IF j = 0 THEN [lines |-> options, rest |-> where_clause, threw |-> FALSE]
        ELSE CutLine(Turn[j - 1])
  IN Turn[Len(where_clause)]

(* A constant is written as DuckDB prints it: a date as 2013-12-11, which  *)
(* is no value of a DATS field.  A value is assumed to have no quote in it *)
(* (an IN doubles it, an equality does not) and no blank (at which a line  *)
(* may be cut, in the middle of the literal).                              *)
Literals(field, values, list) ==
  LET quoted == SetToSeq(values)
  IN [i \in DOMAIN quoted |->
       [part |-> IF i = Len(quoted) THEN "literal" ELSE "item",
        field |-> field,
        values |-> IF FieldKind[field] = "date" THEN {} ELSE values,
        len |-> ValueLength[quoted[i]] + 2
                  + (IF list THEN 1 ELSE 0) + (IF list /\ i = 1 THEN 1 ELSE 0)]]

(* Mutant: any comparison with a constant becomes an equality.             *)
TransformFilterEquals(field, filter) ==
  LET name == <<Word("column", NameLength[field])>>
  IN CASE filter.type \in {"COMPARE_EQUAL", "COMPARE_GREATERTHAN"} ->
            name \o <<Word("=", 1)>> \o Literals(field, filter.values, FALSE)
       [] filter.type = "IN_FILTER" /\ Cardinality(filter.values) <= MAX_IN_VALUES ->
            name \o <<Word("IN", 2)>> \o Literals(field, filter.values, TRUE)
       [] OTHER -> <<>>

(* Only an equality and a short IN; an OPTIONAL_FILTER is its child.       *)
TransformFilter(field, filter) ==
  LET name == <<Word("column", NameLength[field])>>
  IN CASE filter.type = "COMPARE_EQUAL" ->
            name \o <<Word("=", 1)>> \o Literals(field, filter.values, FALSE)
       [] filter.type = "IN_FILTER" /\ Cardinality(filter.values) <= MAX_IN_VALUES ->
            name \o <<Word("IN", 2)>> \o Literals(field, filter.values, TRUE)
       [] OTHER -> <<>>

-----------------------------------------------------------------------------
(* Binding.                                                                *)

ResolveReadTableResultPath(function) ==
  LET found == {i \in DOMAIN TableCandidates : TableCandidates[i] \in ResultTables[function]}
  IN IF function = "RFC_READ_TABLE" \/ found = {} THEN "DATA" ELSE TableCandidates[Min(found)]

NewMachine == [active |-> TRUE, projected |-> 0, rowid |-> FALSE, finished |-> FALSE]

NoBindData == [function |-> "RFC_READ_TABLE", fields |-> <<>>, options |-> <<>>,
               where |-> <<>>, params |-> {}, path |-> "DATA", machines |-> <<>>]

NoPlan == [column_ids |-> <<>>, filters |-> <<>>]

Init ==
  /\ pc = "bind"
  /\ bind_data = NoBindData
  /\ plan = NoPlan
  /\ answer = <<>>
  /\ executions = 0

ValidateReadTableFunctionName(function) == function \in ReadTableFunctions

ResolveReadTableImportParams(function) ==
  {p.name : p \in {q \in Parameters[function] : q.direction # "EXPORT"}}

CreateReadColumnStateMachines(fields) == [i \in DOMAIN fields |-> NewMachine]

(* No COLUMNS are all fields of the table but its nodes.                   *)
RequestedFields(columns) == IF columns = <<>> THEN GetTableFieldMetas ELSE columns

(* For columns of string types the function is probed for ET_DATA as well: *)
(* that decides how a batch is asked for (ReadTaskConnections), not what.  *)
InitAndVerifyFields(s) ==
  LET fields == RequestedFields(s.columns)
  IN [NoBindData EXCEPT
       !.function = s.function, !.fields = fields,
       !.params = ResolveReadTableImportParams(s.function),
       !.path = ResolveReadTableResultPath(s.function),
       !.machines = CreateReadColumnStateMachines(fields)]

RfcReadTableBind(s) ==
  /\ pc = "bind"
  /\ LET cut == AddOptionsFromWhereClause(<<>>, s.where)
         known == /\ ValidateReadTableFunctionName(s.function)
                  /\ Range(RequestedFields(s.columns)) \subseteq Range(GetTableFieldMetas)
     IN IF ~ cut.threw /\ known
        THEN /\ pc' = "bound"
             /\ bind_data' = [InitAndVerifyFields(s) EXCEPT !.where = s.where,
                                                           !.options = cut.lines]
        ELSE /\ pc' = IF cut.threw THEN "too_long" ELSE "error"
             /\ bind_data' = [NoBindData EXCEPT !.where = s.where]
  /\ UNCHANGED <<plan, answer, executions>>

-----------------------------------------------------------------------------
(* Execution.                                                              *)

(* The places of a column in the projection.  A rowid is read by the       *)
(* machine of the first column.                                            *)
Places(column_ids, m) ==
  {i \in DOMAIN column_ids : column_ids[i] \in {m} \cup (IF m = 1 THEN {0} ELSE {})}

(* The last place counts; the flag of a rowid is never taken back.         *)
ActivateColumns(machines, column_ids) ==
  [m \in DOMAIN machines |->
     LET at == Places(column_ids, m)
     IN [machines[m] EXCEPT
           !.active = at # {},
           !.projected = IF at = {} THEN @ ELSE Max(at),
           !.rowid = @ \/ \E i \in at : column_ids[i] = 0]]

ProjectedAt(machines, i) == {m \in DOMAIN machines : machines[m].projected = i}

GetProjectedColumnName(machines, i) == bind_data.fields[Min(ProjectedAt(machines, i))]

(* filters: one per projected column, in the order of the columns.         *)
AddOptionsFromFilters(machines, filters) ==
  LET entry(i) == TransformFilter(GetProjectedColumnName(machines, i), filters[i])
      first(i) == bind_data.options = <<>> /\ \A j \in 1 .. i - 1 : entry(j) = <<>>
      joined == FlattenSeq([i \in DOMAIN filters |->
                  IF entry(i) = <<>> \/ first(i) THEN entry(i) ELSE <<AndWord>> \o entry(i)])
  IN AddOptionsFromWhereClause(bind_data.options, joined)

(* A prepared statement executes its plan on the same bind data again.     *)
(* The name of a column whose place was taken by another is not found.     *)
RfcReadTableInitGlobalState(column_ids, filters) ==
  /\ pc \in {"bound", "done"}
  /\ executions < MaxExecutions
  /\ plan \in {NoPlan, [column_ids |-> column_ids, filters |-> filters]}
  /\ Range(column_ids) \subseteq 0 .. Len(bind_data.fields)
  /\ LET machines == ActivateColumns(bind_data.machines, column_ids)
         found == \A i \in DOMAIN filters : ProjectedAt(machines, i) # {}
         added == AddOptionsFromFilters(machines, filters)
     IN IF found
        THEN /\ bind_data' = [bind_data EXCEPT !.machines = machines, !.options = added.lines]
             /\ pc' = IF added.threw THEN "too_long" ELSE "reading"
        ELSE /\ bind_data' = [bind_data EXCEPT !.machines = machines]
             /\ pc' = "error"
  /\ plan' = [column_ids |-> column_ids, filters |-> filters]
  /\ answer' = [m \in DOMAIN bind_data.fields |-> <<>>]
  /\ executions' = executions + 1

CreateFunctionArguments(m) ==
  [field |-> bind_data.fields[m],
   options |-> IF "OPTIONS" \in bind_data.params THEN bind_data.options ELSE <<>>]

(* The SAP side: the answer is in the smallest table that takes the row.   *)
AnsweredIn(function, field) ==
  LET wide == {t \in ResultTables[function] :
                 t \in Range(TableCandidates) /\ TableWidth[t] >= FieldWidth[field]}
      least == {t \in wide : \A u \in wide : TableWidth[t] <= TableWidth[u]}
  IN IF least = {} THEN "DATA" ELSE CHOOSE t \in least : TRUE

(* Mutant: only the table of the bound path is looked at.                  *)
ResolveBoundTable(holds) == holds[bind_data.path]

(* The bound path first; the other TBLOUT tables when it holds no row.     *)
ResolveResultTable(holds) ==
  LET probed == {t \in Range(TableCandidates) : t # bind_data.path /\ holds[t] # {}}
  IN IF holds[bind_data.path] # {} \/ probed = {} \/ bind_data.path = "DATA"
     THEN holds[bind_data.path]
     ELSE holds[CHOOSE t \in probed : \A u \in probed : TableWidth[t] <= TableWidth[u]]

(* All batches of one active column, to the end of the table.              *)
ReadColumn(m) ==
  /\ pc = "reading"
  /\ bind_data.machines[m].active /\ ~ bind_data.machines[m].finished
  /\ LET request == CreateFunctionArguments(m)
         rows == {r \in Rows : Admits(Clause(request.options), r)}
         holds == [t \in {"DATA"} \cup Range(TableCandidates) |->
                     IF t = AnsweredIn(bind_data.function, request.field) THEN rows ELSE {}]
     IN answer' = [answer EXCEPT ![m] = <<ResolveResultTable(holds)>>]
  /\ bind_data' = [bind_data EXCEPT !.machines[m].finished = TRUE]
  /\ UNCHANGED <<pc, plan, executions>>

HasMoreResults ==
  \E m \in DOMAIN bind_data.machines :
    bind_data.machines[m].active /\ ~ bind_data.machines[m].finished

Finish ==
  /\ pc = "reading" /\ ~ HasMoreResults
  /\ pc' = "done"
  /\ UNCHANGED <<bind_data, plan, answer, executions>>

Next ==
  \/ \E s \in Statements : RfcReadTableBind(s)
  \/ \E column_ids \in Projections, filters \in UNION {[1 .. n -> Filters] : n \in 0 .. 2} :
       /\ Len(filters) <= Len(column_ids)
       /\ \A i \in DOMAIN filters : column_ids[i] # 0
       /\ RfcReadTableInitGlobalState(column_ids, filters)
  \/ \E m \in DOMAIN bind_data.machines : ReadColumn(m)
  \/ Finish

Spec == Init /\ [][Next]_vars

-----------------------------------------------------------------------------
(* Properties.                                                             *)

(* The clause survives its cutting: every line fits the 70 characters of   *)
(* an option, only the first starts without a blank, so that no two words  *)
(* run together, and the lines spell FILTER before anything else.          *)
(* [AddOptionsFromWhereClause]                                             *)
LinesHoldTheClause ==
  pc \in {"bound", "reading", "done"} =>
    /\ \A i \in DOMAIN bind_data.options :
         LET line == bind_data.options[i]
         IN line.words # <<>> /\ LineLength(line) <= MAX_OPTION_LEN /\ (line.blank <=> i > 1)
    /\ IsPrefix(bind_data.where, Clause(bind_data.options))

(* A clause is refused as too long only for a word that leaves no room for *)
(* its blank on a line, wherever the lines before it were cut.             *)
(* [AddOptionsFromWhereClause, AddOptionsFromFilters]                      *)
RefusedOnlyForLongWords ==
  LET pushed == FlattenSeq([i \in DOMAIN plan.filters |->
        TransformFilter(GetProjectedColumnName(bind_data.machines, i), plan.filters[i])])
  IN pc = "too_long" =>
       \E w \in Range(bind_data.where \o pushed) : w.len >= MAX_OPTION_LEN

Passes(row, i) ==
  LET value == row[GetProjectedColumnName(bind_data.machines, i)]
      values == plan.filters[i].values
  IN IF plan.filters[i].type = "COMPARE_GREATERTHAN"
     THEN \E v \in values : value \in Greater[v] ELSE value \in values

OnText(i) == FieldKind[GetProjectedColumnName(bind_data.machines, i)] = "text"

(* What is asked lies between what the query keeps and what FILTER keeps:  *)
(* no row that passes FILTER and the pushed filters is left at SAP, also   *)
(* when only some filters can be pushed, when FILTER has an OR and when a  *)
(* prepared statement pushes its filters again; and no row FILTER excludes *)
(* is fetched.  Filters on text columns: the literal of a date is written  *)
(* as no DATS value is.  [AddOptionsFromFilters, TransformFilter]          *)
AskedRowsMatch ==
  pc \in {"reading", "done"} /\ (\A i \in DOMAIN plan.filters : OnText(i)) =>
    \A r \in Rows :
      LET asked == Admits(Clause(bind_data.options), r)
          wanted == Admits(bind_data.where, r)
      IN /\ wanted /\ (\A i \in DOMAIN plan.filters : Passes(r, i)) => asked
         /\ asked => wanted

(* The columns of a chunk are put side by side by position, so all of them *)
(* must find the same rows, whichever result table the width of each one   *)
(* made SAP fill.  [ResolveResultTable, ResolveReadTableResultPath]        *)
ColumnsFindTheSameRows ==
  \A m \in DOMAIN answer :
    answer[m] \in {<<>>, <<{r \in Rows : Admits(Clause(bind_data.options), r)}>>}

(* The rows of a scan pass the comparisons DuckDB gave it, which with      *)
(* filter_pushdown set nobody applies again; an IN filter is optional and  *)
(* DuckDB applies it itself.  ["filter pushdown must produce the same row  *)
(* count and content as filter applied post-scan", test_alignment.py;      *)
(* TransformFilter: "let DuckDB handle them"]                              *)
FiltersApplied ==
  pc = "done" =>
    \A m \in DOMAIN answer : answer[m] # <<>> =>
      \A r \in answer[m][1], i \in DOMAIN plan.filters :
        plan.filters[i].type # "IN_FILTER" => Passes(r, i)
=============================================================================
