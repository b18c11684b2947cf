----------------------- MODULE InvokeResultSet_proofs -----------------------
(***************************************************************************)
(* For every function, result, path and list of wanted columns: the        *)
(* columns of sap_rfc_invoke hold the rows they are named after, an        *)
(* execution that ends has returned all of them, and no step hands over    *)
(* more than a vector.                                                     *)
(*                                                                         *)
(* The invariant says that what DuckDB got is Got(n) for one number n of   *)
(* rows, the same in all columns, and relates n to the cursor.             *)
(***************************************************************************)
EXTENDS InvokeResultSet, TLAPS

Names == ColumnNames

(* The first n rows of every column of the statement.                      *)
Got(n) == [i \in DOMAIN Names |-> [j \in 1 .. n |-> <<Names[i], j>>]]

(* What a bind has checked.                                                *)
Found ==
  /\ PathFound(invocation.results, invocation.path)
  /\ \A i \in DOMAIN invocation.selected : Contains(Schema, invocation.selected[i])

Bound == Found /\ total_rows = TotalRows

CursorAt(n) ==
  /\ OkOnly => n = IF ok_only_emitted THEN 1 ELSE 0
  /\ ~ OkOnly /\ Tabular => n = current_row_idx /\ n <= invocation.rows
  /\ ~ OkOnly /\ ~ FromTable /\ ~ Tabular =>
       \/ n = 0 /\ current_row_idx = 0
       \/ n = 1 /\ current_row_idx >= 1

Finished == IF OkOnly THEN ok_only_emitted ELSE ~ HasMoreResults

Types ==
  /\ invocation \in Invocations
  /\ phase \in {"bind", "scan", "ended", "raised", "crashed"}
  /\ current_row_idx \in Nat
  /\ ok_only_emitted \in BOOLEAN

Inv ==
  /\ Types
  /\ phase = "bind" => out = <<>> /\ current_row_idx = 0 /\ ~ ok_only_emitted
  /\ phase \in {"scan", "ended"} => Bound /\ out # <<>>
  /\ out # <<>> /\ ~ BelowTable =>
       Bound /\ \E n \in Nat : out = Got(n) /\ CursorAt(n)
  /\ phase = "ended" /\ ~ abandoned /\ ~ BelowTable => Finished \/ OnlyTables

-----------------------------------------------------------------------------
(* The columns at the end of a path are distinct.                          *)
LEMMA ColumnsDistinct ==
  ASSUME NEW r, NEW p \in Seq(Nat),
         TypeAt(r, p).fields \in Seq(Range(TypeAt(r, p).fields))
  PROVE  /\ ColumnsAt(r, p) \in Seq(Seq(Nat))
         /\ IsInjective(ColumnsAt(r, p))
<1> DEFINE fs == TypeAt(r, p).fields
<1>1. DOMAIN fs = 1 .. Len(fs) /\ Len(fs) \in Nat
  OBVIOUS
<1>2. \A i \in DOMAIN fs : Append(p, i) \in Seq(Nat) /\ Append(p, i)[Len(p) + 1] = i
  BY <1>1
<1> HIDE DEF fs
<1>3. Children(r, p) = [i \in 1 .. Len(fs) |-> Append(p, i)]
  BY <1>1 DEF Children, fs
<1>4. Children(r, p) \in Seq(Seq(Nat))
  BY <1>1, <1>2, <1>3
<1>5. IsInjective(Children(r, p))
  <2> SUFFICES ASSUME NEW a \in 1 .. Len(fs), NEW b \in 1 .. Len(fs), Append(p, a) = Append(p, b)
               PROVE  a = b
    BY <1>3 DEF IsInjective
  <2> QED BY <1>1, <1>2
<1>6. <<p>> \in Seq(Seq(Nat)) /\ IsInjective(<<p>>)
  BY DEF IsInjective
<1> QED BY <1>4, <1>5, <1>6 DEF ColumnsAt

LEMMA SchemaDistinct ==
  ASSUME invocation \in Invocations, PathFound(invocation.results, invocation.path)
  PROVE  Schema \in Seq(Seq(Nat)) /\ IsInjective(Schema)
BY ColumnsDistinct, InvokeAssumption DEF Schema, InferResultSchema

(* The statement has a column, and every column of it is in the schema.    *)
LEMMA NamesInSchema ==
  ASSUME invocation \in Invocations, Found
  PROVE  /\ Names \in Seq(Seq(Nat)) /\ Names # <<>>
         /\ IsInjective(Names)
         /\ ~ OkOnly => \A i \in DOMAIN Names : \E s \in DOMAIN Schema : Schema[s] = Names[i]
<1>1. Schema \in Seq(Seq(Nat)) /\ IsInjective(Schema)
  BY SchemaDistinct DEF Found
<1>2. invocation.selected \in Seq(Seq(Nat)) /\ IsInjective(invocation.selected)
  BY InvokeAssumption
<1>3. CASE OkOnly
  <2>1. Names = <<OkColumn>>
    BY <1>3 DEF Names, ColumnNames, GetResultNames
  <2> QED BY <1>3, <2>1 DEF IsInjective, OkColumn
<1>4. CASE ~ OkOnly /\ invocation.selected # <<>>
  <2>1. Names = invocation.selected
    BY <1>4 DEF Names, ColumnNames, GetResultNames
  <2>2. \A i \in DOMAIN Names : \E s \in DOMAIN Schema : Schema[s] = Names[i]
    BY <1>1, <2>1 DEF Found, Contains
  <2> QED BY <1>2, <1>4, <2>1, <2>2
<1>5. CASE ~ OkOnly /\ invocation.selected = <<>>
  <2>1. Names = Schema
    BY <1>5 DEF Names, ColumnNames, GetResultNames
  <2> QED BY <1>1, <1>5, <2>1 DEF OkOnly
<1> QED BY <1>3, <1>4, <1>5

(* Above the end of the path the values are those of the schema.           *)
LEMMA SameColumns == ~ BelowTable => Values = Schema
BY DEF BelowTable, Values, Schema, ValueColumns, InferResultSchema

(* Each column of the statement is filled, with the value of its name.     *)
LEMMA ColumnsFilled ==
  ASSUME invocation \in Invocations, Found, ~ BelowTable, ~ OkOnly,
         NEW i \in DOMAIN Names
  PROVE  Mapped # {} /\ ValueOf(i) = Names[i]
<1>1. Names \in Seq(Seq(Nat)) /\ IsInjective(Names)
  BY NamesInSchema
<1>2. \A s \in DOMAIN Schema : \A k \in DOMAIN Names :
        Schema[s] = Names[k] => MapColumnsByFieldSelection(s) = k
  <2> SUFFICES ASSUME NEW s \in DOMAIN Schema, NEW k \in DOMAIN Names, Schema[s] = Names[k]
               PROVE  MapColumnsByFieldSelection(s) = k
    OBVIOUS
  <2> DEFINE I == {m \in 1 .. Len(Names) : Names[m] = Schema[s]}
  <2>1. I = {k}
    BY <1>1 DEF IsInjective
  <2>2. Min(I) = k
    BY <2>1 DEF Min
  <2>3. MapColumnsByFieldSelection(s) = IF I # {} THEN Min(I) ELSE 0
    BY DEF MapColumnsByFieldSelection, SelectInSeq, Names
  <2> QED BY <2>1, <2>2, <2>3
<1>3. \A s \in DOMAIN Schema :
        MapColumnsByFieldSelection(s) # 0 => \E k \in DOMAIN Names : Schema[s] = Names[k]
  <2> SUFFICES ASSUME NEW s \in DOMAIN Schema, MapColumnsByFieldSelection(s) # 0
               PROVE  \E k \in DOMAIN Names : Schema[s] = Names[k]
    OBVIOUS
  <2> DEFINE I == {m \in 1 .. Len(Names) : Names[m] = Schema[s]}
  <2>1. MapColumnsByFieldSelection(s) = IF I # {} THEN Min(I) ELSE 0
    BY DEF MapColumnsByFieldSelection, SelectInSeq, Names
  <2> QED BY <1>1, <2>1
<1>4. PICK s \in DOMAIN Schema : Schema[s] = Names[i]
  BY NamesInSchema
<1>5. MapColumnsByFieldSelection(s) = i /\ i # 0
  BY <1>1, <1>2, <1>4
<1>6. s \in Mapped
  BY <1>5, SameColumns DEF Mapped
<1>7. \A t \in Mapped : MapColumnsByFieldSelection(t) = i => Values[t] = Names[i]
  <2> SUFFICES ASSUME NEW t \in Mapped, MapColumnsByFieldSelection(t) = i
               PROVE  Values[t] = Names[i]
    OBVIOUS
  <2>1. t \in DOMAIN Schema /\ Values = Schema
    BY SameColumns DEF Mapped
  <2>2. PICK k \in DOMAIN Names : Schema[t] = Names[k]
    BY <1>3, <1>5, <2>1
  <2> QED BY <1>2, <2>1, <2>2
<1> QED BY <1>5, <1>6, <1>7 DEF ValueOf

-----------------------------------------------------------------------------
LEMMA InitInv == Init => Inv
<1> SUFFICES ASSUME Init PROVE Inv
  OBVIOUS
<1>1. Types /\ phase = "bind" /\ out = <<>> /\ current_row_idx = 0
  BY DEF Init, Types
<1>2. ~ ok_only_emitted
  BY DEF Init
<1> QED BY <1>1, <1>2 DEF Inv

LEMMA BindInv ==
  ASSUME Inv, Bind
  PROVE  Inv'
<1>1. Types' /\ invocation' = invocation /\ phase' = "scan"
  BY DEF Inv, Types, Bind
<1>2. Bound' /\ Names' = Names /\ OkOnly' = OkOnly
  BY DEF Bind, Bound, Found, Schema, TotalRows, FromTable, Names, ColumnNames, GetResultNames, OkOnly
<1>3. Names \in Seq(Seq(Nat)) /\ Names # <<>>
  <2>1. invocation \in Invocations /\ Found
    BY DEF Inv, Types, Bind, Found
  <2> QED BY <2>1, NamesInSchema
<1>4. out' = Got(0)' /\ out' # <<>>
  BY <1>2, <1>3 DEF Bind, Got, Names
<1>5. CursorAt(0)'
  BY InvokeAssumption, <1>1, <1>2 DEF Inv, Types, Bind, Bound, CursorAt, TotalRows
<1> QED
  BY <1>1, <1>2, <1>4, <1>5 DEF Inv

(* The constant parts of a scan.                                           *)
LEMMA SameInvocation ==
  ASSUME UNCHANGED <<invocation, total_rows>>
  PROVE  /\ Bound' = Bound /\ Names' = Names /\ OkOnly' = OkOnly
         /\ FromTable' = FromTable /\ Tabular' = Tabular /\ BelowTable' = BelowTable
         /\ \A n \in Nat : Got(n)' = Got(n)
BY DEF Bound, Found, Schema, TotalRows, FromTable, Names, ColumnNames, GetResultNames, OkOnly, Tabular,
       BelowTable, Got

LEMMA SeqIsFunction ==
  ASSUME NEW S, NEW u \in Seq(S), NEW m, Len(u) = m
  PROVE  u = [j \in 1 .. m |-> u[j]]
OBVIOUS

(* A chunk of w rows more.                                                 *)
LEMMA GotMore ==
  ASSUME NEW n \in Nat, NEW w \in Nat, NEW i \in DOMAIN Names
  PROVE  Got(n)[i] \o [k \in 1 .. w |-> <<Names[i], n + k>>] = Got(n + w)[i]
<1> DEFINE cell(j) == <<Names[i], j>>
           S == {cell(j) : j \in Nat}
           s == [j \in 1 .. n |-> cell(j)]
           t == [k \in 1 .. w |-> cell(n + k)]
<1>1. s \in Seq(S) /\ Len(s) = n /\ t \in Seq(S) /\ Len(t) = w
  OBVIOUS
<1>2. \A j \in 1 .. n + w : (s \o t)[j] = cell(j)
  <2> SUFFICES ASSUME NEW j \in 1 .. n + w PROVE (s \o t)[j] = cell(j)
    OBVIOUS
  <2>1. CASE j <= n
    BY <1>1, <2>1
  <2>2. CASE j > n
    <3>1. j - n \in 1 .. w /\ n + (j - n) = j
      BY <2>2
    <3>2. (s \o t)[j] = t[j - n]
      BY <1>1, <2>2
    <3>3. t[j - n] = cell(n + (j - n))
      BY <3>1
    <3> QED BY <3>1, <3>2, <3>3
  <2> QED BY <2>1, <2>2
<1>3. s \o t \in Seq(S) /\ Len(s \o t) = n + w
  BY <1>1
<1>4. s \o t = [j \in 1 .. n + w |-> (s \o t)[j]]
  <2> HIDE DEF s, t, S
  <2> QED BY <1>3, SeqIsFunction
<1>5. s \o t = [j \in 1 .. n + w |-> cell(j)]
  <2> HIDE DEF s, t, cell
  <2> QED BY <1>2, <1>4
<1> QED BY <1>5 DEF Got

LEMMA TabularInv ==
  ASSUME Inv, FetchNextTabularResult
  PROVE  Inv'
<1>1. Types /\ Bound /\ invocation.rows \in Nat /\ STANDARD_VECTOR_SIZE \in Nat \ {0}
  BY InvokeAssumption DEF Inv, Types, FetchNextTabularResult
<1>2. UNCHANGED <<invocation, total_rows, ok_only_emitted, abandoned>>
  BY DEF FetchNextTabularResult
<1>3. DOMAIN out' = DOMAIN out
  BY DEF FetchNextTabularResult
<1>4. /\ current_row_idx' = current_row_idx + Window
      /\ phase' = IF Window = 0 THEN "ended" ELSE "scan"
      /\ \A i \in DOMAIN out :
           out'[i] = out[i] \o [k \in 1 .. Window |-> <<ValueOf(i), current_row_idx + k>>]
  BY DEF FetchNextTabularResult
<1>5. CASE BelowTable
  <2>1. FromTable /\ total_rows = invocation.rows
    BY <1>1, <1>5 DEF BelowTable, FromTable, ValuePath, Bound, TotalRows
  <2>2. Window \in Nat \ {0}
    BY <1>1, <2>1 DEF Types, Window, FetchNextTabularResult, HasMoreResults
  <2>3. Types' /\ phase' = "scan"
    BY <1>1, <1>2, <2>2 DEF Types, FetchNextTabularResult
  <2>4. out # <<>>
    BY DEF Inv, FetchNextTabularResult
  <2> QED BY <1>1, <1>2, <1>3, <1>5, <2>3, <2>4, SameInvocation DEF Inv
<1>6. CASE ~ BelowTable
  <2>1. out # <<>> /\ ~ OkOnly /\ Tabular
    BY DEF Inv, FetchNextTabularResult
  <2>2. PICK n \in Nat : out = Got(n) /\ CursorAt(n)
    BY <1>6, <2>1 DEF Inv
  <2>3. Names \in Seq(Seq(Nat)) /\ Names # <<>>
    BY <1>1, NamesInSchema DEF Types, Bound
  <2>4. n = current_row_idx
    BY <2>1, <2>2 DEF CursorAt
  <2>5. PICK w \in Nat : /\ w = Window
                         /\ FromTable => w > 0
                         /\ n + w <= invocation.rows
    <3>1. n <= invocation.rows
      BY <2>1, <2>2 DEF CursorAt
    <3>2. FromTable => current_row_idx < invocation.rows
      BY <1>1 DEF Bound, TotalRows, FetchNextTabularResult, HasMoreResults
    <3> QED BY <1>1, <2>4, <3>1, <3>2 DEF Window, Types
  <2>6. \A i \in DOMAIN Names : out'[i] = Got(n + w)[i]
    <3> SUFFICES ASSUME NEW i \in DOMAIN Names PROVE out'[i] = Got(n + w)[i]
      OBVIOUS
    <3>1. ValueOf(i) = Names[i]
      BY <1>1, <1>6, <2>1, ColumnsFilled DEF Types, Bound
    <3>2. i \in DOMAIN out
      BY <2>2 DEF Got
    <3>3. out'[i] = out[i] \o [k \in 1 .. w |-> <<ValueOf(i), n + k>>]
      BY <1>4, <2>4, <2>5, <3>2
    <3> QED BY <2>2, <3>1, <3>3, GotMore
  <2>7. out' = Got(n + w)
    <3>1. DOMAIN out' = DOMAIN Names /\ DOMAIN Got(n + w) = DOMAIN Names
      BY <1>3, <2>2 DEF Got
    <3>2. out' = [i \in DOMAIN out' |-> out'[i]]
      BY DEF FetchNextTabularResult
    <3>3. Got(n + w) = [i \in DOMAIN Names |-> Got(n + w)[i]]
      BY DEF Got
    <3> QED BY <2>6, <3>1, <3>2, <3>3
  <2>8. n + w \in Nat /\ current_row_idx' = n + w
    BY <1>4, <2>4, <2>5
  <2>9. CursorAt(n + w)'
    <3>1. ~ OkOnly' /\ Tabular' /\ invocation' = invocation
      BY <1>2, <2>1, SameInvocation
    <3> QED BY <2>5, <2>8, <3>1 DEF CursorAt
  <2>10. phase' = "ended" => ~ FromTable
    BY <1>4, <2>5
  <2>11. Types'
    BY <1>1, <1>2, <2>8 DEF Types, FetchNextTabularResult
  <2>12. out' # <<>>
    BY <1>3, <2>2, <2>3 DEF Got
  <2>13. phase' \in {"scan", "ended"} /\ (phase' = "ended" => OnlyTables')
    BY <1>2, <2>1, <2>10, SameInvocation DEF FetchNextTabularResult, OnlyTables
  <2>14. \E m \in Nat : out' = Got(m)' /\ CursorAt(m)'
    <3>1. Got(n + w)' = Got(n + w)
      BY <1>2, <2>8, SameInvocation
    <3> QED BY <2>7, <2>8, <2>9, <3>1
  <2>15. Bound'
    BY <1>1, <1>2, SameInvocation
  <2> QED BY <2>11, <2>12, <2>13, <2>14, <2>15 DEF Inv
<1> QED BY <1>5, <1>6

LEMMA RowInv ==
  ASSUME Inv, FetchNextRow
  PROVE  Inv'
<1>1. /\ Types /\ Bound /\ out # <<>> /\ ~ OkOnly /\ ~ Tabular /\ phase = "scan" /\ phase' = "scan"
      /\ UNCHANGED <<invocation, total_rows, ok_only_emitted>>
      /\ current_row_idx < total_rows
  BY DEF Inv, FetchNextRow, HasMoreResults
<1>2. /\ ~ FromTable /\ ~ BelowTable /\ total_rows = 1
  BY <1>1 DEF Tabular, FromTable, IsTabularResult, BelowTable, ValuePath, Bound, TotalRows
<1>3. Values = Schema /\ Schema \in Seq(Seq(Nat)) /\ Schema # <<>>
  BY <1>1, <1>2, SameColumns, SchemaDistinct DEF Types, Bound, Found, OkOnly
<1>4. PICK n \in Nat : out = Got(n) /\ CursorAt(n)
  BY <1>1, <1>2 DEF Inv
<1>5. n = 0 /\ current_row_idx = 0
  BY <1>1, <1>2, <1>4 DEF CursorAt, Types
<1>6. current_row_idx' \in Nat /\ current_row_idx' >= 1
  BY <1>3, <1>5 DEF FetchNextRow
<1>7. Names = Schema
  <2>1. invocation.selected = <<>>
    BY <1>1, <1>2, InvokeAssumption DEF Types, Bound, Found, FromTable
  <2> QED BY <1>1, <2>1 DEF Names, ColumnNames, GetResultNames
<1>8. out' = Got(1)
  <2>1. \A i \in DOMAIN Names : out'[i] = Append(out[i], <<Names[i], 1>>)
    BY <1>3, <1>4, <1>7 DEF FetchNextRow, Got
  <2>2. \A i \in DOMAIN Names : out[i] = <<>> /\ Got(1)[i] = <<<<Names[i], 1>>>>
    BY <1>4, <1>5 DEF Got
  <2>3. out' = [i \in DOMAIN Names |-> out'[i]]
    BY <1>4 DEF FetchNextRow, Got
  <2>4. Got(1) = [i \in DOMAIN Names |-> Got(1)[i]]
    BY DEF Got
  <2>5. \A i \in DOMAIN Names : out'[i] = Got(1)[i]
    BY <2>1, <2>2
  <2> QED BY <2>3, <2>4, <2>5
<1>9. Types' /\ Bound' /\ out' # <<>> /\ Got(1)' = Got(1) /\ CursorAt(1)'
  <2>1. Types' /\ Bound' /\ Got(1)' = Got(1) /\ ~ OkOnly' /\ ~ FromTable' /\ ~ Tabular'
    BY <1>1, <1>2, <1>6, SameInvocation DEF Types
  <2>2. out' # <<>>
    BY <1>3, <1>7, <1>8 DEF Got
  <2>3. CursorAt(1)'
    BY <1>6, <2>1 DEF CursorAt
  <2> QED BY <2>1, <2>2, <2>3
<1> QED
  BY <1>1, <1>8, <1>9 DEF Inv

LEMMA OkInv ==
  ASSUME Inv, FetchOk
  PROVE  Inv'
<1>1. /\ Types /\ Bound /\ out # <<>> /\ OkOnly /\ ~ ok_only_emitted /\ phase = "scan" /\ phase' = "scan"
      /\ UNCHANGED <<invocation, total_rows, current_row_idx>> /\ ok_only_emitted' = TRUE
  BY DEF Inv, FetchOk
<1>2. Names = <<OkColumn>>
  BY <1>1 DEF Names, ColumnNames, GetResultNames
<1>3. Types' /\ Bound' /\ OkOnly' /\ Got(1)' = Got(1) /\ BelowTable' = BelowTable
  BY <1>1, SameInvocation DEF Types
<1>4. out' # <<>>
  BY <1>1 DEF FetchOk
<1>5. ~ BelowTable => out' = Got(1)
  <2> SUFFICES ASSUME ~ BelowTable PROVE out' = Got(1)
    OBVIOUS
  <2>1. PICK n \in Nat : out = Got(n) /\ CursorAt(n)
    BY <1>1 DEF Inv
  <2>2. n = 0
    BY <1>1, <2>1 DEF CursorAt
  <2>3. out = [i \in {1} |-> <<>>]
    BY <1>2, <2>1, <2>2 DEF Got
  <2>4. out' = [i \in {1} |-> <<<<OkColumn, 1>>>>]
    BY <2>3 DEF FetchOk
  <2>5. Got(1) = [i \in {1} |-> <<<<OkColumn, 1>>>>]
    BY <1>2 DEF Got
  <2> QED BY <2>4, <2>5
<1>6. CursorAt(1)'
  BY <1>1, <1>3 DEF CursorAt
<1> QED
  BY <1>1, <1>3, <1>4, <1>5, <1>6 DEF Inv

(* The other steps move neither the cursor nor the rows.                   *)
LEMMA QuietInv ==
  ASSUME Inv, UNCHANGED <<invocation, cursor, out>>,
         phase # "bind" \/ phase' \in {"raised", "crashed"},
         phase' \in {"scan", "ended", "raised", "crashed"},
         phase' \in {"scan", "ended"} => phase \in {"scan", "ended"},
         phase' = "ended" /\ ~ abandoned' => phase = "scan" /\ Finished
  PROVE  Inv'
<1>1. UNCHANGED <<invocation, total_rows, current_row_idx, ok_only_emitted, out>>
  BY DEF cursor
<1>2. /\ Types' /\ Bound' = Bound /\ BelowTable' = BelowTable
      /\ \A n \in Nat : Got(n)' = Got(n) /\ CursorAt(n)' = CursorAt(n)
      /\ Finished' = Finished
  BY <1>1, SameInvocation DEF Inv, Types, CursorAt, Finished, HasMoreResults
<1> QED
  BY <1>1, <1>2 DEF Inv

LEMMA NextInv == Inv /\ [Next]_vars => Inv'
<1> SUFFICES ASSUME Inv, [Next]_vars PROVE Inv'
  OBVIOUS
<1>1. CASE Bind
  BY <1>1, BindInv
<1>2. CASE BindRaises
  BY <1>2, QuietInv DEF BindRaises
<1>3. CASE BindCrashes
  BY <1>3, QuietInv DEF BindCrashes
<1>4. CASE FetchNextTabularResult
  BY <1>4, TabularInv
<1>5. CASE FetchNextRow
  BY <1>5, RowInv
<1>6. CASE FetchRaises
  BY <1>6, QuietInv DEF FetchRaises
<1>7. CASE FetchCrashes
  BY <1>7, QuietInv DEF FetchCrashes
<1>8. CASE FetchOk
  BY <1>8, OkInv
<1>9. CASE ScanEnds
  BY <1>9, QuietInv DEF ScanEnds, Finished
<1>10. CASE Abandon
  BY <1>10, QuietInv DEF Abandon
<1>11. CASE ExecuteAgain
  BY <1>11, QuietInv DEF ExecuteAgain
<1>12. CASE UNCHANGED vars
  <2>1. UNCHANGED <<invocation, phase, total_rows, current_row_idx, ok_only_emitted, out, abandoned>>
    BY <1>12 DEF vars, cursor
  <2>2. /\ Types' /\ Bound' = Bound /\ BelowTable' = BelowTable /\ OnlyTables' = OnlyTables
        /\ \A n \in Nat : Got(n)' = Got(n) /\ CursorAt(n)' = CursorAt(n)
        /\ Finished' = Finished
    BY <2>1, SameInvocation DEF Inv, Types, CursorAt, Finished, HasMoreResults, OnlyTables
  <2> QED BY <2>1, <2>2 DEF Inv
<1> QED
  BY <1>1, <1>2, <1>3, <1>4, <1>5, <1>6, <1>7, <1>8, <1>9, <1>10,
     <1>11, <1>12 DEF Next, RfcInvokeScan

(* What DuckDB got are the first rows of every column, as many of each,    *)
(* and the cursor knows how many.                                          *)
THEOREM Invariance == Spec => []Inv
BY InitInv, NextInv, PTL DEF Spec

(* Schema, values and selection agree for every function and path: each    *)
(* column holds the rows of the column it is named after, in order.        *)
THEOREM ColumnsAlwaysHoldTheirRows == Spec => []ColumnsHoldTheirRows
<1>1. Inv => ColumnsHoldTheirRows
  <2> SUFFICES ASSUME Inv, out # <<>>, ~ BelowTable, NEW i \in DOMAIN out
               PROVE  out[i] = [j \in 1 .. Len(out[1]) |-> <<ColumnNames[i], j>>]
    BY DEF ColumnsHoldTheirRows
  <2>1. PICK n \in Nat : out = Got(n)
    BY DEF Inv
  <2>2. Names \in Seq(Seq(Nat)) /\ Names # <<>>
    BY NamesInSchema DEF Inv, Types, Bound
  <2>3. Len(out[1]) = n
    BY <2>1, <2>2 DEF Got
  <2> QED BY <2>1, <2>3 DEF Got, Names
<1> QED BY <1>1, Invariance, PTL

(* An execution that runs to its end leaves no row behind, whatever was    *)
(* abandoned before and wherever the boundaries of the chunks fall.        *)
THEOREM AlwaysEndsComplete == Spec => []EndsComplete
<1>1. Inv => EndsComplete
  <2> SUFFICES ASSUME Inv, phase = "ended", ~ abandoned, ~ OnlyTables, ~ BelowTable
               PROVE  Len(out[1]) = TotalRows
    BY DEF EndsComplete
  <2>1. PICK n \in Nat : out = Got(n) /\ CursorAt(n)
    BY DEF Inv
  <2>2. Types /\ Bound /\ Finished
    BY DEF Inv
  <2>3. Names \in Seq(Seq(Nat)) /\ Names # <<>>
    BY <2>2, NamesInSchema DEF Types, Bound
  <2>4. Len(out[1]) = n
    BY <2>1, <2>3 DEF Got
  <2>5. n = TotalRows
    <3>1. CASE OkOnly
      <4>1. ~ FromTable
        BY <2>2, <3>1, InvokeAssumption DEF Bound, Found, Types, OkOnly, Schema, FromTable
      <4> QED BY <2>1, <2>2, <3>1, <4>1 DEF CursorAt, Finished, TotalRows
    <3>2. CASE ~ OkOnly /\ FromTable
      BY <2>1, <2>2, <3>2, InvokeAssumption
         DEF CursorAt, Finished, HasMoreResults, Bound, TotalRows, Types, Tabular, FromTable,
             IsTabularResult
    <3>3. CASE ~ OkOnly /\ ~ FromTable
      BY <2>1, <2>2, <3>3 DEF CursorAt, Finished, HasMoreResults, Bound, TotalRows, OnlyTables
    <3> QED BY <3>1, <3>2, <3>3
  <2> QED BY <2>4, <2>5
<1> QED BY <1>1, Invariance, PTL

-----------------------------------------------------------------------------
(* The types, also where a path goes on below a table.                     *)
Columns == Seq(Nat)
Cells == Seq(Columns \X Nat)

TypedOut ==
  /\ out \in Seq(Cells)
  /\ total_rows \in Nat
  /\ abandoned \in BOOLEAN
  /\ executions \in 0 .. MaxExecutions

LEMMA ValuesTyped ==
  ASSUME invocation \in Invocations, Found
  PROVE  Values \in Seq(Columns)
BY ColumnsDistinct, InvokeAssumption DEF Values, ValueColumns, Found, Columns

LEMMA ValueTyped ==
  ASSUME invocation \in Invocations, Found, NEW i
  PROVE  ValueOf(i) \in Columns
<1> DEFINE sources == {s \in Mapped : MapColumnsByFieldSelection(s) = i}
<1>1. sources \subseteq DOMAIN Values
  BY DEF Mapped
<1>2. CASE sources = {}
  BY <1>2 DEF ValueOf, NoColumn, Columns
<1>3. CASE sources # {}
  <2>1. (CHOOSE s \in sources : TRUE) \in sources
    BY <1>3
  <2>2. ValueOf(i) = Values[CHOOSE s \in sources : TRUE]
    BY <1>3 DEF ValueOf
  <2> HIDE DEF sources
  <2> QED BY <1>1, <2>1, <2>2, ValuesTyped DEF Columns
<1> QED BY <1>2, <1>3

(* A window is a chunk of rows, and no larger than a vector.               *)
LEMMA WindowFits ==
  ASSUME Inv, FetchNextTabularResult
  PROVE  Window \in 0 .. STANDARD_VECTOR_SIZE
<1>1. Types /\ Bound /\ invocation.rows \in Nat /\ STANDARD_VECTOR_SIZE \in Nat \ {0}
  BY InvokeAssumption DEF Inv, Types, FetchNextTabularResult
<1>2. out # <<>> /\ ~ OkOnly /\ Tabular /\ current_row_idx < total_rows
  BY DEF Inv, FetchNextTabularResult, HasMoreResults
<1>3. current_row_idx <= invocation.rows
  <2>1. CASE FromTable
    BY <1>1, <1>2, <2>1 DEF Bound, TotalRows, Types
  <2>2. CASE ~ FromTable
    <3>1. ~ BelowTable
      BY <2>2 DEF FromTable, BelowTable, ValuePath
    <3>2. PICK n \in Nat : CursorAt(n)
      BY <1>2, <3>1 DEF Inv
    <3> QED BY <1>1, <1>2, <2>2, <3>2 DEF CursorAt
  <2> QED BY <2>1, <2>2
<1> QED BY <1>1, <1>3 DEF Window, Types

LEMMA TypedInit == Init => TypedOut
<1>1. MaxExecutions \in Nat
  BY InvokeAssumption
<1> SUFFICES ASSUME Init PROVE TypedOut
  OBVIOUS
<1>2. out = <<>> /\ total_rows = 0 /\ abandoned = FALSE /\ executions = 0
  BY DEF Init
<1>3. out \in Seq(Cells)
  BY <1>2
<1>4. total_rows \in Nat /\ executions \in 0 .. MaxExecutions
  BY <1>1, <1>2
<1>5. abandoned \in BOOLEAN
  BY <1>2
<1> QED BY <1>3, <1>4, <1>5 DEF TypedOut

LEMMA TypedNext == Inv /\ TypedOut /\ [Next]_vars => TypedOut'
<1> SUFFICES ASSUME Inv, TypedOut, [Next]_vars PROVE TypedOut'
  OBVIOUS
<1> USE DEF TypedOut
<1>1. CASE Bind
  <2>1. invocation \in Invocations /\ Found
    BY <1>1 DEF Inv, Types, Bind, Found
  <2>2. ColumnNames \in Seq(Seq(Nat)) /\ TotalRows \in Nat
    BY <2>1, NamesInSchema, InvokeAssumption DEF Names, TotalRows
  <2>3. <<>> \in Cells
    BY DEF Cells
  <2>4. out' \in Seq(Cells)
    <3>1. out' = [i \in 1 .. Len(ColumnNames) |-> <<>>] /\ Len(ColumnNames) \in Nat
      BY <1>1, <2>2 DEF Bind
    <3> HIDE DEF Cells
    <3> QED BY <2>3, <3>1
  <2> QED BY <1>1, <2>2, <2>4 DEF Bind
<1>2. CASE FetchNextTabularResult
  <2>1. invocation \in Invocations /\ Found /\ current_row_idx \in Nat
    BY <1>2 DEF Inv, Types, FetchNextTabularResult, Bound
  <2>2. Window \in Nat
    BY <1>2, WindowFits, InvokeAssumption
  <2> DEFINE chunk(i) == [k \in 1 .. Window |-> <<ValueOf(i), current_row_idx + k>>]
  <2>3. \A i \in DOMAIN out : chunk(i) \in Cells
    BY <2>1, <2>2, ValueTyped DEF Cells
  <2>4. out' = [i \in 1 .. Len(out) |-> out[i] \o chunk(i)] /\ Len(out) \in Nat
    BY <1>2 DEF FetchNextTabularResult
  <2> HIDE DEF chunk
  <2>5. \A i \in 1 .. Len(out) : out[i] \o chunk(i) \in Cells
    BY <2>3 DEF Cells
  <2>6. out' \in Seq(Cells)
    <3> HIDE DEF Cells
    <3> QED BY <2>4, <2>5
  <2> QED BY <1>2, <2>6 DEF FetchNextTabularResult
<1>3. CASE FetchNextRow
  <2>1. /\ invocation \in Invocations /\ Found /\ ~ Tabular /\ ~ OkOnly /\ out # <<>>
        /\ ~ FromTable /\ ~ BelowTable
    BY <1>3 DEF Inv, Types, FetchNextRow, Bound, Tabular, FromTable, IsTabularResult,
                BelowTable, ValuePath
  <2>2. \A i \in DOMAIN out : Values[i] \in Columns
    <3>1. DOMAIN out = DOMAIN Names
      BY <2>1 DEF Inv, Got
    <3>2. Names = Schema
      BY <2>1, InvokeAssumption DEF Names, ColumnNames, GetResultNames, Found, FromTable
    <3> QED BY <2>1, <3>1, <3>2, SameColumns, ValuesTyped
  <2>3. out' = [i \in 1 .. Len(out) |-> Append(out[i], <<Values[i], 1>>)] /\ Len(out) \in Nat
    BY <1>3 DEF FetchNextRow
  <2>4. \A i \in 1 .. Len(out) : Append(out[i], <<Values[i], 1>>) \in Cells
    BY <2>2 DEF Cells
  <2>5. out' \in Seq(Cells)
    <3> HIDE DEF Cells
    <3> QED BY <2>3, <2>4
  <2> QED BY <1>3, <2>5 DEF FetchNextRow
<1>4. CASE FetchOk
  <2> DEFINE cell == <<OkColumn, 1>>
  <2>1. out' = [i \in 1 .. Len(out) |-> Append(out[i], cell)] /\ Len(out) \in Nat
    <3>1. out' = [i \in DOMAIN out |-> Append(out[i], cell)]
      BY <1>4 DEF FetchOk
    <3>2. DOMAIN out = 1 .. Len(out) /\ Len(out) \in Nat
      OBVIOUS
    <3> HIDE DEF cell
    <3> QED BY <3>1, <3>2
  <2>2. \A i \in 1 .. Len(out) : Append(out[i], cell) \in Cells
    <3>1. cell \in Columns \X Nat
      <4>1. OkColumn \in Columns
        BY DEF OkColumn, Columns
      <4> HIDE DEF Columns
      <4> QED BY <4>1
    <3> HIDE DEF cell
    <3> QED BY <3>1 DEF Cells
  <2>3. out' \in Seq(Cells)
    <3> HIDE DEF Cells, cell
    <3> QED BY <2>1, <2>2
  <2> QED BY <1>4, <2>3 DEF FetchOk
<1>5. CASE ExecuteAgain
  <2>1. UNCHANGED <<out, total_rows>> /\ abandoned' = FALSE
    BY <1>5 DEF ExecuteAgain, cursor
  <2>2. MaxExecutions \in Nat /\ executions < MaxExecutions /\ executions' = executions + 1
    BY <1>5, InvokeAssumption DEF ExecuteAgain
  <2>3. executions' \in 0 .. MaxExecutions
    BY <2>2
  <2>4. abandoned' \in BOOLEAN
    BY <2>1
  <2> QED BY <2>1, <2>3, <2>4
<1>6. CASE BindRaises \/ BindCrashes \/ FetchRaises \/ FetchCrashes \/ ScanEnds \/ Abandon
  BY <1>6 DEF BindRaises, BindCrashes, FetchRaises, FetchCrashes, ScanEnds, Abandon, cursor
<1>7. CASE UNCHANGED vars
  BY <1>7 DEF vars, cursor
<1> QED
  BY <1>1, <1>2, <1>3, <1>4, <1>5, <1>6, <1>7 DEF Next, RfcInvokeScan

(* The cursor stays a number and the rows of every column stay cells, for  *)
(* every path: also one that goes on below a table, whose values are fewer *)
(* or more than the columns.                                               *)
THEOREM TypeCorrect == Spec => []TypeOK
<1>1. Inv /\ TypedOut => TypeOK
  BY DEF Inv, Types, TypedOut, TypeOK, Cells, Columns
<1>2. Spec => []TypedOut
  BY Invariance, TypedInit, TypedNext, PTL DEF Spec
<1> QED BY <1>1, <1>2, Invariance, PTL

-----------------------------------------------------------------------------
LEMMA Concatenated ==
  ASSUME NEW S, NEW s \in Seq(S), NEW t \in Seq(S)
  PROVE  Len(s \o t) = Len(s) + Len(t)
OBVIOUS

LEMMA StepFits ==
  ASSUME Inv, TypedOut, [Next]_vars, NEW i \in DOMAIN out
  PROVE  Len(out'[i]) <= Len(out[i]) + STANDARD_VECTOR_SIZE
<1>1. Len(out[i]) \in Nat /\ STANDARD_VECTOR_SIZE \in Nat \ {0} /\ out[i] \in Cells
  BY InvokeAssumption DEF TypedOut, Cells
<1>2. CASE FetchNextTabularResult
  <2> DEFINE chunk == [k \in 1 .. Window |-> <<ValueOf(i), current_row_idx + k>>]
  <2>1. Window \in 0 .. STANDARD_VECTOR_SIZE
    BY <1>2, WindowFits
  <2>2. invocation \in Invocations /\ Found /\ current_row_idx \in Nat
    BY <1>2 DEF Inv, Types, FetchNextTabularResult, Bound
  <2>3. chunk \in Cells /\ Len(chunk) = Window
    BY <1>1, <2>1, <2>2, ValueTyped DEF Cells
  <2>4. out'[i] = out[i] \o chunk
    BY <1>2 DEF FetchNextTabularResult
  <2> HIDE DEF chunk
  <2>5. Len(out'[i]) = Len(out[i]) + Len(chunk)
    BY <1>1, <2>3, <2>4, Concatenated DEF Cells
  <2> QED BY <1>1, <2>1, <2>3, <2>5
<1>3. CASE FetchNextRow
  <2>1. out'[i] = Append(out[i], <<Values[i], 1>>)
    BY <1>3 DEF FetchNextRow
  <2>2. Len(out'[i]) = Len(out[i]) + 1
    BY <1>1, <2>1 DEF Cells
  <2> QED BY <1>1, <2>2
<1>4. CASE FetchOk
  <2> DEFINE cell == <<OkColumn, 1>>
  <2>1. out'[i] = Append(out[i], cell)
    BY <1>4 DEF FetchOk
  <2> HIDE DEF cell
  <2>2. Len(out'[i]) = Len(out[i]) + 1
    BY <1>1, <2>1 DEF Cells
  <2> QED BY <1>1, <2>2
<1>5. CASE Bind
  BY <1>5 DEF Bind, Inv
<1>6. CASE UNCHANGED out
  BY <1>1, <1>6
<1> QED
  BY <1>2, <1>3, <1>4, <1>5, <1>6
     DEF Next, RfcInvokeScan, vars, BindRaises, BindCrashes, FetchRaises, FetchCrashes,
          ScanEnds, Abandon, ExecuteAgain

(* No step hands DuckDB more rows than its vectors hold, whatever is left  *)
(* in the table and wherever the cursor was left by an execution before.   *)
THEOREM ChunksAlwaysFit == Spec => ChunksFit
<1> DEFINE Fits == \A i \in DOMAIN out : Len(out'[i]) <= Len(out[i]) + STANDARD_VECTOR_SIZE
<1>1. Inv /\ TypedOut /\ [Next]_vars => [Fits]_vars
  BY StepFits
<1>2. Spec => []TypedOut
  BY Invariance, TypedInit, TypedNext, PTL DEF Spec
<1> HIDE DEF Fits
<1>3. Spec => [][Fits]_vars
  BY <1>1, <1>2, Invariance, PTL DEF Spec
<1> QED BY <1>3 DEF Fits, ChunksFit
=============================================================================
