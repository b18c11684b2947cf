--------------------------- MODULE RfcMarshalling ---------------------------
(***************************************************************************)
(* An RfcInvocation: its adapter moves the arguments into the parameters   *)
(* of a function, the function is executed, and the results are read back. *)
(* The function is one that returns its parameters as it got them, as the  *)
(* repository's tests use S_APCRFC_ECHO.                                   *)
(*                                                                         *)
(* A parameter is a scalar, a STRUCTURE or a TABLE of scalar fields; its   *)
(* value in the container is a sequence of lines, each a sequence of       *)
(* fields: one line of one field for a scalar, one line for a structure.   *)
(* One table line of a DuckDB value is a sequence of <<name, value>>.      *)
(***************************************************************************)
EXTENDS RfcTypes

CONSTANTS
  Calls     \* [function, arguments]: positional arguments, or one STRUCT; a
            \* function is a sequence of [name, direction, kind, fields] of the
            \* kind "scalar", "STRUCTURE" or "TABLE", a field [name, ddic, length]

VARIABLES
  pc,            \* "bind", "adapt", "executed" or "error"
  call,          \* of Calls
  next,          \* the argument to adapt
  container,     \* per parameter its lines
  refused,       \* the parameters of which the SDK refused a field
  results        \* per parameter the value read, <<>> before

vars == <<pc, call, next, container, refused, results>>

NoCall == [function |-> <<>>, arguments |-> <<>>]

(* The SDK's description: a packed number has room for its digits and sign. *)
SdkType(field) ==
  LET type == RfcTypeOf(field.ddic)
  IN [type |-> type, length |-> IF type = "BCD" THEN (field.length + 2) \div 2 ELSE field.length]

(* The description a table read makes from the DDIC.                       *)
ColumnType(field) == FromTypeName(field.ddic, field.length)

-----------------------------------------------------------------------------
(* Adapting one argument.                                                  *)

(* Whether the container takes the value: a NULL is left out.              *)
SetField(field, value) ==
  LET rfc == SdkType(field)
      data == duck2rfc(rfc, value)
  IN IF value = Null THEN [held |-> SdkInitial(rfc), refused |-> FALSE]
     ELSE IF SdkRefuses(rfc, data) THEN [held |-> SdkInitial(rfc), refused |-> TRUE]
     ELSE [held |-> SdkField(rfc, data), refused |-> FALSE]

(* The result of a setter is not looked at: the check of it stands behind  *)
(* the last case of the switch, which no case reaches.  Dates and times    *)
(* have one of their own.                                                  *)
AdaptValue(field, value) == SetField(field, value)
ResultChecked(field) == SdkType(field).type \in {"DATE", "TIME"}

Members(line) == {line[i][1] : i \in DOMAIN line}
Member(line, name) ==
  LET at == SelectInSeq(line, LAMBDA m : m[1] = name)
  IN IF at = 0 THEN Null ELSE line[at][2]

(* A member that is no field of the structure is an error.                 *)
AdaptStructure(fields, line) ==
  [i \in DOMAIN fields |-> AdaptValue(fields[i], Member(line, fields[i].name))]
Unknown(fields, line) ==
  \E name \in Members(line) : \A i \in DOMAIN fields : fields[i].name # name

(* The lines of an argument, as members; a line that is no STRUCT is the   *)
(* first field of its row.  A NULL one has no members to be had.           *)
Lines(param, value) ==
  CASE param.kind = "scalar" -> <<(<<(<<param.fields[1].name, value>>)>>)>>
    [] param.kind = "STRUCTURE" -> <<value.v>>
    [] OTHER -> [i \in DOMAIN value.v |->
                   IF value.v[i].id = "STRUCT" \/ value.v[i] = NullStruct THEN value.v[i].v
                   ELSE <<(<<param.fields[1].name, value.v[i]>>)>>]

TypeFits(param, value) ==
  CASE param.kind = "scalar" -> IsCompatibleType(SdkType(param.fields[1]), value.id)
    [] param.kind = "STRUCTURE" -> value.id = "STRUCT"
    [] OTHER -> value.id = "LIST"

(* The parameters that can be set, and the n-th of them.                   *)
(* A mutant: EXPORT parameters count.                                      *)
EveryParameter(function) == DOMAIN function
Settable(function) == {i \in DOMAIN function : function[i].direction # "EXPORT"}
NthSettable(function, n) ==
  CHOOSE i \in Settable(function) : Cardinality(Settable(function) \cap 1 .. i) = n

IsAdaptByPosition(arguments) == ~ (Len(arguments) = 1 /\ arguments[1].id = "STRUCT")

(* The arguments as <<parameter, value>>, "unknown" where there is none.   *)
Unmatched == "unknown"
RfcInvocationPositionalAdapter(function, arguments) ==
  [n \in DOMAIN arguments |->
     <<IF n <= Cardinality(Settable(function)) THEN function[NthSettable(function, n)].name
       ELSE Unmatched, arguments[n]>>]
RfcInvocationNamedAdapter(function, arguments) ==
  [n \in DOMAIN arguments[1].v |->
     LET name == arguments[1].v[n][1]
     IN <<IF \E i \in Settable(function) : function[i].name = name THEN name ELSE Unmatched,
          arguments[1].v[n][2]>>]

Matched(function, arguments) ==
  IF IsAdaptByPosition(arguments) THEN RfcInvocationPositionalAdapter(function, arguments)
  ELSE RfcInvocationNamedAdapter(function, arguments)

Parameter(function, name) ==
  function[SelectInSeq(function, LAMBDA p : p.name = name)]

-----------------------------------------------------------------------------
(* What calls are made of.                                                 *)

(* The value a call gives for a parameter: by position among those that    *)
(* can be set, or by name.                                                 *)
Given(c, param) ==
  LET at == SelectInSeq(c.function, LAMBDA p : p.name = param.name)
      place == Cardinality({i \in 1 .. at : c.function[i].direction # "EXPORT"})
  IN IF param.direction = "EXPORT" THEN Null
     ELSE IF Len(c.arguments) = 1 /\ c.arguments[1].id = "STRUCT"
       THEN Member(c.arguments[1].v, param.name)
     ELSE IF place > Len(c.arguments) THEN Null
     ELSE c.arguments[place]

IsSequence(s) == s \in Seq(Range(s))

IsField(field) ==
  /\ IsKnownDataType(field.ddic) /\ field.length \in Nat
  /\ RfcTypeOf(field.ddic) = "BCD" => field.length > 0

IsParameter(param) ==
  /\ param.name # Unmatched
  /\ IsSequence(param.fields) /\ param.fields # <<>>
  /\ param.kind \in {"scalar", "STRUCTURE", "TABLE"}
  /\ param.kind = "scalar" => Len(param.fields) = 1
  /\ \A f \in DOMAIN param.fields : IsField(param.fields[f])

(* The fields of what is given have values of their types.                 *)
Fits(param, value) ==
  LET lines == Lines(param, value)
  IN /\ IsSequence(lines)
     /\ \A i \in DOMAIN lines, f \in DOMAIN param.fields :
          LET member == Member(lines[i], param.fields[f].name)
          IN IsSequence(lines[i])
             /\ (member = Null \/ Convertible(SdkType(param.fields[f]), member))

ASSUME MarshallingAssumption ==
  \A c \in Calls :
    /\ IsSequence(c.function)
    /\ IsInjective([i \in DOMAIN c.function |-> c.function[i].name])
    /\ IsSequence(c.arguments)
    /\ ~ IsAdaptByPosition(c.arguments) =>
         LET members == c.arguments[1].v
         IN IsSequence(members) /\ IsInjective([i \in DOMAIN members |-> members[i][1]])
    /\ \A i \in DOMAIN c.function :
         LET param == c.function[i]  value == Given(c, param)
         IN /\ IsParameter(param)
            /\ value.id = "NULL" => value = Null
            /\ TypeFits(param, value) => Fits(param, value)

-----------------------------------------------------------------------------
(* The invocation.                                                         *)

InitialLines(param) ==
  IF param.kind = "TABLE" THEN <<>>
  ELSE <<[i \in DOMAIN param.fields |-> SdkInitial(SdkType(param.fields[i]))]>>

Names(function) == {function[i].name : i \in DOMAIN function}

Init ==
  /\ pc = "bind"
  /\ call = NoCall
  /\ next = 1
  /\ container = <<>>
  /\ refused = {}
  /\ results = <<>>

(* Too many positional arguments are refused before any is adapted.        *)
BeginInvocation(c) ==
  /\ pc = "bind"
  /\ call' = c
  /\ container' = [name \in Names(c.function) |-> InitialLines(Parameter(c.function, name))]
  /\ pc' = IF IsAdaptByPosition(c.arguments) /\ Len(c.arguments) > Cardinality(Settable(c.function))
           THEN "error" ELSE "adapt"
  /\ UNCHANGED <<next, refused, results>>

(* What an argument always fails on, and what it may fail on.              *)
Unadaptable(param, value) ==
  \/ ~ TypeFits(param, value)
  \/ \E i \in DOMAIN Lines(param, value) : Unknown(param.fields, Lines(param, value)[i])
  \/ param.kind = "TABLE" /\ \E i \in DOMAIN value.v : value.v[i] = NullStruct
MayBeRefused(param, value) ==
  \E i \in DOMAIN Lines(param, value), f \in DOMAIN param.fields :
     /\ ResultChecked(param.fields[f])
     /\ Member(Lines(param, value)[i], param.fields[f].name) # Null

AdaptArgument ==
  LET matched == Matched(call.function, call.arguments)
      name == matched[next][1]
      value == matched[next][2]
      param == Parameter(call.function, name)
      fits == name # Unmatched /\ (value.id = "NULL" \/ ~ Unadaptable(param, value))
      lines == Lines(param, value)
      adapted == [i \in DOMAIN lines |-> AdaptStructure(param.fields, lines[i])]
  IN /\ pc = "adapt" /\ next <= Len(matched)
     /\ \/ fits /\ value.id = "NULL" /\ UNCHANGED <<pc, container, refused>>
        \/ /\ fits => value.id # "NULL" /\ MayBeRefused(param, value)
           /\ pc' = "error" /\ UNCHANGED <<container, refused>>
        \/ /\ fits /\ value.id # "NULL"
           /\ container' = [container EXCEPT ![name] =
                [i \in DOMAIN lines |-> [f \in DOMAIN param.fields |-> adapted[i][f].held]]]
           /\ refused' = IF \E i \in DOMAIN lines, f \in DOMAIN param.fields :
                              adapted[i][f].refused
                         THEN refused \cup {name} ELSE refused
           /\ UNCHANGED pc
     /\ next' = next + 1
     /\ UNCHANGED <<call, results>>

(* RfcInvoke: the function leaves its parameters as they are, or it fails. *)
Execute ==
  /\ pc = "adapt" /\ next > Len(Matched(call.function, call.arguments))
  /\ pc' \in {"executed", "error"}
  /\ results' = IF pc' = "executed" THEN [name \in Names(call.function) |-> <<>>] ELSE results
  /\ UNCHANGED <<call, next, container, refused>>

(* One line of a result: the values its fields may be read as.             *)
ConvertRfcStruct(fields, line) ==
  {r \in [DOMAIN fields -> UNION {ConvertRfcValue(SdkType(fields[i]), line[i]) : i \in DOMAIN fields}] :
     \A i \in DOMAIN fields : r[i] \in ConvertRfcValue(SdkType(fields[i]), line[i])}

ConvertRfcTable(fields, lines) ==
  {t \in [DOMAIN lines -> UNION {ConvertRfcStruct(fields, lines[i]) : i \in DOMAIN lines}] :
     \A i \in DOMAIN lines : t[i] \in ConvertRfcStruct(fields, lines[i])}

Raised(value) == \E i \in DOMAIN value : \E f \in DOMAIN value[i] : value[i][f] = Error

(* IMPORT parameters are no results.  A structure or a table may be out of *)
(* reach as a whole.                                                       *)
ReadResult(name) ==
  LET param == Parameter(call.function, name)
  IN /\ pc = "executed"
     /\ param.direction # "IMPORT" /\ results[name] = <<>>
     /\ \/ \E value \in ConvertRfcTable(param.fields, container[name]) :
             /\ ~ Raised(value)
             /\ results' = [results EXCEPT ![name] = <<value>>]
             /\ UNCHANGED pc
        \/ /\ \/ param.kind # "scalar"
              \/ \E value \in ConvertRfcTable(param.fields, container[name]) : Raised(value)
           /\ pc' = "error"
           /\ results' = <<>>
     /\ UNCHANGED <<call, next, container, refused>>

Next ==
  \/ \E c \in Calls : BeginInvocation(c)
  \/ AdaptArgument
  \/ Execute
  \/ \E name \in Names(call.function) : ReadResult(name)

Spec == Init /\ [][Next]_vars
-----------------------------------------------------------------------------
(* Properties.                                                             *)

Filled(rfc, value) ==
  LET free == rfc.length - Len(value.v)
  IN CASE rfc.type = "NUM" -> Padding(free, Zero) \o value.v
       [] rfc.type = "BYTE" -> value.v \o Padding(free, 0)
       [] rfc.type \in {"CHAR", "STRING"} -> RTrim(value.v)
       [] rfc.type = "TIME" -> [value.v EXCEPT ![4] = 0]
       [] OTHER -> value.v

(* Whether SAP has no other value for "nothing given".                     *)
Nothing(rfc, value) ==
  CASE rfc.type = "STRING" -> RTrim(value.v) = <<>>
    [] rfc.type = "TIME" -> value.v[1] \in {0, 24} /\ value.v[2] = 0 /\ value.v[3] = 0
    [] OTHER -> rfc.type \in Timestamps

CameBack(field, value, got) ==
  LET rfc == SdkType(field)
  IN /\ got # Error
     /\ IF value = Null THEN got \in ConvertRfcValue(rfc, SdkInitial(rfc))
        ELSE \/ got = Value(rfctype2logicaltype(rfc.type), Filled(rfc, value))
             \/ got = Null /\ Nothing(rfc, value)
             \/ got = ReadFailed(rfc)

(* What is sent to a function that returns it comes back with the type of  *)
(* the field, whatever that is and whether it is a scalar, a member or in  *)
(* a row: never another value, never in another parameter, row or member,  *)
(* and what was not given comes back initial.  A field of fixed width      *)
(* comes back padded, and every text, a STRING too, without the white      *)
(* space at its end, sent or padded.  White strings and midnight, as 00:00 *)
(* or as 24:00, come back as NULL, and so may timestamps.  A read that the *)
(* SDK fails gives FALSE for a NUM, BYTE, DATE, TIME, INT8, DECF or        *)
(* timestamp.  [RfcType::AdaptValue, the adapters, ConvertRfcValue]        *)
ComesBack ==
  \A name \in DOMAIN results \ refused :
    LET param == Parameter(call.function, name)
        given == Given(call, param)
        sent == IF given = Null THEN <<>> ELSE Lines(param, given)
    IN results[name] # <<>> =>
         /\ given # Null => Len(results[name][1]) = Len(sent)
         /\ \A i \in DOMAIN results[name][1], f \in DOMAIN param.fields :
              CameBack(param.fields[f],
                       IF given = Null THEN Null ELSE Member(sent[i], param.fields[f].name),
                       results[name][1][i][f])

(* NULL for nothing, or the wider type, where the direct read has none.    *)
SameButNull(rfc, line, csv, direct) ==
  \/ csv = direct
  \/ rfc.type = "INT" /\ csv = Value("BIGINT", direct.v)
  \/ rfc.type \in Integral \cup {"BCD"} /\ csv = Null /\ direct.v = <<0>>
  \/ rfc.type \in {"BYTE", "XSTRING"} /\ csv = Null /\ direct = Value("BLOB", <<>>)
  \/ line = "STRING" /\ csv = Null /\ direct = Value("VARCHAR", <<>>)
  \/ line = "CHAR" /\ csv = Value("VARCHAR", <<>>) /\ direct = Null

(* A field read as a column of a table is what the direct read of the same *)
(* field gives, type and value, though the one parses text with a type     *)
(* made from the DDIC and the other asks the SDK.  They differ as follows: *)
(* an INT is a BIGINT in the column; an initial number may be NULL there,  *)
(* and so are no bytes; and a blank text is NULL in a STRING line and ''   *)
(* in a CHAR line, while the direct read has NULL for a blank STRING and   *)
(* '' for a blank CHAR.  The column is an error in three cases: INT1 above *)
(* 127, which SAP counts unsigned and TINYINT does not; a blank number in  *)
(* a STRING line; and a packed number of an even number of digits, all     *)
(* used, as the column has one less.                                       *)
(* [ConvertCsvValue, ConvertRfcValue, FromTypeName]                        *)
ColumnsAgreeWithResults ==
  pc = "executed" =>
    \A name \in DOMAIN container : \A i \in DOMAIN container[name] :
      LET fields == Parameter(call.function, name).fields
      IN \A f \in DOMAIN fields, line \in {"CHAR", "STRING"} :
           LET rfc == SdkType(fields[f])
               field == container[name][i][f]
           IN \A text \in CsvTexts(rfc, field) :
                LET csv == ConvertCsvValue(ColumnType(fields[f]), Cell(rfc, line, text))
                IN IF csv = Error
                   THEN \/ rfc.type = "INT1" /\ field[1] > 127
                        \/ line = "STRING" /\ field = <<0>> /\ text = <<>>
                        \/ rfc.type = "BCD" /\ fields[f].length % 2 = 0
                   ELSE \E direct \in ReadValue(rfc, field) : SameButNull(rfc, line, csv, direct)

(* Every argument the SDK refuses fails the call.  [AdaptValue: "Failed to *)
(* set argument"]                                                          *)
RefusedArgumentIsAnError == pc = "executed" => refused = {}
=============================================================================
