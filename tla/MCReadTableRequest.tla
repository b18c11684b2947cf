------------------------- MODULE MCReadTableRequest -------------------------
(***************************************************************************)
(* A flight table of two text columns, a date and a node, and options of   *)
(* twelve characters: a line holds a condition's column and operator or    *)
(* its literal.  The longest literal fills a line and leaves no room for   *)
(* the blank before it.                                                    *)
(***************************************************************************)
EXTENDS ReadTableRequest

MCFieldNames == <<"CARRID", "NODE", "CONNID", "FLDATE">>
MCFieldKind == [CARRID |-> "text", NODE |-> "NODE", CONNID |-> "text", FLDATE |-> "date"]
MCFieldWidth == [CARRID |-> 3, NODE |-> 0, CONNID |-> 200, FLDATE |-> 8]
MCNameLength == [CARRID |-> 6, NODE |-> 4, CONNID |-> 6, FLDATE |-> 6]

MCValues == {"short", "long", "longest"}
MCValueLength == [short |-> 2, long |-> 8, longest |-> 10]
MCGreater == [short |-> {"long", "longest"}, long |-> {"longest"}, longest |-> {}]
MCRows == [{"CARRID", "CONNID", "FLDATE"} -> MCValues]

RFC_READ_TABLE == "RFC_READ_TABLE"
READ_TABLE2 == "/SAPDS/RFC_READ_TABLE2"
MCReadTableFunctions == {RFC_READ_TABLE, READ_TABLE2}
MCParameters ==
  [f \in MCReadTableFunctions |->
     {[name |-> "OPTIONS", direction |-> "TABLES"], [name |-> "FIELDS", direction |-> "TABLES"],
      [name |-> "ET_DATA", direction |-> "EXPORT"]}]
MCTableCandidates == <<"TBLOUT512", "TBLOUT128">>
MCTableWidth == [TBLOUT512 |-> 512, TBLOUT128 |-> 128]
MCResultTables ==
  [f \in MCReadTableFunctions |-> IF f = READ_TABLE2 THEN {"TBLOUT512", "TBLOUT128"} ELSE {"DATA"}]

Condition(field, value) ==
  <<Word("column", 6), Word("=", 1),
    [part |-> "literal", field |-> field, values |-> {value}, len |-> MCValueLength[value] + 2]>>
MCWhere ==
  {<<>>, Condition("CARRID", "short"), Condition("CONNID", "longest"),
   Condition("CARRID", "short") \o <<OrWord>> \o Condition("CONNID", "long"),
   Condition("CARRID", "long") \o <<AndWord>> \o Condition("FLDATE", "short")}
MCStatements ==
  [function : MCReadTableFunctions \cup {"RFC_READ_TABLES"}, where : MCWhere,
   columns : {<<>>, <<"CONNID", "CARRID">>, <<"CARRID", "NODE">>}]

MCProjections == {<<0>>, <<1>>, <<2, 1>>, <<1, 2, 3>>, <<3, 1>>, <<1, 0>>}
MCFilters ==
  [type : {"COMPARE_EQUAL", "COMPARE_GREATERTHAN"}, values : {{v} : v \in MCValues}]
    \cup [type : {"IN_FILTER"}, values : {{"short", "long"}, MCValues}]
=============================================================================
