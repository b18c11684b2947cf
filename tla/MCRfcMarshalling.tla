-------------------------- MODULE MCRfcMarshalling --------------------------
(***************************************************************************)
(* A function of each scalar type, with parameters of every direction, and *)
(* one with a structure and two tables; values at the edges of the types.  *)
(***************************************************************************)
EXTENDS RfcMarshalling

Scalar(name, direction, ddic, length) ==
  [name |-> name, direction |-> direction, kind |-> "scalar",
   fields |-> <<[name |-> "F", ddic |-> ddic, length |-> length]>>]

ScalarDdics ==
  {<<"CHAR", 2>>, <<"NUMC", 2>>, <<"STRING", 0>>, <<"RAW", 2>>, <<"RSTR", 0>>, <<"INT1", 1>>,
   <<"INT2", 2>>, <<"INT4", 4>>, <<"INT8", 8>>, <<"FLTP", 16>>, <<"DEC", 3>>,
   <<"DEC", 4>>, <<"D16N", 16>>, <<"DATS", 8>>, <<"TIMS", 6>>, <<"UTCL", 27>>}

ScalarFunction(d) ==
  <<Scalar("E", "EXPORT", d[1], d[2]), Scalar("I", "IMPORT", "CHAR", 2),
    Scalar("C", "CHANGING", d[1], d[2])>>

Fields == <<[name |-> "A", ddic |-> "CHAR", length |-> 2],
            [name |-> "D", ddic |-> "DATS", length |-> 8]>>
EchoFunction ==
  <<[name |-> "S", direction |-> "CHANGING", kind |-> "STRUCTURE", fields |-> Fields],
    [name |-> "X", direction |-> "EXPORT", kind |-> "TABLE", fields |-> Fields],
    [name |-> "T", direction |-> "TABLES", kind |-> "TABLE", fields |-> Fields],
    [name |-> "L", direction |-> "CHANGING", kind |-> "TABLE",
     fields |-> <<[name |-> "", ddic |-> "NUMC", length |-> 2]>>]>>

Texts == {<<>>, <<Blank>>, <<55>>, <<65>>, <<65, Blank>>, <<55, 56>>, <<55, 55, 55>>,
          <<65, 10>>, <<10>>}
Numbers == {-1, 0, 7, Blank, 100}
Packed == {0, Blank, 999, -999, 1000}
Dates == {<<2024, 2, 29>>, <<1, 1, 1>>, <<9999, 12, 31>>}
Times == {<<0, 0, 0, 0>>, <<24, 0, 0, 0>>, <<23, 59, 59, 0>>, <<12, 0, 0, 5>>, <<0, 0, Blank, 0>>}

MCValues ==
  {Null} \cup [id : {"VARCHAR"}, v : Texts]
  \cup [id : {"BLOB"}, v : {<<>>, <<1>>, <<255, 0>>}]
  \cup [id : {"TINYINT", "SMALLINT", "INTEGER", "BIGINT", "DOUBLE"}, v : {<<n>> : n \in Numbers}]
  \cup [id : {"DECIMAL"}, v : {<<n>> : n \in Packed}]
  \cup [id : {"DATE"}, v : Dates] \cup [id : {"TIME"}, v : Times]
  \cup [id : {"TIMESTAMP"}, v : {d \o SubSeq(t, 1, 3) : d \in Dates, t \in Times \ {<<24, 0, 0, 0>>}}]

Char == Value("VARCHAR", <<65>>)
Struct(members) == Value("STRUCT", members)
ScalarArguments ==
  {<<>>} \cup {<<Char, v>> : v \in MCValues} \cup {<<v>> : v \in MCValues}
  \cup {<<Struct(<<(<<"C", v>>)>>)>> : v \in MCValues}
  \cup {<<Struct(<<(<<"C", v>>), (<<"I", Char>>)>>)>> : v \in MCValues}
  \cup {<<Struct(<<(<<"E", Char>>)>>)>>, <<Char, Char, Char>>}

Line(a, d) == Struct(<<(<<"A", a>>), (<<"D", d>>)>>)
MCLines == {Line(a, d) : a \in {Null, Char, Value("VARCHAR", <<55, 55, 55>>)},
                         d \in {Null, Value("DATE", <<2024, 2, 29>>)}}
Tables == {Value("LIST", rows) : rows \in {<<>>} \cup {<<l>> : l \in MCLines}
                                           \cup {<<l, m>> : l, m \in MCLines}
                                           \cup {<<l, NullStruct>> : l \in MCLines}}
Column == Value("LIST", <<Value("VARCHAR", <<55>>), Null>>)
EchoArguments ==
  {<<l>> : l \in MCLines} \cup {<<l, t>> : l \in MCLines, t \in Tables}
  \cup {<<l, t, Column>> : l \in MCLines, t \in Tables}
  \cup {<<Struct(<<(<<"T", t>>), (<<"S", l>>)>>)>> : l \in MCLines, t \in Tables}
  \cup {<<Struct(<<(<<"S", Struct(<<(<<"B", Char>>)>>)>>)>>)>>}

MCFunctions == {ScalarFunction(d) : d \in ScalarDdics} \cup {EchoFunction}
MCCalls == [function : MCFunctions \ {EchoFunction}, arguments : ScalarArguments]
             \cup [function : {EchoFunction}, arguments : EchoArguments]
=============================================================================
