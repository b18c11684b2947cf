------------------------------ MODULE RfcTypes ------------------------------
(***************************************************************************)
(* The types of the RFC layer and the conversions between DuckDB values    *)
(* and SAP fields: RfcType, and the functions duck2rfc, rfc2duck and their *)
(* kin.                                                                    *)
(*                                                                         *)
(* A DuckDB value is its type's name and a sequence of integers; a field   *)
(* of an SDK container is a sequence of integers.  A text is the sequence  *)
(* of its characters, a number a sequence of one, a decimal the digits     *)
(* without their point.                                                    *)
(***************************************************************************)
EXTENDS Integers, Sequences, SequencesExt

Value(id, v) == [id |-> id, v |-> v]
Null == Value("NULL", <<>>)
NullStruct == Value("NULL STRUCT", <<>>)  \* a NULL row of a list of STRUCTs
Error == Value("error", <<>>)             \* the conversion throws

Blank == 32
Zero == 48
Digit(c) == c \in Zero .. Zero + 9

Least(a, b) == IF a <= b THEN a ELSE b

-----------------------------------------------------------------------------
(* Types.                                                                  *)

(* The DDIC names of GetTypeMap, by RFC type.                              *)
TypeMap ==
  [NUM |-> {"ACCP", "NUMC"}, CHAR |-> {"CHAR", "CLNT", "CUKY", "LANG", "UNIT"},
   BCD |-> {"CURR", "DEC", "QUAN"}, DATE |-> {"DATS"}, TIME |-> {"TIMS"},
   DECF16 |-> {"D16D", "D16N", "D16R", "D16S", "DECF16"},
   DECF34 |-> {"D34D", "D34N", "D34R", "D34S", "DECF34"},
   FLOAT |-> {"FLTP"}, INT1 |-> {"INT1"}, INT2 |-> {"INT2", "PREC"}, INT |-> {"INT4"},
   INT8 |-> {"INT8"}, STRING |-> {"LCHR", "STRING", "STRG", "SSTR"},
   BYTE |-> {"LRAW", "RAW"}, XSTRING |-> {"RAWSTRING", "RSTR"},
   UTCLONG |-> {"UTCL", "UTCLONG"}, UTCSECOND |-> {"UTCS"}, UTCMINUTE |-> {"UTCM"}]

IsKnownDataType(name) == \E t \in DOMAIN TypeMap : name \in TypeMap[t]

RfcTypeOf(name) == CHOOSE t \in DOMAIN TypeMap : name \in TypeMap[t]

(* A DDIC length counts digits, the length of an RfcType the bytes of the  *)
(* packed number.                                                          *)
FromTypeName(name, length) ==
  LET type == RfcTypeOf(name)
  IN [type |-> type, length |-> IF type = "BCD" THEN (length + 1) \div 2 ELSE length]

Timestamps == {"UTCLONG", "UTCSECOND", "UTCMINUTE"}

rfctype2logicaltype(type) ==
  CASE type = "INT" -> "INTEGER"
    [] type = "INT1" -> "TINYINT"
    [] type = "INT2" -> "SMALLINT"
    [] type = "INT8" -> "BIGINT"
    [] type = "FLOAT" -> "DOUBLE"
    [] type \in {"BCD", "DECF16", "DECF34"} -> "DECIMAL"
    [] type \in {"XSTRING", "BYTE"} -> "BLOB"
    [] type \in {"DATE", "TIME"} -> type
    [] type \in Timestamps -> "TIMESTAMP"
    [] OTHER -> "VARCHAR"

(* An INT is declared wider than it is accepted.                           *)
CreateDuckDbType(type) == IF type = "INT" THEN "BIGINT" ELSE rfctype2logicaltype(type)

Precision(rfc) ==
  CASE rfc.type = "DECF16" -> 16
    [] rfc.type = "DECF34" -> 34
    [] OTHER -> Least(2 * rfc.length - 1, 38)

(* Nine digits and more hold every number here.                            *)
InDigits(n, precision) ==
  precision >= 9 \/ n \in 1 - 10 ^ precision .. 10 ^ precision - 1

IsCompatibleType(rfc, id) ==
  \/ id = rfctype2logicaltype(rfc.type)
  \/ rfc.type \in {"XSTRING", "BYTE"} /\ id \in {"VARCHAR", "BLOB"}

-----------------------------------------------------------------------------
(* From DuckDB to SAP.                                                     *)

(* A date is <<year, month, day>>; the digits of YYYYMMDD are a number.  A *)
(* year of five digits makes nine, of which eight are copied.              *)
DateToRfc(date) ==
  LET digits == date[1] * 10000 + date[2] * 100 + date[3]
  IN IF date[1] > 9999 THEN digits \div 10 ELSE digits

(* <<hour, minute, second, microseconds>>: the fraction is left out.       *)
TimeToRfc(time) == time[1] * 10000 + time[2] * 100 + time[3]

(* <<year, month, day, hour, minute, second>>, as the two halves of        *)
(* YYYYMMDDHHMMSS.                                                         *)
timestamp2sap_utc(ts) ==
  <<ts[1] * 10000 + ts[2] * 100 + ts[3], ts[4] * 10000 + ts[5] * 100 + ts[6]>>

(* What AdaptValue hands to the setter of the type.                        *)
duck2rfc(rfc, value) ==
  CASE rfc.type = "INT1" -> <<value.v[1] % 256>>
    [] rfc.type = "DATE" -> <<DateToRfc(value.v)>>
    [] rfc.type = "TIME" -> <<TimeToRfc(value.v)>>
    [] rfc.type \in Timestamps -> timestamp2sap_utc(value.v)
    [] OTHER -> value.v

(* The SDK: which data a field refuses, and what it holds afterwards.      *)
SdkRefuses(rfc, data) ==
  \/ rfc.type \in {"NUM", "CHAR", "BYTE"} /\ Len(data) > rfc.length
  \/ rfc.type = "NUM" /\ \E i \in DOMAIN data : ~ Digit(data[i])
  \/ rfc.type = "BCD" /\ ~ InDigits(data[1], Precision(rfc))

Padding(n, c) == [i \in 1 .. n |-> c]
SdkField(rfc, data) ==
  LET free == rfc.length - Len(data)
  IN CASE rfc.type = "NUM" -> Padding(free, Zero) \o data
       [] rfc.type = "CHAR" -> data \o Padding(free, Blank)
       [] rfc.type = "BYTE" -> data \o Padding(free, 0)
       [] OTHER -> data

SdkInitial(rfc) ==
  CASE rfc.type \in {"NUM", "CHAR", "BYTE"} -> SdkField(rfc, <<>>)
    [] rfc.type \in {"STRING", "XSTRING"} -> <<>>
    [] rfc.type \in Timestamps -> <<0, 0>>
    [] OTHER -> <<0>>

-----------------------------------------------------------------------------
(* From SAP to DuckDB.                                                     *)

(* What uc2std takes off the end of a text: NULs, and all that is isspace. *)
IsSpace(c) == c = 0 \/ c = Blank \/ c \in 9 .. 13
RTrim(text) == SubSeq(text, 1, SelectLastInSeq(text, LAMBDA c : ~ IsSpace(c)))

(* All zeros, and what is no date, are NULL.                               *)
DaysIn(y, m) ==
  IF m = 2 THEN IF y % 4 = 0 /\ (y % 100 # 0 \/ y % 400 = 0) THEN 29 ELSE 28
  ELSE IF m \in {4, 6, 9, 11} THEN 30 ELSE 31

dats2duck(dats) ==
  LET y == dats \div 10000  m == (dats \div 100) % 100  d == dats % 100
  IN IF m \in 1 .. 12 /\ d \in 1 .. DaysIn(y, m) THEN Value("DATE", <<y, m, d>>) ELSE Null

IsValidTime(h, m, s) == h \in 0 .. 23 /\ m \in 0 .. 59 /\ s \in 0 .. 59

tims2duck(tims) ==
  LET h == tims \div 10000  m == (tims \div 100) % 100  s == tims % 100
  IN IF tims # 0 /\ IsValidTime(h, m, s) THEN Value("TIME", <<h, m, s, 0>>) ELSE Null

sap_utc2timestamp(utc) ==
  LET date == dats2duck(utc[1])
      h == utc[2] \div 10000  m == (utc[2] \div 100) % 100  s == utc[2] % 100
  IN IF date # Null /\ IsValidTime(h, m, s)
     THEN Value("TIMESTAMP", date.v \o <<h, m, s>>) ELSE Null

(* A decimal's text is <<digits>> or, with the sign behind, <<digits, 45>>. *)
Minus == 45
bcd2duck(text, precision) ==
  LET n == IF Len(text) = 2 THEN 0 - text[1] ELSE text[1]
  IN IF text = <<>> THEN Null
     ELSE IF ~ InDigits(n, precision) THEN Error
     ELSE Value("DECIMAL", <<n>>)

(* A mutant: the spelling is stored.                                       *)
HexText(text) == IF text = <<>> THEN Null ELSE Value("BLOB", text)

(* Two characters of hex text make a byte; a blank cell is NULL.           *)
hex2blob(text) ==
  IF text = <<>> \/ Len(text) % 2 = 1 \/ \E i \in DOMAIN text : text[i] \notin 0 .. 15
  THEN Null
  ELSE Value("BLOB", [i \in 1 .. Len(text) \div 2 |-> text[2 * i - 1] * 16 + text[2 * i]])

uc2duck(text) == IF RTrim(text) = <<>> THEN Null ELSE Value("VARCHAR", RTrim(text))

Signed(n, w) == IF n >= 2 ^ (w - 1) THEN n - 2 ^ w ELSE n

(* The direct read, when the SDK gives the field.  The text of a timestamp *)
(* is taken with the length of its buffer: what the buffer held behind the *)
(* text may make it no timestamp.                                          *)
ReadValue(rfc, field) ==
  CASE rfc.type = "NUM" -> {Value("VARCHAR", field)}
    [] rfc.type = "CHAR" -> {Value("VARCHAR", RTrim(field))}
    [] rfc.type = "STRING" -> {uc2duck(field)}
    [] rfc.type \in {"BYTE", "XSTRING"} -> {Value("BLOB", field)}
    [] rfc.type = "INT1" -> {Value("TINYINT", <<Signed(field[1], 8)>>)}
    [] rfc.type \in {"BCD", "DECF16", "DECF34"} -> {bcd2duck(field, Precision(rfc))}
    [] rfc.type = "DATE" -> {dats2duck(field[1])}
    [] rfc.type = "TIME" -> {tims2duck(field[1])}
    [] rfc.type \in Timestamps -> {sap_utc2timestamp(field), Null}
    [] OTHER -> {Value(rfctype2logicaltype(rfc.type), field)}

(* When the SDK does not, some types leave the switch for the FALSE behind *)
(* it, and the others throw.                                               *)
False == Value("BOOLEAN", <<0>>)
ReadFailed(rfc) ==
  IF rfc.type \in {"NUM", "BYTE", "DATE", "TIME", "INT8", "DECF16", "DECF34"} \cup Timestamps
  THEN False ELSE Error

ConvertRfcValue(rfc, field) == ReadValue(rfc, field) \cup {ReadFailed(rfc)}

(* How RFC_READ_TABLE spells a field: bytes in hex, a negative packed      *)
(* number with its sign behind, an initial number as blanks now and then.  *)
Integral == {"INT", "INT1", "INT2", "INT8", "FLOAT"}
Decimals == {"BCD", "DECF16", "DECF34"}
CsvTexts(rfc, field) ==
  CASE rfc.type \in {"BYTE", "XSTRING"} ->
         {[i \in 1 .. 2 * Len(field) |->
             IF i % 2 = 1 THEN field[(i + 1) \div 2] \div 16 ELSE field[i \div 2] % 16]}
    [] rfc.type \in Decimals /\ field[1] < 0 -> {<<0 - field[1], Minus>>}
    [] rfc.type \in Integral \cup {"BCD"} /\ field = <<0>> -> {field, <<>>}
    [] OTHER -> {field}

(* The result line holding it is a CHAR field, or a STRING (of ET_DATA),   *)
(* which reads blanks as NULL.  What spells a number or bytes ends in no   *)
(* blank.                                                                  *)
Textual == {"NUM", "CHAR", "STRING"}
Cell(rfc, line, text) ==
  LET trimmed == IF rfc.type \in Textual THEN RTrim(text) ELSE text
  IN IF line = "STRING" /\ trimmed = <<>> THEN Null ELSE Value("VARCHAR", trimmed)

(* A column of a table read.  The text of a NULL is "NULL": no number, no  *)
(* hex.  A number that its type does not hold throws.                      *)
ConvertCsvValue(rfc, cell) ==
  IF rfc.type \in Integral \cup Decimals /\ cell = Null THEN Error
  ELSE CASE rfc.type \in Decimals -> bcd2duck(cell.v, Precision(rfc))
         [] rfc.type \in {"BYTE", "XSTRING"} -> hex2blob(cell.v)
         [] rfc.type = "DATE" -> dats2duck(cell.v[1])
         [] rfc.type = "TIME" -> tims2duck(cell.v[1])
         [] rfc.type \in Timestamps -> sap_utc2timestamp(cell.v)
         [] rfc.type \in Integral ->
              IF cell.v = <<>> THEN Null
              ELSE IF rfc.type = "INT1" /\ cell.v[1] \notin -128 .. 127 THEN Error
              ELSE Value(CreateDuckDbType(rfc.type), cell.v)
         [] OTHER -> cell

-----------------------------------------------------------------------------
(* What the values of a DuckDB type look like that a field takes: a text   *)
(* for bytes is its bytes, a date one of the years SAP has.  A text has no *)
(* NUL, at which the setters' strlenU would end it.                        *)
IsDate(y, m, d) == y \in 1 .. 9999 /\ m \in 1 .. 12 /\ d \in 1 .. DaysIn(y, m)

Convertible(rfc, value) ==
  LET v == value.v
  IN CASE rfc.type \in Textual -> v \in Seq(Nat \ {0})
       [] rfc.type \in {"BYTE", "XSTRING"} -> v \in Seq(0 .. 255)
       [] rfc.type = "INT1" -> v \in [1 .. 1 -> -128 .. 127]
       [] rfc.type = "DATE" -> v \in [1 .. 3 -> Nat] /\ IsDate(v[1], v[2], v[3])
       [] rfc.type = "TIME" ->
            /\ v \in [1 .. 4 -> Nat]
            /\ \/ IsValidTime(v[1], v[2], v[3])
               \/ v[1] = 24 /\ v[2] = 0 /\ v[3] = 0
       [] rfc.type \in Timestamps ->
            v \in [1 .. 6 -> Nat] /\ IsDate(v[1], v[2], v[3]) /\ IsValidTime(v[4], v[5], v[6])
       [] OTHER -> v \in [1 .. 1 -> Int]
=============================================================================
