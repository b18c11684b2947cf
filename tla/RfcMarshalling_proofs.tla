------------------------ MODULE RfcMarshalling_proofs ------------------------
(***************************************************************************)
(* For every function, call and value of the types the fields take: what   *)
(* is sent to a function that returns it comes back, in its place and with *)
(* its type, but for the white space at the end of a text, and a column of *)
(* a table reads a field as the direct read does, but for what is NULL.    *)
(*                                                                         *)
(* The invariant says of each parameter what the container holds of it     *)
(* (ParameterInv): the initial lines, or, once its argument is adapted,    *)
(* the lines made of what the call gives for it (Held).  The rest is about *)
(* operators: that the adapters match an argument with the parameter it is *)
(* given for (GivenIsMatched, MatchedIsGiven), and, one lemma per type,    *)
(* that what a field then holds is read back as it was.                    *)
(***************************************************************************)
EXTENDS RfcMarshalling, FiniteSetTheorems, SequenceTheorems, WellFoundedInduction, TLAPS

(* The lines a value makes, and whether the SDK refuses a field of them.   *)
Adapted(param, value) ==
  [i \in DOMAIN Lines(param, value) |->
     AdaptStructure(param.fields, Lines(param, value)[i])]
Held(param, value) ==
  [i \in DOMAIN Lines(param, value) |->
     [f \in DOMAIN param.fields |-> Adapted(param, value)[i][f].held]]
Rejected(param, value) ==
  \E i \in DOMAIN Lines(param, value), f \in DOMAIN param.fields :
     Adapted(param, value)[i][f].refused

MatchedArguments == Matched(call.function, call.arguments)
Done(name) == \E n \in DOMAIN MatchedArguments : n < next /\ MatchedArguments[n][1] = name

ParameterInv(param) ==
  LET value == Given(call, param)
  IN IF value # Null /\ Done(param.name)
     THEN /\ TypeFits(param, value)
          /\ container[param.name] = Held(param, value)
          /\ param.name \in refused \/ ~ Rejected(param, value)
     ELSE container[param.name] = InitialLines(param)

CallInv ==
  /\ call \in Calls
  /\ next \in Nat \ {0}
  /\ DOMAIN container = Names(call.function)
  /\ container = [name \in DOMAIN container |-> container[name]]
  /\ \A i \in DOMAIN call.function : ParameterInv(call.function[i])

(* A result is read from the container.                                    *)
ResultsInv ==
  /\ next > Len(MatchedArguments)
  /\ DOMAIN results = Names(call.function)
  /\ results = [name \in DOMAIN results |-> results[name]]
  /\ \A i \in DOMAIN call.function :
       LET param == call.function[i]
       IN \/ results[param.name] = <<>>
          \/ \E value \in ConvertRfcTable(param.fields, container[param.name]) :
               ~ Raised(value) /\ results[param.name] = <<value>>

Inv ==
  /\ pc = "bind" => next = 1
  /\ pc \in {"adapt", "executed"} => CallInv
  /\ IF pc = "executed" THEN ResultsInv ELSE results = <<>>

(* What a field of a type can hold.                                        *)
Holds(rfc, field) ==
  CASE rfc.type = "NUM" -> field \in Seq(Zero .. Zero + 9)
    [] rfc.type \in {"CHAR", "STRING"} -> field \in Seq(Nat)
    [] rfc.type \in {"BYTE", "XSTRING"} -> field \in Seq(0 .. 255)
    [] rfc.type = "INT1" -> field \in [1 .. 1 -> 0 .. 255]
    [] rfc.type = "BCD" -> field \in [1 .. 1 -> Int] /\ InDigits(field[1], Precision(rfc))
    [] rfc.type \in Timestamps -> field \in [1 .. 2 -> Nat]
    [] rfc.type \in {"DATE", "TIME"} -> field \in [1 .. 1 -> Nat]
    [] OTHER -> field \in [1 .. 1 -> Int]

-----------------------------------------------------------------------------
(* Numbers and places.                                                     *)
LEMMA LeastNumber ==
  ASSUME NEW T, T \subseteq Nat, T # {}
  PROVE  \E x \in T : \A y \in T : x <= y
<1> DEFINE R == OpToRel(<, Nat)
<1>1. IsWellFoundedOn(R, Nat)
  BY NatLessThanWellFounded
<1>2. \A x, y \in Nat : <<x, y>> \in R <=> x < y
  BY DEF OpToRel
<1> HIDE DEF R
<1>3. PICK x \in T : \A y \in T : ~ (<<y, x>> \in R)
  BY <1>1, WFMin
<1>4. \A y \in T : y \in Nat /\ x \in Nat /\ ~ (y < x)
  BY <1>2, <1>3
<1>5. \A y \in T : x <= y
  BY <1>4
<1> QED BY <1>5

LEMMA MinInSet ==
  ASSUME NEW T, T \subseteq Nat, T # {}
  PROVE  Min(T) \in T /\ \A y \in T : Min(T) <= y
BY LeastNumber DEF Min

LEMMA MaxInSet ==
  ASSUME NEW T, NEW n \in Nat, T \subseteq 1 .. n, T # {}
  PROVE  Max(T) \in T /\ \A y \in T : Max(T) >= y
<1> DEFINE D == {n - x : x \in T}
<1>1. D \subseteq Nat /\ D # {}
  <2>1. \A x \in T : n - x \in Nat
    OBVIOUS
  <2> QED BY <2>1
<1>2. PICK d \in D : \A e \in D : d <= e
  <2> HIDE DEF D
  <2> QED BY <1>1, LeastNumber
<1>3. PICK x \in T : d = n - x
  OBVIOUS
<1>4. \A y \in T : n - y \in D
  OBVIOUS
<1>5. \A y \in T : x >= y
  BY <1>2, <1>3, <1>4
<1> QED BY <1>5 DEF Max

LEMMA SequenceIs ==
  ASSUME NEW s, IsSequence(s)
  PROVE  Len(s) \in Nat /\ DOMAIN s = 1 .. Len(s)
BY DEF IsSequence

LEMMA SequenceOf ==
  ASSUME NEW S, NEW n \in Nat, NEW s \in [1 .. n -> S]
  PROVE  s \in Seq(S) /\ Len(s) = n
OBVIOUS

LEMMA ElementsOf ==
  ASSUME NEW S, NEW s \in Seq(S)
  PROVE  Len(s) \in Nat /\ s \in [1 .. Len(s) -> S] /\ DOMAIN s = 1 .. Len(s)
OBVIOUS

(* What SelectInSeq finds among things told apart by their names.          *)
LEMMA PlaceOf ==
  ASSUME NEW s, IsSequence(s), NEW name, NEW i \in DOMAIN s, s[i].name = name,
         IsInjective([j \in DOMAIN s |-> s[j].name])
  PROVE  SelectInSeq(s, LAMBDA p : p.name = name) = i
<1> DEFINE T == {j \in 1 .. Len(s) : s[j].name = name}
<1>1. DOMAIN s = 1 .. Len(s) /\ Len(s) \in Nat
  BY SequenceIs
<1>2. \A j \in DOMAIN s : s[j].name = name => j = i
  <2> DEFINE f == [j \in DOMAIN s |-> s[j].name]
  <2>1. \A j \in DOMAIN s : f[j] = s[j].name
    OBVIOUS
  <2>2. DOMAIN f = DOMAIN s
    OBVIOUS
  <2> HIDE DEF f
  <2>3. IsInjective(f)
    BY DEF f
  <2> QED BY <2>1, <2>2, <2>3 DEF IsInjective
<1>3. T = {i} /\ T \subseteq Nat
  BY <1>1, <1>2
<1>4. Min(T) = i
  BY <1>3, MinInSet
<1> QED BY <1>3, <1>4 DEF SelectInSeq

LEMMA MemberIs ==
  ASSUME NEW line, IsSequence(line), NEW name
  PROVE  \/ Member(line, name) = Null /\ \A i \in DOMAIN line : line[i][1] # name
         \/ \E i \in DOMAIN line : line[i][1] = name /\ Member(line, name) = line[i][2]
<1> DEFINE T == {i \in 1 .. Len(line) : line[i][1] = name}
           at == SelectInSeq(line, LAMBDA m : m[1] = name)
<1>1. DOMAIN line = 1 .. Len(line) /\ Len(line) \in Nat
  BY SequenceIs
<1>2. at = IF T # {} THEN Min(T) ELSE 0
  BY DEF SelectInSeq
<1>3. Member(line, name) = IF at = 0 THEN Null ELSE line[at][2]
  BY DEF Member
<1>4. CASE T = {}
  BY <1>1, <1>2, <1>3, <1>4
<1>5. CASE T # {}
  <2>1. at \in T
    <3>1. T \subseteq Nat
      BY <1>1
    <3> HIDE DEF T, at
    <3> QED BY <1>2, <1>5, <3>1, MinInSet
  <2> HIDE DEF at
  <2>2. at \in DOMAIN line /\ at # 0 /\ line[at][1] = name
    BY <1>1, <2>1
  <2> QED BY <1>3, <2>2
<1> QED BY <1>4, <1>5

LEMMA MemberAt ==
  ASSUME NEW line, IsSequence(line), IsInjective([j \in DOMAIN line |-> line[j][1]]),
         NEW i \in DOMAIN line
  PROVE  Member(line, line[i][1]) = line[i][2]
<1> DEFINE f == [j \in DOMAIN line |-> line[j][1]]
<1>1. \A j \in DOMAIN line : line[j][1] = line[i][1] => j = i
  <2>1. (\A j \in DOMAIN line : f[j] = line[j][1]) /\ DOMAIN f = DOMAIN line
    OBVIOUS
  <2> HIDE DEF f
  <2>2. IsInjective(f)
    BY DEF f
  <2> QED BY <2>1, <2>2 DEF IsInjective
<1>2. CASE \E j \in DOMAIN line :
              line[j][1] = line[i][1] /\ Member(line, line[i][1]) = line[j][2]
  BY <1>1, <1>2
<1> QED BY <1>2, MemberIs

-----------------------------------------------------------------------------
(* Texts.                                                                  *)
LastMark(text) == SelectLastInSeq(text, LAMBDA c : ~ IsSpace(c))

LEMMA LastMarkIs ==
  ASSUME NEW text, IsSequence(text)
  PROVE  /\ LastMark(text) \in 0 .. Len(text)
         /\ LastMark(text) # 0 => ~ IsSpace(text[LastMark(text)])
         /\ \A i \in 1 .. Len(text) : i > LastMark(text) => IsSpace(text[i])
<1> DEFINE T == {i \in 1 .. Len(text) : ~ IsSpace(text[i])}
<1>1. Len(text) \in Nat
  BY SequenceIs
<1>2. LastMark(text) = IF T # {} THEN Max(T) ELSE 0
  BY DEF LastMark, SelectLastInSeq
<1>3. CASE T = {}
  <2>1. LastMark(text) = 0 /\ \A i \in 1 .. Len(text) : IsSpace(text[i])
    BY <1>2, <1>3
  <2> QED BY <1>1, <2>1
<1>4. CASE T # {}
  <2>1. Max(T) \in T /\ \A i \in T : Max(T) >= i
    <3>1. T \subseteq 1 .. Len(text)
      OBVIOUS
    <3> HIDE DEF T
    <3> QED BY <1>1, <1>4, <3>1, MaxInSet
  <2>2. LastMark(text) = Max(T)
    BY <1>2, <1>4
  <2>3. LastMark(text) \in 1 .. Len(text) /\ ~ IsSpace(text[LastMark(text)])
    BY <2>1, <2>2
  <2>4. \A i \in 1 .. Len(text) : i > LastMark(text) => IsSpace(text[i])
    <3> SUFFICES ASSUME NEW i \in 1 .. Len(text), ~ IsSpace(text[i]) PROVE ~ (i > LastMark(text))
      OBVIOUS
    <3>1. i \in T
      OBVIOUS
    <3>2. Max(T) >= i
      BY <2>1, <3>1
    <3> QED BY <1>1, <2>2, <2>3, <3>2
  <2> QED BY <1>1, <2>3, <2>4
<1> QED BY <1>3, <1>4

LEMMA TextIsSequence == \A S : \A text \in Seq(S) : IsSequence(text)
<1> SUFFICES ASSUME NEW S, NEW text \in Seq(S) PROVE IsSequence(text)
  OBVIOUS
<1>1. text \in [1 .. Len(text) -> Range(text)] /\ Len(text) \in Nat
  BY DEF Range
<1> QED BY <1>1 DEF IsSequence

(* Blanks behind a text do not matter to its trimming.                     *)
LEMMA TrimPadded ==
  ASSUME NEW text \in Seq(Nat), NEW n \in Nat
  PROVE  RTrim(text \o Padding(n, Blank)) = RTrim(text)
<1> DEFINE padded == text \o Padding(n, Blank)
           k == LastMark(text)
           m == LastMark(padded)
<1>1. Padding(n, Blank) \in Seq(Nat) /\ Len(Padding(n, Blank)) = n
  BY DEF Padding, Blank
<1>2. /\ padded \in Seq(Nat) /\ Len(padded) = Len(text) + n /\ Len(text) \in Nat
      /\ \A i \in 1 .. Len(text) : padded[i] = text[i]
      /\ \A i \in 1 .. Len(text) + n : i > Len(text) => padded[i] = Blank
  BY <1>1 DEF Padding
<1>3. IsSequence(text) /\ IsSequence(padded)
  BY <1>2, TextIsSequence
<1>4. /\ k \in 0 .. Len(text) /\ (k # 0 => ~ IsSpace(text[k]))
      /\ \A i \in 1 .. Len(text) : i > k => IsSpace(text[i])
  BY <1>3, LastMarkIs
<1>5. /\ m \in 0 .. Len(padded) /\ (m # 0 => ~ IsSpace(padded[m]))
      /\ \A i \in 1 .. Len(padded) : i > m => IsSpace(padded[i])
  BY <1>3, LastMarkIs
<1> HIDE DEF k, m, padded
<1>6. ~ (m > k)
  <2> SUFFICES ASSUME m > k PROVE FALSE
    OBVIOUS
  <2>1. m \in 1 .. Len(text) + n /\ ~ IsSpace(padded[m])
    BY <1>2, <1>4, <1>5
  <2>2. m <= Len(text)
    BY <1>2, <2>1 DEF IsSpace
  <2>3. m \in 1 .. Len(text) /\ text[m] = padded[m]
    BY <1>2, <2>1, <2>2
  <2> QED BY <1>4, <2>1, <2>3
<1>7. ~ (k > m)
  BY <1>2, <1>4, <1>5
<1>8. m = k
  BY <1>2, <1>4, <1>5, <1>6, <1>7
<1>9. SubSeq(padded, 1, k) = SubSeq(text, 1, k)
  BY <1>2, <1>4
<1> QED BY <1>8, <1>9 DEF RTrim, LastMark, k, m, padded

LEMMA TrimOfMarks ==
  ASSUME NEW text \in Seq(Nat), \A i \in DOMAIN text : ~ IsSpace(text[i])
  PROVE  RTrim(text) = text
<1>1. IsSequence(text) /\ Len(text) \in Nat /\ DOMAIN text = 1 .. Len(text)
  BY TextIsSequence
<1>2. LastMark(text) = Len(text)
  BY <1>1, LastMarkIs
<1>3. SubSeq(text, 1, Len(text)) = text
  BY <1>1
<1> QED BY <1>2, <1>3 DEF RTrim, LastMark

-----------------------------------------------------------------------------
(* The types.                                                              *)
TypeNames ==
  {"NUM", "CHAR", "STRING", "BYTE", "XSTRING", "INT1", "BCD", "DECF16", "DECF34", "DATE",
   "TIME", "UTCLONG", "UTCSECOND", "UTCMINUTE", "INT", "INT2", "INT8", "FLOAT"}

IsType(rfc) ==
  /\ rfc.type \in TypeNames /\ rfc.length \in Nat
  /\ rfc.type = "BCD" => rfc.length > 0

LEMMA SdkTypeIs ==
  ASSUME NEW field, IsField(field)
  PROVE  /\ IsType(SdkType(field))
         /\ SdkType(field).type = RfcTypeOf(field.ddic)
         /\ ColumnType(field).type = SdkType(field).type
         /\ SdkType(field).type # "BCD" => ColumnType(field).length = SdkType(field).length
         /\ field.length % 2 = 1 => ColumnType(field).length = SdkType(field).length
<1>1. DOMAIN TypeMap = TypeNames
  BY DEF TypeMap, TypeNames
<1>2. RfcTypeOf(field.ddic) \in TypeNames
  BY <1>1 DEF IsField, IsKnownDataType, RfcTypeOf
<1>3. /\ field.length \in Nat
      /\ (field.length + 2) \div 2 \in Nat
      /\ field.length > 0 => (field.length + 2) \div 2 > 0
  BY DEF IsField
<1>4. field.length % 2 = 1 => (field.length + 1) \div 2 = (field.length + 2) \div 2
  BY <1>3
<1> QED BY <1>2, <1>3, <1>4 DEF IsField, IsType, SdkType, ColumnType, FromTypeName

LEMMA PrecisionIs ==
  ASSUME NEW rfc, IsType(rfc), rfc.type \in Decimals
  PROVE  /\ Precision(rfc) \in Nat \ {0}
         /\ rfc.type # "BCD" => Precision(rfc) >= 9
BY DEF IsType, Decimals, Precision, Least

LEMMA ZeroInDigits ==
  ASSUME NEW p \in Nat \ {0}
  PROVE  InDigits(0, p)
<1>1. CASE p >= 9
  BY <1>1 DEF InDigits
<1>2. CASE p \in 1 .. 8
  <2> SUFFICES 0 \in 1 - 10 ^ p .. 10 ^ p - 1
    BY DEF InDigits
  <2>1. CASE p = 1
    BY <2>1
  <2>2. CASE p = 2
    BY <2>2
  <2>3. CASE p = 3
    BY <2>3
  <2>4. CASE p = 4
    BY <2>4
  <2>5. CASE p = 5
    BY <2>5
  <2>6. CASE p = 6
    BY <2>6
  <2>7. CASE p = 7
    BY <2>7
  <2>8. CASE p = 8
    BY <2>8
  <2> QED BY <1>2, <2>1, <2>2, <2>3, <2>4, <2>5, <2>6, <2>7, <2>8
<1> QED BY <1>1, <1>2

(* A field holds what its type can hold: the initial value, and what the   *)
(* SDK takes.                                                              *)
LEMMA PaddingIs ==
  ASSUME NEW S, NEW c \in S, NEW n \in Nat
  PROVE  Padding(n, c) \in Seq(S) /\ Len(Padding(n, c)) = n
BY DEF Padding

LEMMA InitialHolds ==
  ASSUME NEW rfc, IsType(rfc)
  PROVE  Holds(rfc, SdkInitial(rfc))
<1>1. CASE rfc.type \in {"NUM", "CHAR", "BYTE"}
  <2> DEFINE n == rfc.length - Len(<<>>)
  <2>1. n \in Nat
    BY DEF IsType
  <2>2. /\ Padding(n, Zero) \in Seq(Zero .. Zero + 9) /\ Padding(n, Blank) \in Seq(Nat)
        /\ Padding(n, 0) \in Seq(0 .. 255)
    <3> HIDE DEF n
    <3>1. Zero \in Zero .. Zero + 9 /\ Blank \in Nat /\ 0 \in 0 .. 255
      BY DEF Zero, Blank
    <3> QED BY <2>1, <3>1, PaddingIs
  <2>3. /\ Padding(n, Zero) \o <<>> = Padding(n, Zero)
        /\ <<>> \o Padding(n, Blank) = Padding(n, Blank)
        /\ <<>> \o Padding(n, 0) = Padding(n, 0)
    <3> HIDE DEF n
    <3> QED BY <2>2
  <2> QED BY <1>1, <2>2, <2>3 DEF SdkInitial, SdkField, Holds
<1>2. CASE rfc.type = "BCD"
  <2>1. InDigits(0, Precision(rfc))
    BY <1>2, PrecisionIs, ZeroInDigits DEF Decimals
  <2> QED BY <1>2, <2>1 DEF SdkInitial, Holds, Timestamps
<1>3. CASE rfc.type \in {"STRING", "XSTRING"}
  BY <1>3 DEF SdkInitial, Holds
<1>4. CASE rfc.type \in Timestamps
  BY <1>4 DEF SdkInitial, Holds, Timestamps
<1>5. CASE rfc.type \in {"INT1", "DATE", "TIME", "DECF16", "DECF34", "INT", "INT2", "INT8",
                         "FLOAT"}
  BY <1>5 DEF SdkInitial, Holds, Timestamps
<1> QED BY <1>1, <1>2, <1>3, <1>4, <1>5 DEF IsType, TypeNames, Timestamps

LEMMA DateParts ==
  ASSUME NEW y, NEW m, NEW d, IsDate(y, m, d)
  PROVE  /\ y \in Nat /\ y <= 9999
         /\ m \in 1 .. 12 /\ d \in 1 .. 31 /\ d \in 1 .. DaysIn(y, m)
<1>1. DaysIn(y, m) \in {28, 29, 30, 31}
  BY DEF DaysIn
<1>2. y \in 1 .. 9999
  BY DEF IsDate
<1> QED BY <1>1, <1>2 DEF IsDate

LEMMA FilledHolds ==
  ASSUME NEW rfc, IsType(rfc), NEW value, Convertible(rfc, value),
         ~ SdkRefuses(rfc, duck2rfc(rfc, value))
  PROVE  Holds(rfc, SdkField(rfc, duck2rfc(rfc, value)))
<1> DEFINE v == value.v
           n == rfc.length - Len(v)
<1>1. CASE rfc.type \in {"NUM", "CHAR"}
  <2>1. v \in Seq(Nat)
    BY <1>1 DEF Convertible, Textual, Timestamps
  <2>2. duck2rfc(rfc, value) = v
    BY <1>1 DEF duck2rfc, Timestamps
  <2>3. n \in Nat
    BY <1>1, <2>1, <2>2 DEF SdkRefuses, IsType
  <2>4. CASE rfc.type = "CHAR"
    <3>1. Padding(n, Blank) \in Seq(Nat)
      BY <2>3, PaddingIs DEF Blank
    <3>2. SdkField(rfc, v) = v \o Padding(n, Blank)
      BY <2>4 DEF SdkField
    <3> HIDE DEF n, v
    <3>3. v \o Padding(n, Blank) \in Seq(Nat)
      BY <2>1, <3>1
    <3> QED BY <2>2, <2>4, <3>2, <3>3 DEF Holds, Timestamps
  <2>5. CASE rfc.type = "NUM"
    <3>1. Padding(n, Zero) \in Seq(Zero .. Zero + 9)
      <4>1. Zero \in Zero .. Zero + 9
        BY DEF Zero
      <4> QED BY <2>3, <4>1, PaddingIs
    <3>2. SdkField(rfc, v) = Padding(n, Zero) \o v
      BY <2>5 DEF SdkField
    <3>3. \A i \in DOMAIN v : v[i] \in Zero .. Zero + 9
      BY <2>2, <2>5 DEF SdkRefuses, Digit
    <3> HIDE DEF n, v
    <3>4. v \in Seq(Zero .. Zero + 9)
      <4>1. v \in [1 .. Len(v) -> Zero .. Zero + 9] /\ Len(v) \in Nat
        BY <2>1, <3>3
      <4> QED BY <4>1, SequenceOf
    <3>5. Padding(n, Zero) \o v \in Seq(Zero .. Zero + 9)
      BY <3>1, <3>4
    <3> QED BY <2>2, <2>5, <3>2, <3>5 DEF Holds, Timestamps
  <2> QED BY <1>1, <2>4, <2>5
<1>2. CASE rfc.type = "BYTE"
  <2>1. v \in Seq(0 .. 255) /\ Len(v) \in Nat
    BY <1>2 DEF Convertible, Textual, Timestamps
  <2>2. duck2rfc(rfc, value) = v
    BY <1>2 DEF duck2rfc, Timestamps
  <2>3. n \in Nat
    BY <1>2, <2>1, <2>2 DEF SdkRefuses, IsType
  <2>4. Padding(n, 0) \in Seq(0 .. 255)
    <3>1. 0 \in 0 .. 255
      OBVIOUS
    <3> QED BY <2>3, <3>1, PaddingIs
  <2>5. SdkField(rfc, v) = v \o Padding(n, 0)
    BY <1>2 DEF SdkField
  <2> HIDE DEF n, v
  <2>6. v \o Padding(n, 0) \in Seq(0 .. 255)
    BY <2>1, <2>4
  <2> QED BY <1>2, <2>2, <2>5, <2>6 DEF Holds, Timestamps
<1>3. CASE rfc.type \in {"STRING", "XSTRING", "BCD", "DECF16", "DECF34", "INT", "INT2", "INT8",
                         "FLOAT"}
  <2>1. SdkField(rfc, duck2rfc(rfc, value)) = v
    BY <1>3 DEF duck2rfc, SdkField, Timestamps
  <2>2. rfc.type = "BCD" => InDigits(v[1], Precision(rfc))
    BY <1>3, <2>1 DEF SdkRefuses, SdkField, duck2rfc
  <2> HIDE DEF v
  <2>3. CASE rfc.type = "STRING"
    <3>1. v \in Seq(Nat)
      BY <2>3 DEF Convertible, Textual, Timestamps, v
    <3> QED BY <2>1, <2>3, <3>1 DEF Holds, Timestamps
  <2>4. CASE rfc.type = "XSTRING"
    <3>1. v \in Seq(0 .. 255)
      BY <2>4 DEF Convertible, Textual, Timestamps, v
    <3> QED BY <2>1, <2>4, <3>1 DEF Holds, Timestamps
  <2>5. CASE rfc.type \in {"BCD", "DECF16", "DECF34", "INT", "INT2", "INT8", "FLOAT"}
    <3>1. v \in [1 .. 1 -> Int]
      BY <2>5 DEF Convertible, Textual, Timestamps, v
    <3> QED BY <2>1, <2>2, <2>5, <3>1 DEF Holds, Timestamps
  <2> QED BY <1>3, <2>3, <2>4, <2>5
<1>4. CASE rfc.type = "INT1"
  <2>1. SdkField(rfc, duck2rfc(rfc, value)) = <<v[1] % 256>>
    BY <1>4 DEF duck2rfc, SdkField, Timestamps
  <2>2. v[1] % 256 \in 0 .. 255
    BY <1>4 DEF Convertible, Textual, Timestamps
  <2> QED BY <1>4, <2>1, <2>2 DEF Holds, Timestamps
<1>5. CASE rfc.type = "DATE"
  <2>1. SdkField(rfc, duck2rfc(rfc, value)) = <<v[1] * 10000 + v[2] * 100 + v[3]>>
    <3>1. IsDate(v[1], v[2], v[3]) /\ v \in [1 .. 3 -> Nat]
      BY <1>5 DEF Convertible, Textual, Timestamps
    <3>2. ~ (v[1] > 9999)
      BY <3>1, DateParts
    <3>3. duck2rfc(rfc, value) = <<v[1] * 10000 + v[2] * 100 + v[3]>>
      BY <1>5, <3>2 DEF duck2rfc, DateToRfc, Timestamps
    <3> QED BY <1>5, <3>3 DEF SdkField
  <2>2. v[1] * 10000 + v[2] * 100 + v[3] \in Nat
    BY <1>5 DEF Convertible, Textual, Timestamps
  <2> QED BY <1>5, <2>1, <2>2 DEF Holds, Timestamps
<1>6. CASE rfc.type = "TIME"
  <2>1. SdkField(rfc, duck2rfc(rfc, value)) = <<v[1] * 10000 + v[2] * 100 + v[3]>>
    BY <1>6 DEF duck2rfc, SdkField, TimeToRfc, Timestamps
  <2>2. v[1] * 10000 + v[2] * 100 + v[3] \in Nat
    BY <1>6 DEF Convertible, Textual, Timestamps
  <2> QED BY <1>6, <2>1, <2>2 DEF Holds, Timestamps
<1>7. CASE rfc.type \in Timestamps
  <2>1. SdkField(rfc, duck2rfc(rfc, value)) = timestamp2sap_utc(v)
    BY <1>7 DEF duck2rfc, SdkField, Timestamps
  <2>2. /\ v[1] * 10000 + v[2] * 100 + v[3] \in Nat
        /\ v[4] * 10000 + v[5] * 100 + v[6] \in Nat
    BY <1>7 DEF Convertible, Textual, Timestamps
  <2> QED BY <1>7, <2>1, <2>2 DEF Holds, Timestamps, timestamp2sap_utc
<1> QED BY <1>1, <1>2, <1>3, <1>4, <1>5, <1>6, <1>7 DEF IsType, TypeNames, Timestamps

-----------------------------------------------------------------------------
(* What a field of each type holds is read back.                           *)
LEMMA Parts ==
  ASSUME NEW a \in Nat, NEW b \in Nat, NEW c \in Nat, b <= 99, c <= 99
  PROVE  /\ (a * 10000 + b * 100 + c) \div 10000 = a
         /\ ((a * 10000 + b * 100 + c) \div 100) % 100 = b
         /\ (a * 10000 + b * 100 + c) % 100 = c
<1>1. a * 10000 + b * 100 + c = 10000 * a + (b * 100 + c) /\ b * 100 + c \in 0 .. 9999
  OBVIOUS
<1>2. (a * 10000 + b * 100 + c) \div 10000 = a
  BY <1>1
<1>3. a * 10000 + b * 100 + c = 100 * (100 * a + b) + c
  OBVIOUS
<1>4. (a * 10000 + b * 100 + c) \div 100 = 100 * a + b
  BY <1>3
<1>5. (100 * a + b) % 100 = b
  OBVIOUS
<1>6. (a * 10000 + b * 100 + c) % 100 = c
  BY <1>3
<1> QED BY <1>2, <1>4, <1>5, <1>6

LEMMA DateIsRead ==
  ASSUME NEW y, NEW m, NEW d, IsDate(y, m, d)
  PROVE  dats2duck(y * 10000 + m * 100 + d) = Value("DATE", <<y, m, d>>)
<1>1. /\ y \in Nat /\ m \in Nat /\ d \in Nat /\ m <= 99 /\ d <= 99
      /\ m \in 1 .. 12 /\ d \in 1 .. DaysIn(y, m)
  BY DateParts
<1> DEFINE n == y * 10000 + m * 100 + d
<1>2. n \div 10000 = y /\ (n \div 100) % 100 = m /\ n % 100 = d
  BY <1>1, Parts
<1> HIDE DEF n
<1>3. dats2duck(n) = Value("DATE", <<y, m, d>>)
  BY <1>1, <1>2 DEF dats2duck
<1> QED BY <1>3 DEF n

LEMMA ClockIs ==
  ASSUME NEW h, NEW m, NEW s, IsValidTime(h, m, s)
  PROVE  /\ h \in Nat /\ m \in Nat /\ s \in Nat
         /\ (h * 10000 + m * 100 + s) \div 10000 = h
         /\ ((h * 10000 + m * 100 + s) \div 100) % 100 = m
         /\ (h * 10000 + m * 100 + s) % 100 = s
<1>1. h \in Nat /\ m \in Nat /\ s \in Nat /\ m <= 99 /\ s <= 99
  BY DEF IsValidTime
<1> QED BY <1>1, Parts

LEMMA TimeIsRead ==
  ASSUME NEW h, NEW m, NEW s, IsValidTime(h, m, s)
  PROVE  LET n == h * 10000 + m * 100 + s
         IN /\ n = 0 <=> h = 0 /\ m = 0 /\ s = 0
            /\ tims2duck(n) = IF n = 0 THEN Null ELSE Value("TIME", <<h, m, s, 0>>)
<1> DEFINE n == h * 10000 + m * 100 + s
<1>1. n \div 10000 = h /\ (n \div 100) % 100 = m /\ n % 100 = s
  BY ClockIs
<1>2. n = 0 <=> h = 0 /\ m = 0 /\ s = 0
  BY ClockIs
<1> HIDE DEF n
<1>3. tims2duck(n) = IF n = 0 THEN Null ELSE Value("TIME", <<h, m, s, 0>>)
  BY <1>1 DEF tims2duck
<1> QED BY <1>2, <1>3 DEF n

LEMMA TimestampIsRead ==
  ASSUME NEW y, NEW mo, NEW d, NEW h, NEW m, NEW s, IsDate(y, mo, d), IsValidTime(h, m, s)
  PROVE  sap_utc2timestamp(<<y * 10000 + mo * 100 + d, h * 10000 + m * 100 + s>>)
           = Value("TIMESTAMP", <<y, mo, d>> \o <<h, m, s>>)
<1> DEFINE day == y * 10000 + mo * 100 + d
           second == h * 10000 + m * 100 + s
<1>1. dats2duck(day) = Value("DATE", <<y, mo, d>>)
  BY DateIsRead
<1>2. second \div 10000 = h /\ (second \div 100) % 100 = m /\ second % 100 = s
  BY ClockIs
<1> HIDE DEF day, second
<1>3. <<day, second>>[1] = day /\ <<day, second>>[2] = second
  OBVIOUS
<1>4. dats2duck(day) # Null /\ dats2duck(day).v = <<y, mo, d>>
  BY <1>1 DEF Value, Null
<1>5. sap_utc2timestamp(<<day, second>>) = Value("TIMESTAMP", <<y, mo, d>> \o <<h, m, s>>)
  BY <1>2, <1>3, <1>4 DEF sap_utc2timestamp
<1> QED BY <1>5 DEF day, second

LEMMA Joined ==
  ASSUME NEW v \in [1 .. 6 -> Nat]
  PROVE  <<v[1], v[2], v[3]>> \o <<v[4], v[5], v[6]>> = v
<1> DEFINE a == <<v[1], v[2], v[3]>>
           b == <<v[4], v[5], v[6]>>
           c == a \o b
<1>1. a \in Seq(Nat) /\ b \in Seq(Nat) /\ Len(a) = 3 /\ Len(b) = 3
  OBVIOUS
<1>2. /\ a[1] = v[1] /\ a[2] = v[2] /\ a[3] = v[3]
      /\ b[1] = v[4] /\ b[2] = v[5] /\ b[3] = v[6]
  OBVIOUS
<1>3. /\ c \in Seq(Nat) /\ Len(c) = Len(a) + Len(b)
      /\ \A i \in 1 .. Len(a) + Len(b) : c[i] = IF i <= Len(a) THEN a[i] ELSE b[i - Len(a)]
  <2> HIDE DEF a, b
  <2> QED BY <1>1, ConcatProperties
<1> HIDE DEF a, b, c
<1>4. c \in [1 .. 6 -> Nat]
  <2>1. Len(c) = 6
    BY <1>1, <1>3
  <2>2. c \in [1 .. Len(c) -> Nat]
    BY <1>3
  <2> QED BY <2>1, <2>2
<1>5. \A i \in 1 .. 6 : c[i] = IF i <= 3 THEN a[i] ELSE b[i - 3]
  BY <1>1, <1>3
<1>6. /\ c[1] = v[1] /\ c[2] = v[2] /\ c[3] = v[3]
      /\ c[4] = v[4] /\ c[5] = v[5] /\ c[6] = v[6]
  BY <1>2, <1>5
<1>7. c = v
  BY <1>4, <1>6
<1> QED BY <1>7 DEF a, b, c

LEMMA FieldComesBack ==
  ASSUME NEW rfc, IsType(rfc), NEW value, Convertible(rfc, value),
         ~ SdkRefuses(rfc, duck2rfc(rfc, value)),
         NEW got \in ReadValue(rfc, SdkField(rfc, duck2rfc(rfc, value)))
  PROVE  \/ got = Value(rfctype2logicaltype(rfc.type), Filled(rfc, value))
         \/ got = Null /\ Nothing(rfc, value)
<1> DEFINE v == value.v
           n == rfc.length - Len(v)
           data == duck2rfc(rfc, value)
           field == SdkField(rfc, data)
           id == rfctype2logicaltype(rfc.type)
<1>1. CASE rfc.type \in {"NUM", "BYTE"}
  <2>1. data = v
    BY <1>1 DEF duck2rfc, Timestamps
  <2>2. field = Filled(rfc, value)
    BY <1>1, <2>1 DEF SdkField, Filled
  <2>3. got = Value(id, field)
    <3> HIDE DEF field
    <3>1. got \in ReadValue(rfc, field)
      BY DEF field
    <3> QED BY <1>1, <3>1 DEF ReadValue, rfctype2logicaltype, Timestamps
  <2> QED BY <2>2, <2>3
<1>2. CASE rfc.type = "CHAR"
  <2>1. data = v
    BY <1>2 DEF duck2rfc, Timestamps
  <2>2. v \in Seq(Nat)
    BY <1>2 DEF Convertible, Textual, Timestamps
  <2>3. n \in Nat
    <3>1. ~ (Len(v) > rfc.length)
      BY <1>2, <2>1 DEF SdkRefuses
    <3>2. Len(v) \in Nat
      BY <2>2
    <3> QED BY <3>1, <3>2 DEF IsType
  <2>4. field = v \o Padding(n, Blank)
    BY <1>2, <2>1 DEF SdkField
  <2>5. RTrim(field) = RTrim(v)
    <3> HIDE DEF v, n, field
    <3> QED BY <2>2, <2>3, <2>4, TrimPadded
  <2>6. got = Value(id, RTrim(field))
    <3> HIDE DEF field
    <3>1. got \in ReadValue(rfc, field)
      BY DEF field
    <3> QED BY <1>2, <3>1 DEF ReadValue, rfctype2logicaltype, Timestamps
  <2>7. Filled(rfc, value) = RTrim(v)
    BY <1>2 DEF Filled
  <2> QED BY <2>5, <2>6, <2>7
<1>3. CASE rfc.type = "STRING"
  <2>1. field = v
    BY <1>3 DEF duck2rfc, SdkField, Timestamps
  <2>2. got = uc2duck(v)
    BY <1>3, <2>1 DEF ReadValue, Timestamps
  <2>3. id = "VARCHAR"
    BY <1>3 DEF rfctype2logicaltype, Timestamps
  <2> QED BY <1>3, <2>2, <2>3 DEF uc2duck, Filled, Nothing
<1>4. CASE rfc.type \in {"XSTRING", "INT", "INT2", "INT8", "FLOAT"}
  <2>1. field = v
    BY <1>4 DEF duck2rfc, SdkField, Timestamps
  <2>2. got = Value(id, v)
    BY <1>4, <2>1 DEF ReadValue, rfctype2logicaltype, Timestamps
  <2> QED BY <1>4, <2>2 DEF Filled
<1>5. CASE rfc.type = "INT1"
  <2>1. v \in [1 .. 1 -> -128 .. 127]
    BY <1>5 DEF Convertible, Textual, Timestamps
  <2>2. field = <<v[1] % 256>>
    BY <1>5 DEF duck2rfc, SdkField, Timestamps
  <2>3. got = Value(id, <<Signed(v[1] % 256, 8)>>)
    <3>1. id = "TINYINT"
      BY <1>5 DEF rfctype2logicaltype, Timestamps
    <3> HIDE DEF id
    <3> QED BY <1>5, <2>2, <3>1 DEF ReadValue, Timestamps
  <2>4. Signed(v[1] % 256, 8) = v[1]
    <3>1. 2 ^ 8 = 256 /\ 2 ^ (8 - 1) = 128
      OBVIOUS
    <3>2. CASE v[1] >= 0
      <4>1. v[1] % 256 = v[1] /\ v[1] < 128
        BY <2>1, <3>2
      <4> QED BY <2>1, <3>1, <4>1 DEF Signed
    <3>3. CASE v[1] < 0
      <4>1. v[1] % 256 = v[1] + 256 /\ v[1] + 256 >= 128
        BY <2>1, <3>3
      <4> QED BY <2>1, <3>1, <4>1 DEF Signed
    <3> QED BY <2>1, <3>2, <3>3
  <2>5. <<v[1]>> = v
    BY <2>1
  <2> QED BY <1>5, <2>3, <2>4, <2>5 DEF Filled
<1>6. CASE rfc.type \in Decimals
  <2>1. v \in [1 .. 1 -> Int]
    BY <1>6 DEF Convertible, Textual, Timestamps, Decimals
  <2>2. field = v
    BY <1>6 DEF duck2rfc, SdkField, Timestamps, Decimals
  <2>3. InDigits(v[1], Precision(rfc))
    <3>1. CASE rfc.type = "BCD"
      BY <2>2, <3>1 DEF SdkRefuses, SdkField
    <3>2. CASE rfc.type # "BCD"
      BY <1>6, <3>2, PrecisionIs DEF InDigits
    <3> QED BY <3>1, <3>2
  <2>4. got = bcd2duck(v, Precision(rfc))
    BY <1>6, <2>2 DEF ReadValue, Timestamps, Decimals
  <2>5. v # <<>> /\ Len(v) = 1 /\ <<v[1]>> = v
    BY <2>1
  <2>6. got = Value("DECIMAL", v)
    <3> HIDE DEF v
    <3> QED BY <2>3, <2>4, <2>5 DEF bcd2duck
  <2>7. id = "DECIMAL"
    BY <1>6 DEF rfctype2logicaltype, Decimals, Timestamps
  <2> QED BY <1>6, <2>6, <2>7 DEF Filled, Decimals
<1>7. CASE rfc.type = "DATE"
  <2>1. v \in [1 .. 3 -> Nat] /\ IsDate(v[1], v[2], v[3])
    BY <1>7 DEF Convertible, Textual, Timestamps
  <2>2. ~ (v[1] > 9999)
    BY <2>1, DateParts
  <2>3. field = <<v[1] * 10000 + v[2] * 100 + v[3]>>
    BY <1>7, <2>2 DEF duck2rfc, SdkField, DateToRfc, Timestamps
  <2>4. got = dats2duck(v[1] * 10000 + v[2] * 100 + v[3])
    BY <1>7, <2>3 DEF ReadValue, Timestamps
  <2>5. got = Value("DATE", <<v[1], v[2], v[3]>>)
    BY <2>1, <2>4, DateIsRead
  <2>6. <<v[1], v[2], v[3]>> = v
    BY <2>1
  <2>7. id = "DATE"
    BY <1>7 DEF rfctype2logicaltype, Timestamps
  <2> QED BY <1>7, <2>5, <2>6, <2>7 DEF Filled
<1>8. CASE rfc.type = "TIME"
  <2> DEFINE t == v[1] * 10000 + v[2] * 100 + v[3]
  <2>1. /\ v \in [1 .. 4 -> Nat]
        /\ IsValidTime(v[1], v[2], v[3]) \/ (v[1] = 24 /\ v[2] = 0 /\ v[3] = 0)
    BY <1>8 DEF Convertible, Textual, Timestamps
  <2>2. got = tims2duck(t)
    BY <1>8 DEF duck2rfc, SdkField, TimeToRfc, ReadValue, Timestamps
  <2>3. CASE v[1] = 24 /\ v[2] = 0 /\ v[3] = 0
    <3>1. t = 240000
      BY <2>1, <2>3
    <3>2. got = Null
      <4> HIDE DEF t
      <4>1. t \div 10000 = 24
        BY <3>1
      <4> QED BY <2>2, <4>1 DEF tims2duck, IsValidTime
    <3> QED BY <1>8, <2>3, <3>2 DEF Nothing
  <2>4. CASE IsValidTime(v[1], v[2], v[3])
    <3>1. /\ t = 0 <=> v[1] = 0 /\ v[2] = 0 /\ v[3] = 0
          /\ got = IF t = 0 THEN Null ELSE Value("TIME", <<v[1], v[2], v[3], 0>>)
      BY <2>2, <2>4, TimeIsRead
    <3>2. [v EXCEPT ![4] = 0] = <<v[1], v[2], v[3], 0>>
      BY <2>1
    <3>3. CASE t = 0
      <4> HIDE DEF t, v
      <4>1. got = Null /\ v[1] = 0 /\ v[2] = 0 /\ v[3] = 0
        BY <3>1, <3>3
      <4> QED BY <1>8, <4>1 DEF Nothing, v
    <3>4. CASE t # 0
      <4> HIDE DEF t, v
      <4>1. got = Value("TIME", [v EXCEPT ![4] = 0])
        BY <3>1, <3>2, <3>4
      <4>2. id = "TIME"
        BY <1>8 DEF rfctype2logicaltype, Timestamps
      <4> QED BY <1>8, <4>1, <4>2 DEF Filled, v
    <3> QED BY <3>3, <3>4
  <2> QED BY <2>1, <2>3, <2>4
<1>9. CASE rfc.type \in Timestamps
  <2> DEFINE day == v[1] * 10000 + v[2] * 100 + v[3]
             second == v[4] * 10000 + v[5] * 100 + v[6]
  <2>1. v \in [1 .. 6 -> Nat] /\ IsDate(v[1], v[2], v[3]) /\ IsValidTime(v[4], v[5], v[6])
    BY <1>9 DEF Convertible, Textual, Timestamps
  <2>2. field = <<day, second>>
    BY <1>9 DEF duck2rfc, SdkField, timestamp2sap_utc, Timestamps
  <2>3. got \in {sap_utc2timestamp(<<day, second>>), Null}
    BY <1>9, <2>2 DEF ReadValue, Timestamps
  <2>4. sap_utc2timestamp(<<day, second>>) =
          Value("TIMESTAMP", <<v[1], v[2], v[3]>> \o <<v[4], v[5], v[6]>>)
    BY <2>1, TimestampIsRead
  <2>5. <<v[1], v[2], v[3]>> \o <<v[4], v[5], v[6]>> = v
    BY <2>1, Joined
  <2>6. id = "TIMESTAMP"
    BY <1>9 DEF rfctype2logicaltype, Timestamps
  <2>7. Filled(rfc, value) = v
    BY <1>9 DEF Filled, Timestamps
  <2>8. Nothing(rfc, value)
    BY <1>9 DEF Nothing, Timestamps
  <2> HIDE DEF v, id, day, second
  <2> QED BY <2>3, <2>4, <2>5, <2>6, <2>7, <2>8 DEF id
<1> QED BY <1>1, <1>2, <1>3, <1>4, <1>5, <1>6, <1>7, <1>8, <1>9
        DEF IsType, TypeNames, Timestamps, Decimals

-----------------------------------------------------------------------------
(* A column's text of a field is read as the field.  Agrees is what        *)
(* ColumnsAgreeWithResults says of one text.                               *)
Agrees(field, held, line, text) ==
  LET rfc == SdkType(field)
      csv == ConvertCsvValue(ColumnType(field), Cell(rfc, line, text))
  IN IF csv = Error
     THEN \/ rfc.type = "INT1" /\ held[1] > 127
          \/ line = "STRING" /\ held = <<0>> /\ text = <<>>
          \/ rfc.type = "BCD" /\ field.length % 2 = 0
     ELSE \E direct \in ReadValue(rfc, held) : SameButNull(rfc, line, csv, direct)

LEMMA TypesDiffer ==
  ASSUME NEW v
  PROVE  /\ Value("VARCHAR", v) # Error /\ Value("BLOB", v) # Error /\ Null # Error
         /\ Value("VARCHAR", v) # Null /\ Value("VARCHAR", v).v = v
BY DEF Value, Error, Null

LEMMA CellIs ==
  ASSUME NEW rfc, NEW line, NEW text
  PROVE  /\ rfc.type \notin Textual => Cell(rfc, line, text).v = text
         /\ rfc.type \in Textual => Cell(rfc, line, text).v = RTrim(text)
         /\ Cell(rfc, line, text).id # "error"
         /\ Cell(rfc, line, text) = Null => line = "STRING" /\ Cell(rfc, line, text).v = <<>>
BY DEF Cell, Value, Null

LEMMA TextAgrees ==
  ASSUME NEW field, IsField(field), SdkType(field).type \in Textual,
         NEW held, Holds(SdkType(field), held), NEW line \in {"CHAR", "STRING"},
         NEW text \in CsvTexts(SdkType(field), held)
  PROVE  Agrees(field, held, line, text)
<1> DEFINE rfc == SdkType(field)
           col == ColumnType(field)
           cell == Cell(rfc, line, text)
<1>1. col.type = rfc.type
  BY SdkTypeIs
<1>2. text = held
  <2> HIDE DEF rfc
  <2>1. text \in CsvTexts(rfc, held) /\ rfc.type \in Textual
    BY DEF rfc
  <2> QED BY <2>1 DEF CsvTexts, Textual, Decimals, Integral
<1>3. ConvertCsvValue(col, cell) = cell
  <2> HIDE DEF rfc, col, cell
  <2>1. col.type \in Textual
    BY <1>1 DEF rfc
  <2> QED BY <2>1 DEF ConvertCsvValue, Textual, Decimals, Integral, Timestamps
<1>4. cell = IF line = "STRING" /\ RTrim(held) = <<>> THEN Null
             ELSE Value("VARCHAR", RTrim(held))
  BY <1>2 DEF Cell
<1> HIDE DEF rfc, col, cell
<1>5. PICK direct \in ReadValue(rfc, held) :
        \/ direct = Value("VARCHAR", RTrim(held))
        \/ direct = Null /\ RTrim(held) = <<>>
  <2>1. CASE rfc.type = "NUM"
    <3>1. held \in Seq(Nat) /\ \A i \in DOMAIN held : ~ IsSpace(held[i])
      <4>1. held \in Seq(Zero .. Zero + 9)
        BY <2>1 DEF Holds, rfc, Timestamps
      <4>2. held \in [1 .. Len(held) -> Zero .. Zero + 9] /\ Len(held) \in Nat
        BY <4>1, ElementsOf
      <4>3. held \in [1 .. Len(held) -> Nat] /\ \A i \in DOMAIN held : ~ IsSpace(held[i])
        BY <4>2 DEF Zero, Blank, IsSpace
      <4> QED BY <4>2, <4>3, SequenceOf
    <3>2. RTrim(held) = held
      BY <3>1, TrimOfMarks
    <3> QED BY <2>1, <3>2 DEF ReadValue, Timestamps
  <2>2. CASE rfc.type = "CHAR"
    BY <2>2 DEF ReadValue, Timestamps
  <2>3. CASE rfc.type = "STRING"
    BY <2>3 DEF ReadValue, uc2duck, Timestamps
  <2> QED BY <2>1, <2>2, <2>3 DEF Textual, rfc
<1>6. cell # Error
  BY <1>4, TypesDiffer
<1>7. SameButNull(rfc, line, cell, direct)
  BY <1>4, <1>5 DEF SameButNull
<1> QED BY <1>3, <1>5, <1>6, <1>7 DEF Agrees, rfc, col, cell

LEMMA ByteIs ==
  ASSUME NEW c \in 0 .. 255
  PROVE  c \div 16 \in 0 .. 15 /\ c % 16 \in 0 .. 15 /\ (c \div 16) * 16 + (c % 16) = c
OBVIOUS

LEMMA BytesOfHex ==
  ASSUME NEW b \in Seq(0 .. 255),
         NEW text, text = [i \in 1 .. 2 * Len(b) |->
                             IF i % 2 = 1 THEN b[(i + 1) \div 2] \div 16 ELSE b[i \div 2] % 16]
  PROVE  hex2blob(text) = IF b = <<>> THEN Null ELSE Value("BLOB", b)
<1>1. Len(b) \in Nat /\ b \in [1 .. Len(b) -> 0 .. 255]
  BY ElementsOf
<1>2. \A i \in 1 .. 2 * Len(b) : text[i] \in 0 .. 15
  <2> SUFFICES ASSUME NEW i \in 1 .. 2 * Len(b) PROVE text[i] \in 0 .. 15
    OBVIOUS
  <2>1. CASE i % 2 = 1
    <3>1. (i + 1) \div 2 \in 1 .. Len(b)
      BY <1>1, <2>1
    <3>2. b[(i + 1) \div 2] \in 0 .. 255
      BY <1>1, <3>1
    <3>3. b[(i + 1) \div 2] \div 16 \in 0 .. 15
      BY <3>2, ByteIs
    <3> QED BY <2>1, <3>3
  <2>2. CASE i % 2 # 1
    <3>1. i \div 2 \in 1 .. Len(b)
      BY <1>1, <2>2
    <3>2. b[i \div 2] \in 0 .. 255
      BY <1>1, <3>1
    <3>3. b[i \div 2] % 16 \in 0 .. 15
      BY <3>2, ByteIs
    <3> QED BY <2>2, <3>3
  <2> QED BY <2>1, <2>2
<1>3. DOMAIN text = 1 .. 2 * Len(b) /\ Len(text) = 2 * Len(b)
  <2>1. 2 * Len(b) \in Nat
    BY <1>1
  <2> QED BY <2>1
<1>4. Len(text) % 2 = 0 /\ Len(text) \div 2 = Len(b)
  BY <1>1, <1>3
<1>5. \A j \in 1 .. Len(b) : text[2 * j - 1] * 16 + text[2 * j] = b[j]
  <2> SUFFICES ASSUME NEW j \in 1 .. Len(b) PROVE text[2 * j - 1] * 16 + text[2 * j] = b[j]
    OBVIOUS
  <2>1. /\ 2 * j - 1 \in 1 .. 2 * Len(b) /\ 2 * j \in 1 .. 2 * Len(b)
        /\ (2 * j - 1) % 2 = 1 /\ (2 * j) % 2 = 0
        /\ (2 * j - 1 + 1) \div 2 = j /\ (2 * j) \div 2 = j
    BY <1>1
  <2>2. text[2 * j - 1] = b[j] \div 16 /\ text[2 * j] = b[j] % 16
    BY <2>1
  <2>3. b[j] \in 0 .. 255
    BY <1>1
  <2> QED BY <2>2, <2>3, ByteIs
<1>6. [j \in 1 .. Len(b) |-> text[2 * j - 1] * 16 + text[2 * j]] = b
  BY <1>1, <1>5
<1>7. text = <<>> <=> b = <<>>
  BY <1>1, <1>3
<1>8. CASE b = <<>>
  BY <1>7, <1>8 DEF hex2blob
<1>9. CASE b # <<>>
  <2>1. ~ (text = <<>> \/ Len(text) % 2 = 1 \/ \E i \in DOMAIN text : text[i] \notin 0 .. 15)
    <3>1. \A i \in DOMAIN text : text[i] \in 0 .. 15
      BY <1>2, <1>3
    <3>2. Len(text) % 2 # 1
      BY <1>4
    <3> QED BY <1>7, <1>9, <3>1, <3>2
  <2>2. hex2blob(text) =
          Value("BLOB", [j \in 1 .. Len(text) \div 2 |-> text[2 * j - 1] * 16 + text[2 * j]])
    BY <2>1 DEF hex2blob
  <2> QED BY <1>4, <1>6, <1>9, <2>2
<1> QED BY <1>8, <1>9

LEMMA HoldsIs ==
  ASSUME NEW rfc, NEW held, Holds(rfc, held)
  PROVE  /\ rfc.type \in {"BYTE", "XSTRING"} => held \in Seq(0 .. 255)
         /\ rfc.type \in Integral \cup Decimals => held \in [1 .. 1 -> Int]
         /\ rfc.type = "INT1" => held[1] \in 0 .. 255
         /\ rfc.type = "BCD" => InDigits(held[1], Precision(rfc))
<1>1. rfc.type \in {"BYTE", "XSTRING"} => held \in Seq(0 .. 255)
  BY DEF Holds, Timestamps
<1>2. rfc.type = "INT1" => held \in [1 .. 1 -> 0 .. 255]
  BY DEF Holds, Timestamps
<1>3. rfc.type = "BCD" => held \in [1 .. 1 -> Int] /\ InDigits(held[1], Precision(rfc))
  BY DEF Holds, Timestamps
<1>4. rfc.type \in {"INT", "INT2", "INT8", "FLOAT", "DECF16", "DECF34"}
        => held \in [1 .. 1 -> Int]
  BY DEF Holds, Timestamps
<1>5. rfc.type = "INT1" => held[1] \in 0 .. 255 /\ held \in [1 .. 1 -> Int]
  BY <1>2
<1>6. rfc.type \in Integral \cup Decimals => held \in [1 .. 1 -> Int]
  BY <1>3, <1>4, <1>5 DEF Integral, Decimals
<1> QED BY <1>1, <1>3, <1>5, <1>6

LEMMA BytesAgree ==
  ASSUME NEW field, IsField(field), SdkType(field).type \in {"BYTE", "XSTRING"},
         NEW held, Holds(SdkType(field), held), NEW line,
         NEW text \in CsvTexts(SdkType(field), held)
  PROVE  Agrees(field, held, line, text)
<1> DEFINE rfc == SdkType(field)
           col == ColumnType(field)
           cell == Cell(rfc, line, text)
<1>1. col.type = rfc.type
  BY SdkTypeIs
<1>2. held \in Seq(0 .. 255)
  BY HoldsIs
<1>3. hex2blob(text) = IF held = <<>> THEN Null ELSE Value("BLOB", held)
  <2>1. text = [i \in 1 .. 2 * Len(held) |->
                  IF i % 2 = 1 THEN held[(i + 1) \div 2] \div 16 ELSE held[i \div 2] % 16]
    <3> HIDE DEF rfc
    <3>1. text \in CsvTexts(rfc, held) /\ rfc.type \in {"BYTE", "XSTRING"}
      BY DEF rfc
    <3> QED BY <3>1 DEF CsvTexts, Decimals, Integral
  <2> QED BY <1>2, <2>1, BytesOfHex
<1>4. cell.v = text
  BY CellIs DEF Textual
<1>5. ConvertCsvValue(col, cell) = hex2blob(text)
  <2> HIDE DEF rfc, col, cell
  <2>1. col.type \in {"BYTE", "XSTRING"}
    BY <1>1 DEF rfc
  <2> QED BY <1>4, <2>1 DEF ConvertCsvValue, Decimals, Integral, Timestamps
<1>6. hex2blob(text) # Error
  BY <1>3, TypesDiffer
<1>7. Value("BLOB", held) \in ReadValue(rfc, held)
  <2> HIDE DEF rfc
  <2>1. rfc.type \in {"BYTE", "XSTRING"}
    BY DEF rfc
  <2> QED BY <2>1 DEF ReadValue, Timestamps
<1>8. SameButNull(rfc, line, hex2blob(text), Value("BLOB", held))
  BY <1>3 DEF SameButNull
<1> QED BY <1>5, <1>6, <1>7, <1>8 DEF Agrees

LEMMA IntegralAgrees ==
  ASSUME NEW field, IsField(field), SdkType(field).type \in Integral,
         NEW held, Holds(SdkType(field), held), NEW line \in {"CHAR", "STRING"},
         NEW text \in CsvTexts(SdkType(field), held)
  PROVE  Agrees(field, held, line, text)
<1> DEFINE rfc == SdkType(field)
           col == ColumnType(field)
           cell == Cell(rfc, line, text)
<1>1. col.type = rfc.type
  BY SdkTypeIs
<1>2. held \in [1 .. 1 -> Int] /\ (rfc.type = "INT1" => held[1] \in 0 .. 255)
  BY HoldsIs
<1> HIDE DEF rfc, col
<1>3. text = held \/ (held = <<0>> /\ text = <<>>)
  <2>1. text \in CsvTexts(rfc, held) /\ rfc.type \in Integral
    BY DEF rfc
  <2> QED BY <2>1 DEF CsvTexts, Decimals, Integral
<1>4. /\ rfc.type \in Integral /\ cell.v = text
      /\ cell = Null <=> line = "STRING" /\ text = <<>>
  <2>1. cell = IF line = "STRING" /\ text = <<>> THEN Null ELSE Value("VARCHAR", text)
    BY DEF Cell, Textual, Integral, rfc
  <2> HIDE DEF cell
  <2> QED BY <2>1, TypesDiffer DEF rfc, Null, Value
<1> HIDE DEF cell
<1>5. PICK direct \in ReadValue(rfc, held) :
        \/ rfc.type = "INT1" /\ held[1] > 127
        \/ direct = Value(rfctype2logicaltype(rfc.type), held)
  <2>1. CASE rfc.type = "INT1"
    <3>1. ReadValue(rfc, held) = {Value("TINYINT", <<Signed(held[1], 8)>>)}
      BY <2>1 DEF ReadValue, Timestamps
    <3>2. CASE held[1] <= 127
      <4>1. 2 ^ 8 = 256 /\ 2 ^ (8 - 1) = 128
        OBVIOUS
      <4>2. Signed(held[1], 8) = held[1]
        BY <1>2, <2>1, <3>2, <4>1 DEF Signed
      <4>3. <<held[1]>> = held /\ rfctype2logicaltype(rfc.type) = "TINYINT"
        BY <1>2, <2>1 DEF rfctype2logicaltype, Timestamps
      <4> QED BY <3>1, <4>2, <4>3
    <3>3. CASE ~ (held[1] <= 127)
      BY <1>2, <2>1, <3>1, <3>3
    <3> QED BY <3>2, <3>3
  <2>2. CASE rfc.type # "INT1"
    BY <1>4, <2>2 DEF ReadValue, Timestamps, Integral
  <2> QED BY <2>1, <2>2
<1>6. CASE cell = Null
  <2>1. ConvertCsvValue(col, cell) = Error
    BY <1>1, <1>4, <1>6 DEF ConvertCsvValue
  <2>2. held # <<>>
    <3>1. 1 \in DOMAIN held
      BY <1>2
    <3> QED BY <3>1
  <2>3. held = <<0>>
    BY <1>3, <1>4, <1>6, <2>2
  <2> QED BY <1>4, <1>6, <2>1, <2>3 DEF Agrees, rfc, col, cell
<1>7. CASE cell # Null /\ text = <<>>
  <2>1. ConvertCsvValue(col, cell) = Null
    BY <1>1, <1>4, <1>7 DEF ConvertCsvValue, Integral, Decimals, Timestamps
  <2>2. held = <<0>> /\ ~ (held[1] > 127)
    BY <1>2, <1>3, <1>7
  <2>3. direct.v = <<0>>
    BY <1>5, <2>2 DEF Value
  <2>4. SameButNull(rfc, line, Null, direct)
    BY <1>4, <2>3 DEF SameButNull
  <2> QED BY <2>1, <2>4, TypesDiffer DEF Agrees, rfc, col, cell
<1>8. CASE text # <<>>
  <2>1. cell.v = held /\ held # <<>> /\ cell # Null
    BY <1>2, <1>3, <1>4, <1>8
  <2>2. CASE rfc.type = "INT1" /\ held[1] > 127
    <3>1. held[1] \notin -128 .. 127
      BY <1>2, <2>2
    <3>2. ConvertCsvValue(col, cell) = Error
      BY <1>1, <2>1, <2>2, <3>1 DEF ConvertCsvValue, Integral, Decimals, Timestamps
    <3> QED BY <2>2, <3>2 DEF Agrees, rfc, col, cell
  <2>3. CASE ~ (rfc.type = "INT1" /\ held[1] > 127)
    <3>1. ~ (col.type = "INT1" /\ held[1] \notin -128 .. 127)
      <4>1. \A n \in 0 .. 255 : ~ (n > 127) => n \in -128 .. 127
        OBVIOUS
      <4> SUFFICES ASSUME col.type = "INT1" PROVE held[1] \in -128 .. 127
        OBVIOUS
      <4>2. held[1] \in 0 .. 255 /\ ~ (held[1] > 127)
        BY <1>1, <1>2, <2>3
      <4> QED BY <4>1, <4>2
    <3>2. ConvertCsvValue(col, cell) = Value(CreateDuckDbType(rfc.type), held)
      BY <1>1, <1>4, <2>1, <3>1 DEF ConvertCsvValue, Integral, Decimals, Timestamps
    <3>3. CreateDuckDbType(rfc.type) # "error"
      BY <1>4 DEF CreateDuckDbType, rfctype2logicaltype, Integral, Timestamps
    <3>4. ConvertCsvValue(col, cell) # Error
      BY <3>2, <3>3 DEF Value, Error
    <3>5. direct = Value(rfctype2logicaltype(rfc.type), held)
      BY <1>5, <2>3
    <3>6. SameButNull(rfc, line, ConvertCsvValue(col, cell), direct)
      <4>1. direct.v = held
        BY <3>5 DEF Value
      <4>2. CASE rfc.type = "INT"
        <5>1. ConvertCsvValue(col, cell) = Value("BIGINT", direct.v)
          BY <3>2, <4>1, <4>2 DEF CreateDuckDbType
        <5> QED BY <4>2, <5>1 DEF SameButNull
      <4>3. CASE rfc.type # "INT"
        <5>1. ConvertCsvValue(col, cell) = direct
          BY <3>2, <3>5, <4>3 DEF CreateDuckDbType
        <5> QED BY <5>1 DEF SameButNull
      <4> QED BY <4>2, <4>3
    <3> QED BY <3>4, <3>6 DEF Agrees, rfc, col, cell
  <2> QED BY <2>2, <2>3
<1> QED BY <1>6, <1>7, <1>8

LEMMA DecimalIs ==
  ASSUME NEW n \in Int, NEW p, InDigits(n, p),
         NEW text, text = <<n>> \/ (n < 0 /\ text = <<0 - n, Minus>>), NEW precision
  PROVE  /\ bcd2duck(text, p) = Value("DECIMAL", <<n>>)
         /\ bcd2duck(text, precision) \in {Error, Value("DECIMAL", <<n>>)}
<1>1. text # <<>>
  OBVIOUS
<1>2. (IF Len(text) = 2 THEN 0 - text[1] ELSE text[1]) = n
  <2>1. CASE text = <<n>>
    <3>1. Len(text) = 1 /\ text[1] = n
      BY <2>1
    <3> QED BY <3>1
  <2>2. CASE text = <<0 - n, Minus>>
    <3>1. Len(text) = 2 /\ text[1] = 0 - n
      BY <2>2
    <3> QED BY <3>1
  <2> QED BY <2>1, <2>2
<1> QED BY <1>1, <1>2 DEF bcd2duck

LEMMA DecimalAgrees ==
  ASSUME NEW field, IsField(field), SdkType(field).type \in Decimals,
         NEW held, Holds(SdkType(field), held), NEW line \in {"CHAR", "STRING"},
         NEW text \in CsvTexts(SdkType(field), held)
  PROVE  Agrees(field, held, line, text)
<1> DEFINE rfc == SdkType(field)
           col == ColumnType(field)
           cell == Cell(rfc, line, text)
           csv == ConvertCsvValue(col, cell)
<1>1. /\ IsType(rfc) /\ col.type = rfc.type
      /\ rfc.type # "BCD" => col.length = rfc.length
      /\ field.length % 2 = 1 => col.length = rfc.length
  BY SdkTypeIs
<1>2. held \in [1 .. 1 -> Int] /\ InDigits(held[1], Precision(rfc))
  <2>1. rfc.type = "BCD" => InDigits(held[1], Precision(rfc))
    BY HoldsIs
  <2>2. rfc.type # "BCD" => InDigits(held[1], Precision(rfc))
    BY <1>1, PrecisionIs DEF InDigits
  <2>3. held \in [1 .. 1 -> Int]
    BY HoldsIs
  <2> QED BY <2>1, <2>2, <2>3
<1> HIDE DEF rfc, col
<1>3. rfc.type \in Decimals
  BY DEF rfc
<1>4. /\ <<held[1]>> = held
      /\ \/ text = held
         \/ held[1] < 0 /\ text = <<0 - held[1], Minus>>
         \/ rfc.type = "BCD" /\ held = <<0>> /\ text = <<>>
  <2>1. text \in CsvTexts(rfc, held)
    BY DEF rfc
  <2> QED BY <1>2, <1>3, <2>1 DEF CsvTexts, Decimals, Integral
<1>5. cell.v = text /\ (cell = Null => line = "STRING" /\ text = <<>>)
  BY <1>3, CellIs DEF Textual, Decimals, rfc
<1>6. Value("DECIMAL", held) # Error /\ Value("DECIMAL", held).v = held
  BY DEF Value, Error
<1> HIDE DEF cell
<1>7. ReadValue(rfc, held) = {Value("DECIMAL", held)}
  <2>1. bcd2duck(held, Precision(rfc)) = Value("DECIMAL", held)
    BY <1>2, <1>4, DecimalIs
  <2> QED BY <1>3, <2>1 DEF ReadValue, Decimals, Timestamps
<1>8. CASE text = <<>>
  <2>1. held = <<0>>
    <3>1. held # <<>> /\ <<0 - held[1], Minus>> # <<>>
      BY <1>2
    <3> QED BY <1>4, <1>8, <3>1
  <2>2. CASE cell = Null
    <3>1. csv = Error
      BY <1>1, <1>3, <2>2 DEF ConvertCsvValue, Decimals, Integral
    <3> QED BY <1>5, <1>8, <2>1, <2>2, <3>1 DEF Agrees, rfc, col, cell
  <2>3. CASE cell # Null
    <3>1. csv = bcd2duck(<<>>, Precision(col))
      BY <1>1, <1>3, <1>5, <1>8, <2>3 DEF ConvertCsvValue, Decimals, Integral, Timestamps
    <3>2. csv = Null
      BY <3>1 DEF bcd2duck
    <3>3. SameButNull(rfc, line, Null, Value("DECIMAL", held))
      BY <1>4, <1>8, <1>6, <2>1 DEF SameButNull
    <3> QED BY <1>7, <3>2, <3>3, TypesDiffer DEF Agrees, rfc, col, cell
  <2> QED BY <2>2, <2>3
<1>9. CASE text # <<>>
  <2>1. csv = bcd2duck(text, Precision(col))
    BY <1>1, <1>3, <1>5, <1>9 DEF ConvertCsvValue, Decimals, Integral, Timestamps
  <2>2. /\ bcd2duck(text, Precision(rfc)) = Value("DECIMAL", held)
        /\ bcd2duck(text, Precision(col)) \in {Error, Value("DECIMAL", held)}
    BY <1>2, <1>4, <1>9, DecimalIs
  <2>3. CASE csv = Value("DECIMAL", held)
    <3>1. SameButNull(rfc, line, csv, Value("DECIMAL", held))
      BY <2>3 DEF SameButNull
    <3> QED BY <1>7, <1>6, <2>3, <3>1 DEF Agrees, rfc, col, cell
  <2>4. CASE rfc.type = "BCD" /\ field.length % 2 = 0 /\ csv = Error
    BY <2>4 DEF Agrees, rfc, col, cell
  <2>5. CASE ~ (rfc.type = "BCD" /\ field.length % 2 = 0)
    <3>1. field.length % 2 = 0 \/ field.length % 2 = 1
      BY DEF IsField
    <3>2. Precision(col) = Precision(rfc)
      BY <1>1, <2>5, <3>1 DEF Precision
    <3> QED BY <2>1, <2>2, <2>3, <3>2
  <2> QED BY <2>1, <2>2, <2>3, <2>4, <2>5
<1> QED BY <1>8, <1>9

LEMMA InstantAgrees ==
  ASSUME NEW field, IsField(field), SdkType(field).type \in {"DATE", "TIME"} \cup Timestamps,
         NEW held, Holds(SdkType(field), held), NEW line \in {"CHAR", "STRING"},
         NEW text \in CsvTexts(SdkType(field), held)
  PROVE  Agrees(field, held, line, text)
<1> DEFINE rfc == SdkType(field)
           col == ColumnType(field)
           cell == Cell(rfc, line, text)
           csv == ConvertCsvValue(col, cell)
<1>1. col.type = rfc.type /\ rfc.type \in {"DATE", "TIME"} \cup Timestamps
  BY SdkTypeIs
<1> HIDE DEF rfc, col
<1>2. text = held
  <2>1. text \in CsvTexts(rfc, held)
    BY DEF rfc
  <2> QED BY <1>1, <2>1 DEF CsvTexts, Decimals, Integral, Timestamps
<1>3. cell.v = held
  BY <1>1, <1>2, CellIs DEF Textual, Timestamps
<1> HIDE DEF cell
<1>4. CASE rfc.type = "DATE"
  <2>1. csv = dats2duck(held[1])
    BY <1>1, <1>3, <1>4 DEF ConvertCsvValue, Decimals, Integral, Timestamps
  <2>2. ReadValue(rfc, held) = {dats2duck(held[1])}
    BY <1>4 DEF ReadValue, Timestamps
  <2>3. dats2duck(held[1]) # Error
    BY DEF dats2duck, Value, Null, Error
  <2>4. SameButNull(rfc, line, csv, dats2duck(held[1]))
    BY <2>1 DEF SameButNull
  <2> QED BY <2>1, <2>2, <2>3, <2>4 DEF Agrees, rfc, col, cell
<1>5. CASE rfc.type = "TIME"
  <2>1. csv = tims2duck(held[1])
    BY <1>1, <1>3, <1>5 DEF ConvertCsvValue, Decimals, Integral, Timestamps
  <2>2. ReadValue(rfc, held) = {tims2duck(held[1])}
    BY <1>5 DEF ReadValue, Timestamps
  <2>3. tims2duck(held[1]) # Error
    BY DEF tims2duck, Value, Null, Error
  <2>4. SameButNull(rfc, line, csv, tims2duck(held[1]))
    BY <2>1 DEF SameButNull
  <2> QED BY <2>1, <2>2, <2>3, <2>4 DEF Agrees, rfc, col, cell
<1>6. CASE rfc.type \in Timestamps
  <2>1. csv = sap_utc2timestamp(held)
    BY <1>1, <1>3, <1>6 DEF ConvertCsvValue, Decimals, Integral, Timestamps
  <2>2. sap_utc2timestamp(held) \in ReadValue(rfc, held)
    BY <1>6 DEF ReadValue, Timestamps
  <2>3. sap_utc2timestamp(held) # Error
    BY DEF sap_utc2timestamp, Value, Null, Error
  <2>4. SameButNull(rfc, line, csv, sap_utc2timestamp(held))
    BY <2>1 DEF SameButNull
  <2> QED BY <2>1, <2>2, <2>3, <2>4 DEF Agrees, rfc, col, cell
<1> QED BY <1>1, <1>4, <1>5, <1>6

LEMMA FieldAgrees ==
  ASSUME NEW field, IsField(field), NEW held, Holds(SdkType(field), held),
         NEW line \in {"CHAR", "STRING"},
         NEW text \in CsvTexts(SdkType(field), held)
  PROVE  Agrees(field, held, line, text)
<1>1. SdkType(field).type \in TypeNames
  BY SdkTypeIs DEF IsType
<1>2. TypeNames \subseteq Textual \cup {"BYTE", "XSTRING"} \cup Integral \cup Decimals
                            \cup ({"DATE", "TIME"} \cup Timestamps)
  BY DEF TypeNames, Textual, Integral, Decimals, Timestamps
<1> QED BY <1>1, <1>2, TextAgrees, BytesAgree, IntegralAgrees, DecimalAgrees, InstantAgrees

-----------------------------------------------------------------------------
(* Adapting.                                                               *)
LEMMA FieldHolds ==
  ASSUME NEW field, IsField(field), NEW value,
         value = Null \/ Convertible(SdkType(field), value)
  PROVE  Holds(SdkType(field), AdaptValue(field, value).held)
<1> DEFINE rfc == SdkType(field)
           data == duck2rfc(rfc, value)
<1>1. IsType(rfc)
  BY SdkTypeIs
<1> HIDE DEF rfc
<1>2. Holds(rfc, SdkInitial(rfc))
  BY <1>1, InitialHolds
<1>3. CASE value = Null \/ SdkRefuses(rfc, data)
  <2>1. AdaptValue(field, value).held = SdkInitial(rfc)
    BY <1>3 DEF AdaptValue, SetField, rfc
  <2> QED BY <1>2, <2>1 DEF rfc
<1>4. CASE ~ (value = Null \/ SdkRefuses(rfc, data))
  <2>1. AdaptValue(field, value).held = SdkField(rfc, data)
    BY <1>4 DEF AdaptValue, SetField, rfc
  <2>2. Convertible(rfc, value)
    BY <1>4 DEF rfc
  <2>3. Holds(rfc, SdkField(rfc, data))
    BY <1>1, <1>4, <2>2, FilledHolds
  <2> QED BY <2>1, <2>3 DEF rfc
<1> QED BY <1>3, <1>4

LEMMA FieldCameBack ==
  ASSUME NEW field, IsField(field), NEW value,
         value = Null \/ Convertible(SdkType(field), value),
         ~ AdaptValue(field, value).refused,
         NEW got \in ConvertRfcValue(SdkType(field), AdaptValue(field, value).held),
         got # Error
  PROVE  CameBack(field, value, got)
<1> DEFINE rfc == SdkType(field)
           data == duck2rfc(rfc, value)
<1>1. IsType(rfc)
  BY SdkTypeIs
<1> HIDE DEF rfc
<1>2. CASE value = Null
  <2>1. AdaptValue(field, value).held = SdkInitial(rfc)
    BY <1>2 DEF AdaptValue, SetField, rfc
  <2> QED BY <1>2, <2>1 DEF CameBack, rfc
<1>3. CASE value # Null
  <2>1. ~ SdkRefuses(rfc, data)
    BY <1>3 DEF AdaptValue, SetField, rfc
  <2>2. AdaptValue(field, value).held = SdkField(rfc, data)
    BY <1>3, <2>1 DEF AdaptValue, SetField, rfc
  <2>3. Convertible(rfc, value) /\ got \in ConvertRfcValue(rfc, SdkField(rfc, data))
    BY <1>3, <2>2 DEF rfc
  <2>4. CASE got = ReadFailed(rfc)
    BY <1>3, <2>4 DEF CameBack, rfc
  <2>5. CASE got # ReadFailed(rfc)
    <3>1. got \in ReadValue(rfc, SdkField(rfc, data))
      BY <2>3, <2>5 DEF ConvertRfcValue
    <3>2. \/ got = Value(rfctype2logicaltype(rfc.type), Filled(rfc, value))
          \/ got = Null /\ Nothing(rfc, value)
      BY <1>1, <2>1, <2>3, <3>1, FieldComesBack
    <3> QED BY <1>3, <3>2 DEF CameBack, rfc
  <2> QED BY <2>4, <2>5
<1> QED BY <1>2, <1>3

-----------------------------------------------------------------------------
(* Which argument is a parameter's.                                        *)
UpTo(S, i) == S \cap 1 .. i

LEMMA RankStep ==
  ASSUME NEW S, NEW x \in Nat \ {0}
  PROVE  /\ IsFiniteSet(UpTo(S, x)) /\ Cardinality(UpTo(S, x)) \in Nat
         /\ IsFiniteSet(UpTo(S, x - 1)) /\ Cardinality(UpTo(S, x - 1)) \in Nat
         /\ x \in S => Cardinality(UpTo(S, x)) = Cardinality(UpTo(S, x - 1)) + 1
         /\ x \notin S => Cardinality(UpTo(S, x)) = Cardinality(UpTo(S, x - 1))
<1>1. IsFiniteSet(1 .. x) /\ IsFiniteSet(1 .. (x - 1))
  BY FS_Interval
<1>2. IsFiniteSet(UpTo(S, x)) /\ IsFiniteSet(UpTo(S, x - 1))
  BY <1>1, FS_Subset DEF UpTo
<1>3. Cardinality(UpTo(S, x)) \in Nat /\ Cardinality(UpTo(S, x - 1)) \in Nat
  BY <1>2, FS_CardinalityType
<1>4. 1 .. x = 1 .. (x - 1) \cup {x} /\ x \notin 1 .. (x - 1)
  OBVIOUS
<1>5. CASE x \in S
  <2>1. UpTo(S, x) = UpTo(S, x - 1) \cup {x} /\ x \notin UpTo(S, x - 1)
    BY <1>4, <1>5 DEF UpTo
  <2>2. Cardinality(UpTo(S, x - 1) \cup {x}) = Cardinality(UpTo(S, x - 1)) + 1
    BY <1>2, <2>1, FS_AddElement
  <2> QED BY <1>2, <1>3, <1>5, <2>1, <2>2
<1>6. CASE x \notin S
  <2>1. UpTo(S, x) = UpTo(S, x - 1)
    BY <1>4, <1>6 DEF UpTo
  <2> QED BY <1>2, <1>3, <1>6, <2>1
<1> QED BY <1>5, <1>6

LEMMA RankExists ==
  ASSUME NEW N \in Nat, NEW S, S \subseteq 1 .. N, NEW n \in 1 .. Cardinality(S)
  PROVE  \E x \in S : Cardinality(UpTo(S, x)) = n
<1> DEFINE T == {x \in 1 .. N : Cardinality(UpTo(S, x)) >= n}
<1>1. UpTo(S, N) = S
  BY DEF UpTo
<1>2. n \in Nat /\ n >= 1 /\ Cardinality(S) >= n
  <2>1. IsFiniteSet(S)
    <3>1. IsFiniteSet(1 .. N)
      BY FS_Interval
    <3> QED BY <3>1, FS_Subset
  <2>2. Cardinality(S) \in Nat
    BY <2>1, FS_CardinalityType
  <2> QED BY <2>2
<1>3. UpTo(S, 0) = {} /\ Cardinality(UpTo(S, 0)) = 0
  BY FS_EmptySet DEF UpTo
<1>4. N # 0
  BY <1>1, <1>2, <1>3
<1>5. N \in T /\ T \subseteq Nat
  BY <1>1, <1>2, <1>4
<1>6. PICK x \in T : \A y \in T : x <= y
  <2> HIDE DEF T
  <2> QED BY <1>5, LeastNumber
<1>7. x \in Nat \ {0} /\ x <= N /\ Cardinality(UpTo(S, x)) >= n
  OBVIOUS
<1>8. ~ (Cardinality(UpTo(S, x - 1)) >= n)
  <2>1. CASE x = 1
    BY <1>2, <1>3, <2>1
  <2>2. CASE x # 1
    <3>1. x - 1 \in 1 .. N /\ ~ (x <= x - 1)
      BY <1>7, <2>2
    <3>2. x - 1 \notin T
      <4> HIDE DEF T
      <4> QED BY <1>6, <3>1
    <3> QED BY <3>1, <3>2
  <2> QED BY <2>1, <2>2
<1>9. /\ Cardinality(UpTo(S, x)) \in Nat /\ Cardinality(UpTo(S, x - 1)) \in Nat
      /\ x \in S => Cardinality(UpTo(S, x)) = Cardinality(UpTo(S, x - 1)) + 1
      /\ x \notin S => Cardinality(UpTo(S, x)) = Cardinality(UpTo(S, x - 1))
  BY <1>7, RankStep
<1>10. x \in S
  BY <1>7, <1>8, <1>9
<1>11. Cardinality(UpTo(S, x)) = n
  BY <1>2, <1>7, <1>8, <1>9, <1>10
<1> QED BY <1>10, <1>11

LEMMA RankGrows ==
  ASSUME NEW S, S \subseteq Nat \ {0}, NEW i \in Nat, NEW k \in S, i < k
  PROVE  Cardinality(UpTo(S, i)) < Cardinality(UpTo(S, k))
<1>1. k \in Nat \ {0}
  OBVIOUS
<1>2. /\ IsFiniteSet(UpTo(S, k - 1)) /\ Cardinality(UpTo(S, k - 1)) \in Nat
      /\ Cardinality(UpTo(S, k)) = Cardinality(UpTo(S, k - 1)) + 1
  BY <1>1, RankStep
<1>3. UpTo(S, i) \subseteq UpTo(S, k - 1)
  BY <1>1 DEF UpTo
<1>4. /\ Cardinality(UpTo(S, i)) <= Cardinality(UpTo(S, k - 1)) /\ IsFiniteSet(UpTo(S, i))
  BY <1>2, <1>3, FS_Subset
<1>5. Cardinality(UpTo(S, i)) \in Nat
  BY <1>4, FS_CardinalityType
<1> QED BY <1>2, <1>4, <1>5

LEMMA RankUnique ==
  ASSUME NEW S, S \subseteq Nat \ {0}, NEW i \in S, NEW k \in S,
         Cardinality(UpTo(S, i)) = Cardinality(UpTo(S, k))
  PROVE  i = k
<1>1. \A x \in S : x \in Nat /\ Cardinality(UpTo(S, x)) \in Nat
  BY RankStep
<1>2. ~ (i < k)
  <2>1. i < k => Cardinality(UpTo(S, i)) < Cardinality(UpTo(S, k))
    BY <1>1, RankGrows
  <2> QED BY <1>1, <2>1
<1>3. ~ (k < i)
  <2>1. k < i => Cardinality(UpTo(S, k)) < Cardinality(UpTo(S, i))
    BY <1>1, RankGrows
  <2> QED BY <1>1, <2>1
<1> QED BY <1>1, <1>2, <1>3

LEMMA CallIs ==
  ASSUME NEW c \in Calls
  PROVE  /\ IsSequence(c.function) /\ IsSequence(c.arguments)
         /\ IsInjective([i \in DOMAIN c.function |-> c.function[i].name])
         /\ \A i \in DOMAIN c.function :
              /\ IsParameter(c.function[i])
              /\ Given(c, c.function[i]).id = "NULL" => Given(c, c.function[i]) = Null
              /\ TypeFits(c.function[i], Given(c, c.function[i]))
                   => Fits(c.function[i], Given(c, c.function[i]))
BY MarshallingAssumption

LEMMA MembersAre ==
  ASSUME NEW c \in Calls, ~ IsAdaptByPosition(c.arguments)
  PROVE  /\ IsSequence(c.arguments[1].v)
         /\ IsInjective([i \in DOMAIN c.arguments[1].v |-> c.arguments[1].v[i][1]])
BY MarshallingAssumption

LEMMA ParameterIs ==
  ASSUME NEW c \in Calls, NEW i \in DOMAIN c.function
  PROVE  /\ Parameter(c.function, c.function[i].name) = c.function[i]
         /\ SelectInSeq(c.function, LAMBDA p : p.name = c.function[i].name) = i
<1>1. SelectInSeq(c.function, LAMBDA p : p.name = c.function[i].name) = i
  BY CallIs, PlaceOf
<1> QED BY <1>1 DEF Parameter

(* What is given for a parameter, without the search for it.               *)
LEMMA GivenIs ==
  ASSUME NEW c \in Calls, NEW i \in DOMAIN c.function
  PROVE  Given(c, c.function[i]) =
           IF i \notin Settable(c.function) THEN Null
           ELSE IF ~ IsAdaptByPosition(c.arguments)
             THEN Member(c.arguments[1].v, c.function[i].name)
           ELSE IF Cardinality(UpTo(Settable(c.function), i)) > Len(c.arguments) THEN Null
           ELSE c.arguments[Cardinality(UpTo(Settable(c.function), i))]
<1>1. SelectInSeq(c.function, LAMBDA p : p.name = c.function[i].name) = i
  BY ParameterIs
<1>2. DOMAIN c.function = 1 .. Len(c.function) /\ Len(c.function) \in Nat
  BY CallIs, SequenceIs
<1>3. {j \in 1 .. i : c.function[j].direction # "EXPORT"} = UpTo(Settable(c.function), i)
  BY <1>2 DEF UpTo, Settable
<1>4. i \notin Settable(c.function) <=> c.function[i].direction = "EXPORT"
  BY DEF Settable
<1> QED BY <1>1, <1>3, <1>4 DEF Given, IsAdaptByPosition

LEMMA SettableIs ==
  ASSUME NEW c \in Calls
  PROVE  /\ Len(c.function) \in Nat /\ Settable(c.function) \subseteq 1 .. Len(c.function)
         /\ Settable(c.function) \subseteq Nat \ {0}
         /\ Settable(c.function) \subseteq DOMAIN c.function
         /\ Cardinality(Settable(c.function)) \in Nat
<1>1. DOMAIN c.function = 1 .. Len(c.function) /\ Len(c.function) \in Nat
  BY CallIs, SequenceIs
<1>2. Settable(c.function) \subseteq 1 .. Len(c.function)
  BY <1>1 DEF Settable
<1>3. IsFiniteSet(1 .. Len(c.function))
  BY <1>1, FS_Interval
<1>4. Cardinality(Settable(c.function)) \in Nat
  BY <1>2, <1>3, FS_Subset, FS_CardinalityType
<1> QED BY <1>1, <1>2, <1>4

LEMMA NthIs ==
  ASSUME NEW c \in Calls, NEW n \in 1 .. Cardinality(Settable(c.function))
  PROVE  /\ NthSettable(c.function, n) \in Settable(c.function)
         /\ Cardinality(UpTo(Settable(c.function), NthSettable(c.function, n))) = n
<1> DEFINE S == Settable(c.function)
<1>1. S \subseteq 1 .. Len(c.function) /\ Len(c.function) \in Nat
  BY SettableIs
<1> HIDE DEF S
<1>2. \E x \in S : Cardinality(UpTo(S, x)) = n
  BY <1>1, RankExists DEF S
<1>3. \E x \in S : Cardinality(S \cap 1 .. x) = n
  BY <1>2 DEF UpTo
<1>4. NthSettable(c.function, n) = CHOOSE x \in S : Cardinality(S \cap 1 .. x) = n
  BY DEF NthSettable, S
<1>5. /\ NthSettable(c.function, n) \in S
      /\ Cardinality(S \cap 1 .. NthSettable(c.function, n)) = n
  BY <1>3, <1>4
<1> QED BY <1>5 DEF UpTo, S

(* What is matched with a parameter is what the call gives for it.         *)
LEMMA MatchedIsGiven ==
  ASSUME NEW c \in Calls, NEW n \in DOMAIN Matched(c.function, c.arguments),
         Matched(c.function, c.arguments)[n][1] # Unmatched
  PROVE  \E i \in DOMAIN c.function :
           /\ c.function[i].name = Matched(c.function, c.arguments)[n][1]
           /\ Given(c, c.function[i]) = Matched(c.function, c.arguments)[n][2]
<1> DEFINE m == Matched(c.function, c.arguments)
           S == Settable(c.function)
<1>1. CASE IsAdaptByPosition(c.arguments)
  <2>1. /\ n \in DOMAIN c.arguments
        /\ m[n] = <<IF n <= Cardinality(S) THEN c.function[NthSettable(c.function, n)].name
                    ELSE Unmatched, c.arguments[n]>>
    BY <1>1 DEF Matched, RfcInvocationPositionalAdapter
  <2>2. n \in Nat /\ n >= 1 /\ n <= Len(c.arguments) /\ Len(c.arguments) \in Nat
    BY <2>1, CallIs, SequenceIs
  <2>3. n <= Cardinality(S) /\ Cardinality(S) \in Nat
    BY <2>1, SettableIs
  <2> DEFINE i == NthSettable(c.function, n)
  <2>4. i \in S /\ Cardinality(UpTo(S, i)) = n
    <3> HIDE DEF S
    <3>1. n \in 1 .. Cardinality(S)
      BY <2>2, <2>3
    <3> QED BY <3>1, NthIs DEF S
  <2>5. i \in DOMAIN c.function
    BY <2>4, SettableIs
  <2> HIDE DEF i, S
  <2>6. Given(c, c.function[i]) = c.arguments[n]
    BY <1>1, <2>2, <2>4, <2>5, GivenIs DEF S
  <2>7. m[n] = <<c.function[i].name, c.arguments[n]>>
    BY <2>1, <2>3 DEF i
  <2> QED BY <2>5, <2>6, <2>7
<1>2. CASE ~ IsAdaptByPosition(c.arguments)
  <2> DEFINE members == c.arguments[1].v
             name == members[n][1]
  <2>1. /\ n \in DOMAIN members
        /\ m[n] = <<IF \E i \in S : c.function[i].name = name THEN name ELSE Unmatched,
                    members[n][2]>>
    BY <1>2, Zenon DEF Matched, RfcInvocationNamedAdapter
  <2>2. PICK i \in S : c.function[i].name = name
    BY <2>1
  <2>3. i \in DOMAIN c.function
    BY SettableIs
  <2>4. Member(members, name) = members[n][2]
    <3>1. IsSequence(members) /\ IsInjective([j \in DOMAIN members |-> members[j][1]])
      BY <1>2, MembersAre
    <3> HIDE DEF members
    <3> QED BY <2>1, <3>1, MemberAt
  <2>5. Given(c, c.function[i]) = Member(members, name)
    BY <1>2, <2>2, <2>3, GivenIs
  <2>6. m[n] = <<name, members[n][2]>>
    BY <2>1, <2>2
  <2> HIDE DEF m, members, name
  <2>7. m[n][1] = name /\ m[n][2] = members[n][2]
    BY <2>6
  <2>8. \E j \in DOMAIN c.function :
          c.function[j].name = m[n][1] /\ Given(c, c.function[j]) = m[n][2]
    BY <2>2, <2>3, <2>4, <2>5, <2>7
  <2> QED BY <2>8 DEF m
<1> QED BY <1>1, <1>2

(* And what is given for a parameter is matched with it.                   *)
LEMMA GivenIsMatched ==
  ASSUME NEW c \in Calls, NEW i \in DOMAIN c.function, Given(c, c.function[i]) # Null
  PROVE  \E n \in DOMAIN Matched(c.function, c.arguments) :
           Matched(c.function, c.arguments)[n][1] = c.function[i].name
<1> DEFINE m == Matched(c.function, c.arguments)
           S == Settable(c.function)
<1>1. i \in S
  BY GivenIs
<1>2. CASE IsAdaptByPosition(c.arguments)
  <2> DEFINE n == Cardinality(UpTo(S, i))
  <2>1. n <= Len(c.arguments)
    <3>1. n \in Nat /\ Len(c.arguments) \in Nat
      BY <1>1, SettableIs, RankStep, CallIs, SequenceIs
    <3>2. ~ (n > Len(c.arguments))
      BY <1>1, <1>2, GivenIs
    <3> HIDE DEF n
    <3> QED BY <3>1, <3>2
  <2>2. n \in 1 .. Cardinality(S)
    <3>1. i \in Nat \ {0} /\ Cardinality(S) \in Nat /\ S \subseteq 1 .. Len(c.function)
          /\ Len(c.function) \in Nat
      BY <1>1, SettableIs
    <3>2. n \in Nat /\ n >= 1
      <4> HIDE DEF S
      <4>1. Cardinality(UpTo(S, i - 1)) \in Nat /\ n = Cardinality(UpTo(S, i - 1)) + 1
        BY <1>1, <3>1, RankStep
      <4> HIDE DEF n
      <4> QED BY <4>1
    <3>3. IsFiniteSet(S)
      <4>1. IsFiniteSet(1 .. Len(c.function))
        BY SettableIs, FS_Interval
      <4> QED BY <3>1, <4>1, FS_Subset
    <3>4. UpTo(S, i) \in SUBSET S
      BY DEF UpTo
    <3>5. n <= Cardinality(S)
      BY <3>3, <3>4, FS_Subset
    <3> HIDE DEF n, S
    <3> QED BY <3>1, <3>2, <3>5
  <2>3. NthSettable(c.function, n) = i
    <3>1. /\ NthSettable(c.function, n) \in S
          /\ Cardinality(UpTo(S, NthSettable(c.function, n))) = n
      <4> HIDE DEF n
      <4> QED BY <2>2, NthIs
    <3>2. S \subseteq Nat \ {0}
      BY SettableIs
    <3> HIDE DEF S
    <3> QED BY <1>1, <3>1, <3>2, RankUnique
  <2>4. n \in DOMAIN c.arguments /\ n <= Cardinality(S)
    <3>1. DOMAIN c.arguments = 1 .. Len(c.arguments) /\ Len(c.arguments) \in Nat
      BY CallIs, SequenceIs
    <3>2. Cardinality(S) \in Nat
      BY SettableIs
    <3> HIDE DEF n, S
    <3> QED BY <2>1, <2>2, <3>1, <3>2
  <2> HIDE DEF n
  <2>5. n \in DOMAIN m /\ m[n] = <<c.function[i].name, c.arguments[n]>>
    BY <1>2, <2>3, <2>4 DEF Matched, RfcInvocationPositionalAdapter
  <2> QED BY <2>5
<1>3. CASE ~ IsAdaptByPosition(c.arguments)
  <2> DEFINE members == c.arguments[1].v
  <2>1. Member(members, c.function[i].name) # Null
    BY <1>1, <1>3, GivenIs
  <2>2. IsSequence(members)
    BY <1>3, MembersAre
  <2>3. PICK n \in DOMAIN members : members[n][1] = c.function[i].name
    <3> HIDE DEF members
    <3> QED BY <2>1, <2>2, MemberIs
  <2>4. n \in DOMAIN m /\ m[n] = <<c.function[i].name, members[n][2]>>
    BY <1>1, <1>3, <2>3 DEF Matched, RfcInvocationNamedAdapter
  <2> QED BY <2>4
<1> QED BY <1>2, <1>3

LEMMA MatchedIs ==
  ASSUME NEW c \in Calls
  PROVE  /\ Len(Matched(c.function, c.arguments)) \in Nat
         /\ DOMAIN Matched(c.function, c.arguments)
              = 1 .. Len(Matched(c.function, c.arguments))
<1>1. CASE IsAdaptByPosition(c.arguments)
  <2>1. DOMAIN c.arguments = 1 .. Len(c.arguments) /\ Len(c.arguments) \in Nat
    BY CallIs, SequenceIs
  <2> QED BY <1>1, <2>1 DEF Matched, RfcInvocationPositionalAdapter
<1>2. CASE ~ IsAdaptByPosition(c.arguments)
  <2> DEFINE members == c.arguments[1].v
  <2>1. DOMAIN members = 1 .. Len(members) /\ Len(members) \in Nat
    BY <1>2, MembersAre, SequenceIs
  <2> QED BY <1>2, <2>1 DEF Matched, RfcInvocationNamedAdapter
<1> QED BY <1>1, <1>2

-----------------------------------------------------------------------------
(* The lines of a parameter.                                               *)
LEMMA HeldIs ==
  ASSUME NEW param, IsParameter(param), NEW value, Fits(param, value)
  PROVE  /\ DOMAIN Held(param, value) = 1 .. Len(Lines(param, value))
         /\ DOMAIN Lines(param, value) = 1 .. Len(Lines(param, value))
         /\ Len(Lines(param, value)) \in Nat
         /\ \A i \in DOMAIN Lines(param, value), f \in DOMAIN param.fields :
              LET member == Member(Lines(param, value)[i], param.fields[f].name)
              IN /\ member = Null \/ Convertible(SdkType(param.fields[f]), member)
                 /\ IsField(param.fields[f])
                 /\ Held(param, value)[i][f] = AdaptValue(param.fields[f], member).held
                 /\ Rejected(param, value) \/ ~ AdaptValue(param.fields[f], member).refused
<1> DEFINE L == Lines(param, value)
<1>1. IsSequence(L)
  BY DEF Fits
<1>2. DOMAIN L = 1 .. Len(L) /\ Len(L) \in Nat
  <2> HIDE DEF L
  <2> QED BY <1>1, SequenceIs
<1>3. DOMAIN Held(param, value) = DOMAIN L
  BY DEF Held
<1>4. ASSUME NEW i \in DOMAIN L, NEW f \in DOMAIN param.fields
      PROVE  LET member == Member(L[i], param.fields[f].name)
             IN /\ member = Null \/ Convertible(SdkType(param.fields[f]), member)
                /\ IsField(param.fields[f])
                /\ Held(param, value)[i][f] = AdaptValue(param.fields[f], member).held
                /\ Rejected(param, value) \/ ~ AdaptValue(param.fields[f], member).refused
  <2> DEFINE member == Member(L[i], param.fields[f].name)
  <2>1. member = Null \/ Convertible(SdkType(param.fields[f]), member)
    BY <1>4 DEF Fits
  <2>2. IsField(param.fields[f])
    BY DEF IsParameter
  <2>3. Adapted(param, value)[i][f] = AdaptValue(param.fields[f], member)
    BY DEF Adapted, AdaptStructure
  <2>4. Held(param, value)[i][f] = AdaptValue(param.fields[f], member).held
    BY <2>3 DEF Held
  <2>5. Rejected(param, value) \/ ~ AdaptValue(param.fields[f], member).refused
    BY <2>3 DEF Rejected
  <2> QED BY <2>1, <2>2, <2>4, <2>5
<1> QED BY <1>2, <1>3, <1>4

LEMMA InitialIs ==
  ASSUME NEW param, IsParameter(param), NEW i \in DOMAIN InitialLines(param),
         NEW f \in DOMAIN param.fields
  PROVE  /\ IsField(param.fields[f])
         /\ InitialLines(param)[i][f] = SdkInitial(SdkType(param.fields[f]))
<1>1. IsField(param.fields[f])
  BY DEF IsParameter
<1>2. param.kind # "TABLE"
  BY DEF InitialLines
<1>3. InitialLines(param) =
        <<[g \in DOMAIN param.fields |-> SdkInitial(SdkType(param.fields[g]))]>>
  BY <1>2 DEF InitialLines
<1>4. i = 1
  BY <1>3
<1> QED BY <1>1, <1>3, <1>4

LEMMA ReadIs ==
  ASSUME NEW fields, NEW lines, NEW value \in ConvertRfcTable(fields, lines)
  PROVE  /\ DOMAIN value = DOMAIN lines
         /\ \A n \in Nat : DOMAIN lines = 1 .. n => Len(value) = n
         /\ \A i \in DOMAIN lines : DOMAIN value[i] = DOMAIN fields
         /\ \A i \in DOMAIN lines, f \in DOMAIN fields :
              value[i][f] \in ConvertRfcValue(SdkType(fields[f]), lines[i][f])
<1> DEFINE T == UNION {ConvertRfcStruct(fields, lines[i]) : i \in DOMAIN lines}
<1>1. /\ value \in [DOMAIN lines -> T]
      /\ \A i \in DOMAIN lines : value[i] \in ConvertRfcStruct(fields, lines[i])
  BY DEF ConvertRfcTable
<1> HIDE DEF T
<1>2. DOMAIN value = DOMAIN lines /\ \A n \in Nat : DOMAIN lines = 1 .. n => Len(value) = n
  BY <1>1, SequenceOf
<1>3. \A i \in DOMAIN lines :
        /\ DOMAIN value[i] = DOMAIN fields
        /\ \A f \in DOMAIN fields :
             value[i][f] \in ConvertRfcValue(SdkType(fields[f]), lines[i][f])
  BY <1>1 DEF ConvertRfcStruct
<1> QED BY <1>2, <1>3

-----------------------------------------------------------------------------
(* The invariant.                                                          *)
LEMMA InitInv == Init => Inv
BY DEF Init, Inv

LEMMA BeginInvocationInv ==
  ASSUME Inv, NEW c \in Calls, BeginInvocation(c)
  PROVE  Inv'
<1>1. next = 1 /\ results = <<>> /\ call' = c /\ next' = 1 /\ results' = <<>>
  BY DEF BeginInvocation, Inv
<1>2. pc' \in {"adapt", "error"}
  BY DEF BeginInvocation
<1>3. container' = [name \in Names(c.function) |-> InitialLines(Parameter(c.function, name))]
  BY DEF BeginInvocation
<1>4. \A i \in DOMAIN call'.function : ParameterInv(call.function[i])'
  <2> SUFFICES ASSUME NEW i \in DOMAIN c.function PROVE ParameterInv(call.function[i])'
    BY <1>1
  <2>1. container'[c.function[i].name] = InitialLines(c.function[i])
    <3>1. c.function[i].name \in Names(c.function)
      BY DEF Names
    <3> QED BY <1>3, <3>1, ParameterIs
  <2>2. ~ Done(call.function[i].name)'
    <3>1. DOMAIN Matched(c.function, c.arguments) \subseteq Nat \ {0}
      BY MatchedIs
    <3> QED BY <1>1, <3>1 DEF Done, MatchedArguments
  <2> QED BY <1>1, <2>1, <2>2 DEF ParameterInv
<1>5. CallInv'
  BY <1>1, <1>3, <1>4 DEF CallInv
<1> QED BY <1>1, <1>2, <1>5 DEF Inv

LEMMA AdaptArgumentInv ==
  ASSUME Inv, AdaptArgument
  PROVE  Inv'
<1> DEFINE m == MatchedArguments
           name == m[next][1]
           value == m[next][2]
<1>1. /\ pc = "adapt" /\ results = <<>> /\ results' = <<>> /\ call' = call /\ next' = next + 1
      /\ CallInv /\ next <= Len(m)
  BY Zenon DEF AdaptArgument, Inv, MatchedArguments
<1>2. CASE pc' = "error"
  BY <1>1, <1>2 DEF Inv
<1>3. CASE pc' # "error"
  <2>1. pc' = "adapt"
    BY <1>1, <1>3, Zenon DEF AdaptArgument
  <2>2. /\ call \in Calls /\ next \in Nat \ {0} /\ m' = m
        /\ DOMAIN m = 1 .. Len(m) /\ Len(m) \in Nat
    BY <1>1, MatchedIs, Zenon DEF CallInv, MatchedArguments
  <2>3. \/ name # Unmatched /\ value.id = "NULL" /\ UNCHANGED <<container, refused>>
        \/ /\ name # Unmatched /\ value.id # "NULL"
           /\ ~ Unadaptable(Parameter(call.function, name), value)
           /\ container' =
                [container EXCEPT ![name] = Held(Parameter(call.function, name), value)]
           /\ refused' = IF Rejected(Parameter(call.function, name), value)
                         THEN refused \cup {name} ELSE refused
    BY <1>3, Zenon DEF AdaptArgument, MatchedArguments, Held, Adapted, Rejected
  <2>4. \A i \in DOMAIN call.function : ParameterInv(call.function[i])'
    <3> SUFFICES ASSUME NEW i \in DOMAIN call.function PROVE ParameterInv(call.function[i])'
      OBVIOUS
    <3> DEFINE param == call.function[i]
    <3>1. ParameterInv(param) /\ Given(call, param)' = Given(call, param)
      BY <1>1 DEF CallInv
    <3>2. /\ param.name \in DOMAIN container
          /\ container = [x \in DOMAIN container |-> container[x]]
      BY <1>1 DEF CallInv, Names
    <3>3. CASE param.name # name
      <4>1. container'[param.name] = container[param.name] /\ refused \subseteq refused'
        BY <2>3, <3>2, <3>3
      <4>2. Done(param.name)' <=> Done(param.name)
        BY <1>1, <2>2, <3>3 DEF Done
      <4> QED BY <1>1, <3>1, <4>1, <4>2 DEF ParameterInv
    <3>4. CASE param.name = name
      <4>1. next \in DOMAIN m /\ next < next'
        <5>1. next >= 1
          BY <2>2
        <5> QED BY <1>1, <2>2, <5>1
      <4>2. Parameter(call.function, name) = param /\ Given(call, param) = value
        <5>1. name # Unmatched
          BY <2>3
        <5>2. PICK j \in DOMAIN call.function :
                call.function[j].name = name /\ Given(call, call.function[j]) = value
          BY <2>2, <4>1, <5>1, MatchedIsGiven DEF MatchedArguments
        <5>3. Parameter(call.function, name) = call.function[j]
          BY <2>2, <5>2, ParameterIs
        <5>4. Parameter(call.function, name) = param
          BY <2>2, <3>4, ParameterIs
        <5> QED BY <5>2, <5>3, <5>4
      <4>3. CASE value.id = "NULL"
        <5>1. Given(call, param) = Null
          BY <2>2, <4>2, <4>3, CallIs
        <5>2. container'[param.name] = container[param.name]
          BY <2>3, <4>3
        <5> QED BY <1>1, <3>1, <5>1, <5>2 DEF ParameterInv
      <4>4. CASE value.id # "NULL"
        <5>1. value # Null
          BY <4>4 DEF Null, Value
        <5>2. Done(param.name)'
          BY <1>1, <2>2, <3>4, <4>1 DEF Done
        <5>3. container'[param.name] = Held(param, value) /\ TypeFits(param, value)
          BY <2>3, <3>2, <3>4, <4>2, <4>4 DEF Unadaptable
        <5>4. param.name \in refused' \/ ~ Rejected(param, value)
          BY <2>3, <3>4, <4>2, <4>4
        <5> QED BY <1>1, <3>1, <4>2, <5>1, <5>2, <5>3, <5>4 DEF ParameterInv
      <4> QED BY <4>3, <4>4
    <3> QED BY <3>3, <3>4
  <2>5. /\ DOMAIN container' = DOMAIN container
        /\ container' = [x \in DOMAIN container' |-> container'[x]]
    <3>1. container = [x \in DOMAIN container |-> container[x]]
      BY <1>1 DEF CallInv
    <3> HIDE DEF name, value
    <3> QED BY <2>3, <3>1
  <2>6. CallInv'
    BY <1>1, <2>2, <2>4, <2>5 DEF CallInv
  <2> QED BY <1>1, <2>1, <2>6 DEF Inv
<1> QED BY <1>2, <1>3

LEMMA CallUnchanged ==
  ASSUME CallInv, UNCHANGED <<call, next, container, refused>>
  PROVE  CallInv'
<1>1. \A i \in DOMAIN call.function : ParameterInv(call.function[i])'
  <2> SUFFICES ASSUME NEW i \in DOMAIN call.function PROVE ParameterInv(call.function[i])'
    OBVIOUS
  <2>1. ParameterInv(call.function[i])
    BY DEF CallInv
  <2>2. Done(call.function[i].name)' <=> Done(call.function[i].name)
    BY DEF Done, MatchedArguments
  <2> QED BY <2>1, <2>2 DEF ParameterInv
<1> QED BY <1>1 DEF CallInv

LEMMA ExecuteInv ==
  ASSUME Inv, Execute
  PROVE  Inv'
<1>1. CallInv /\ CallInv' /\ results = <<>> /\ UNCHANGED <<call, next, container, refused>>
  BY CallUnchanged DEF Inv, Execute
<1>2. CASE pc' = "error"
  BY <1>1, <1>2 DEF Execute, Inv
<1>3. CASE pc' = "executed"
  <2>1. results' = [name \in Names(call.function) |-> <<>>]
    BY <1>3 DEF Execute
  <2>2. next' > Len(MatchedArguments')
    <3>1. next \in Nat /\ Len(MatchedArguments) \in Nat /\ call \in Calls
      BY <1>1, MatchedIs DEF CallInv, MatchedArguments
    <3> QED BY <1>1 DEF Execute, MatchedArguments
  <2>3. \A i \in DOMAIN call.function : results'[call.function[i].name] = <<>>
    BY <2>1 DEF Names
  <2>4. ResultsInv'
    BY <1>1, <2>1, <2>2, <2>3 DEF ResultsInv
  <2> QED BY <1>1, <1>3, <2>4 DEF Inv
<1> QED BY <1>2, <1>3 DEF Execute

LEMMA ReadResultInv ==
  ASSUME Inv, NEW name \in Names(call.function), ReadResult(name)
  PROVE  Inv'
<1>1. /\ pc = "executed" /\ CallInv /\ ResultsInv
      /\ UNCHANGED <<call, next, container, refused>>
  BY DEF Inv, ReadResult
<1>2. CallInv' /\ call \in Calls
  BY <1>1, CallUnchanged DEF CallInv
<1>3. CASE pc' = "error"
  BY <1>1, <1>3 DEF ReadResult, Inv
<1>4. CASE pc' # "error"
  <2>1. PICK value \in ConvertRfcTable(Parameter(call.function, name).fields, container[name]) :
          ~ Raised(value) /\ results' = [results EXCEPT ![name] = <<value>>]
    BY <1>4 DEF ReadResult
  <2>2. /\ DOMAIN results' = DOMAIN results
        /\ results' = [x \in DOMAIN results' |-> results'[x]]
    BY <1>1, <2>1 DEF ResultsInv
  <2>3. ASSUME NEW i \in DOMAIN call.function
        PROVE  \/ results'[call.function[i].name] = <<>>
               \/ \E v \in ConvertRfcTable(call.function[i].fields,
                                             container[call.function[i].name]) :
                    ~ Raised(v) /\ results'[call.function[i].name] = <<v>>
    <3>1. CASE call.function[i].name = name
      <4>1. Parameter(call.function, name) = call.function[i]
        BY <1>2, <3>1, ParameterIs
      <4>2. results'[name] = <<value>>
        BY <1>1, <2>1 DEF ResultsInv
      <4> QED BY <2>1, <3>1, <4>1, <4>2
    <3>2. CASE call.function[i].name # name
      <4>1. results'[call.function[i].name] = results[call.function[i].name]
        <5>1. call.function[i].name \in DOMAIN results
          BY <1>1 DEF ResultsInv, Names
        <5> QED BY <1>1, <2>1, <3>2, <5>1 DEF ResultsInv
      <4> QED BY <1>1, <4>1 DEF ResultsInv
    <3> QED BY <3>1, <3>2
  <2>4. ResultsInv'
    BY <1>1, <2>2, <2>3 DEF ResultsInv, MatchedArguments
  <2>5. pc' = "executed"
    BY <1>1, <1>4 DEF ReadResult
  <2> QED BY <1>1, <1>2, <2>4, <2>5 DEF Inv
<1> QED BY <1>3, <1>4

LEMMA NextInv ==
  ASSUME Inv, [Next]_vars
  PROVE  Inv'
<1>1. ASSUME NEW c \in Calls, BeginInvocation(c) PROVE Inv'
  BY <1>1, BeginInvocationInv
<1>2. CASE AdaptArgument
  BY <1>2, AdaptArgumentInv
<1>3. CASE Execute
  BY <1>3, ExecuteInv
<1>4. ASSUME NEW name \in Names(call.function), ReadResult(name) PROVE Inv'
  BY <1>4, ReadResultInv
<1>5. CASE UNCHANGED vars
  <2>1. UNCHANGED <<pc, call, next, container, refused, results>>
    BY <1>5 DEF vars
  <2>2. pc \in {"adapt", "executed"} => CallInv'
    BY <2>1, CallUnchanged DEF Inv
  <2>3. pc = "executed" => ResultsInv'
    BY <2>1 DEF Inv, ResultsInv, MatchedArguments
  <2> QED BY <2>1, <2>2, <2>3 DEF Inv
<1> QED BY <1>1, <1>2, <1>3, <1>4, <1>5 DEF Next

(* The container holds of every parameter what was given for it up to now, *)
(* and a result is read from there.                                        *)
THEOREM Invariance == Spec => []Inv
<1>1. Init => Inv
  BY InitInv
<1>2. Inv /\ [Next]_vars => Inv'
  BY NextInv
<1> QED BY <1>1, <1>2, PTL DEF Spec

-----------------------------------------------------------------------------
(* The properties.                                                         *)
LEMMA GivenComesBack ==
  ASSUME Inv, pc = "executed", NEW k \in DOMAIN call.function,
         call.function[k].name \notin refused,
         Given(call, call.function[k]) # Null,
         NEW value \in ConvertRfcTable(call.function[k].fields,
                                       container[call.function[k].name]),
         ~ Raised(value)
  PROVE  LET sent == Lines(call.function[k], Given(call, call.function[k]))
         IN /\ Len(value) = Len(sent)
            /\ \A i \in DOMAIN value, f \in DOMAIN call.function[k].fields :
                 CameBack(call.function[k].fields[f],
                          Member(sent[i], call.function[k].fields[f].name), value[i][f])
<1> DEFINE param == call.function[k]
           given == Given(call, param)
           sent == Lines(param, given)
<1>1. call \in Calls /\ next \in Nat /\ ParameterInv(param) /\ next > Len(MatchedArguments)
  BY DEF Inv, CallInv, ResultsInv
<1>2. Done(param.name)
  <2>1. PICK n \in DOMAIN MatchedArguments : MatchedArguments[n][1] = param.name
    BY <1>1, GivenIsMatched DEF MatchedArguments
  <2>2. n \in 1 .. Len(MatchedArguments) /\ Len(MatchedArguments) \in Nat
    BY <1>1, MatchedIs DEF MatchedArguments
  <2>3. n < next
    BY <1>1, <2>2
  <2> QED BY <2>1, <2>3 DEF Done
<1>3. /\ TypeFits(param, given) /\ ~ Rejected(param, given)
      /\ container[param.name] = Held(param, given)
  BY <1>1, <1>2 DEF ParameterInv
<1>4. IsParameter(param) /\ Fits(param, given)
  BY <1>1, <1>3, CallIs
<1>5. /\ DOMAIN Held(param, given) = 1 .. Len(sent) /\ DOMAIN sent = 1 .. Len(sent)
      /\ Len(sent) \in Nat
      /\ \A i \in DOMAIN sent, f \in DOMAIN param.fields :
           LET member == Member(sent[i], param.fields[f].name)
           IN /\ member = Null \/ Convertible(SdkType(param.fields[f]), member)
              /\ IsField(param.fields[f])
              /\ Held(param, given)[i][f] = AdaptValue(param.fields[f], member).held
              /\ ~ AdaptValue(param.fields[f], member).refused
  BY <1>3, <1>4, HeldIs
<1> HIDE DEF param, given, sent
<1>6. value \in ConvertRfcTable(param.fields, Held(param, given))
  BY <1>3 DEF param
<1>7. /\ DOMAIN value = DOMAIN sent /\ Len(value) = Len(sent)
      /\ \A i \in DOMAIN sent, f \in DOMAIN param.fields :
           /\ value[i][f] \in ConvertRfcValue(SdkType(param.fields[f]), Held(param, given)[i][f])
           /\ value[i][f] # Error
  BY <1>5, <1>6, ReadIs DEF Raised
<1>8. ASSUME NEW i \in DOMAIN value, NEW f \in DOMAIN param.fields
      PROVE  CameBack(param.fields[f], Member(sent[i], param.fields[f].name), value[i][f])
  <2> DEFINE member == Member(sent[i], param.fields[f].name)
  <2>1. /\ member = Null \/ Convertible(SdkType(param.fields[f]), member)
        /\ IsField(param.fields[f])
        /\ ~ AdaptValue(param.fields[f], member).refused
        /\ Held(param, given)[i][f] = AdaptValue(param.fields[f], member).held
    BY <1>5, <1>7
  <2>2. /\ value[i][f] \in ConvertRfcValue(SdkType(param.fields[f]), Held(param, given)[i][f])
        /\ value[i][f] # Error
    BY <1>7
  <2> HIDE DEF member
  <2>3. value[i][f] \in ConvertRfcValue(SdkType(param.fields[f]),
                                         AdaptValue(param.fields[f], member).held)
    BY <2>1, <2>2
  <2>4. CameBack(param.fields[f], member, value[i][f])
    BY <2>1, <2>2, <2>3, FieldCameBack
  <2> QED BY <2>4 DEF member
<1> QED BY <1>7, <1>8 DEF param, given, sent

LEMMA ComesBackInv ==
  ASSUME Inv
  PROVE  ComesBack
<1> SUFFICES ASSUME NEW name \in DOMAIN results \ refused
             PROVE  LET param == Parameter(call.function, name)
                        given == Given(call, param)
                        sent == IF given = Null THEN <<>> ELSE Lines(param, given)
                    IN results[name] # <<>> =>
                         /\ given # Null => Len(results[name][1]) = Len(sent)
                         /\ \A i \in DOMAIN results[name][1], f \in DOMAIN param.fields :
                              CameBack(param.fields[f],
                                       IF given = Null THEN Null
                                       ELSE Member(sent[i], param.fields[f].name),
                                       results[name][1][i][f])
  BY DEF ComesBack
<1>1. CASE pc # "executed"
  BY <1>1 DEF Inv
<1>2. CASE pc = "executed"
  <2>1. CallInv /\ ResultsInv /\ call \in Calls
    BY <1>2 DEF Inv, CallInv
  <2>2. PICK k \in DOMAIN call.function : call.function[k].name = name
    BY <2>1 DEF ResultsInv, Names
  <2> DEFINE param == call.function[k]
             given == Given(call, param)
  <2>3. Parameter(call.function, name) = param
    BY <2>1, <2>2, ParameterIs
  <2>4. IsParameter(param) /\ ParameterInv(param)
    BY <2>1, CallIs DEF CallInv
  <2>5. CASE results[name] = <<>>
    BY <2>5
  <2>6. ASSUME NEW value \in ConvertRfcTable(param.fields, container[name]),
               ~ Raised(value), results[name] = <<value>>
        PROVE  /\ given # Null => Len(value) = Len(Lines(param, given))
               /\ \A i \in DOMAIN value, f \in DOMAIN param.fields :
                    CameBack(param.fields[f],
                             IF given = Null THEN Null
                             ELSE Member(Lines(param, given)[i], param.fields[f].name),
                             value[i][f])
    <3>1. CASE given # Null
      BY <1>2, <2>2, <2>6, <3>1, GivenComesBack
    <3>2. CASE given = Null
      <4>1. container[name] = InitialLines(param)
        BY <2>2, <2>4, <3>2 DEF ParameterInv
      <4>2. ASSUME NEW i \in DOMAIN value, NEW f \in DOMAIN param.fields
            PROVE  CameBack(param.fields[f], Null, value[i][f])
        <5>1. /\ i \in DOMAIN InitialLines(param)
              /\ value[i][f] \in ConvertRfcValue(SdkType(param.fields[f]),
                                                 InitialLines(param)[i][f])
              /\ value[i][f] # Error
          BY <2>6, <4>1, <4>2, ReadIs DEF Raised
        <5>2. InitialLines(param)[i][f] = SdkInitial(SdkType(param.fields[f]))
          BY <2>4, <4>2, <5>1, InitialIs
        <5> QED BY <5>1, <5>2 DEF CameBack
      <4> QED BY <3>2, <4>2
    <3> QED BY <3>1, <3>2
  <2>7. results[name] = <<>> \/ \E value \in ConvertRfcTable(param.fields, container[name]) :
                                  ~ Raised(value) /\ results[name] = <<value>>
    BY <2>1, <2>2 DEF ResultsInv
  <2>8. CASE results[name] # <<>>
    <3>1. PICK value \in ConvertRfcTable(param.fields, container[name]) :
            ~ Raised(value) /\ results[name] = <<value>>
      BY <2>7, <2>8
    <3>2. results[name][1] = value
      BY <3>1
    <3> HIDE DEF param, given
    <3>3. /\ given # Null => Len(value) = Len(Lines(param, given))
          /\ \A i \in DOMAIN value, f \in DOMAIN param.fields :
               CameBack(param.fields[f],
                        IF given = Null THEN Null
                        ELSE Member(Lines(param, given)[i], param.fields[f].name),
                        value[i][f])
      BY <2>6, <3>1
    <3>4. Given(call, param) = given
      BY DEF given
    <3> QED BY <2>3, <3>2, <3>3, <3>4
  <2> QED BY <2>5, <2>8
<1> QED BY <1>1, <1>2

LEMMA ColumnsAgreeInv ==
  ASSUME Inv
  PROVE  ColumnsAgreeWithResults
<1> SUFFICES ASSUME pc = "executed", NEW name \in DOMAIN container,
                    NEW i \in DOMAIN container[name],
                    NEW f \in DOMAIN Parameter(call.function, name).fields,
                    NEW line \in {"CHAR", "STRING"},
                    NEW text \in CsvTexts(SdkType(Parameter(call.function, name).fields[f]),
                                          container[name][i][f])
             PROVE  Agrees(Parameter(call.function, name).fields[f],
                           container[name][i][f], line, text)
  BY DEF ColumnsAgreeWithResults, Agrees
<1>1. CallInv /\ call \in Calls
  BY DEF Inv, CallInv
<1>2. PICK k \in DOMAIN call.function : call.function[k].name = name
  BY <1>1 DEF CallInv, Names
<1> DEFINE param == call.function[k]
           given == Given(call, param)
           field == param.fields[f]
<1>3. Parameter(call.function, name) = param
  BY <1>1, <1>2, ParameterIs
<1>4. /\ IsParameter(param) /\ ParameterInv(param)
      /\ TypeFits(param, given) => Fits(param, given)
  BY <1>1, CallIs DEF CallInv
<1>5. f \in DOMAIN param.fields
  BY <1>3
<1>6. CASE given # Null /\ Done(name)
  <2>1. Fits(param, given) /\ container[name] = Held(param, given)
    BY <1>2, <1>4, <1>6 DEF ParameterInv
  <2> DEFINE member == Member(Lines(param, given)[i], field.name)
  <2>2. /\ member = Null \/ Convertible(SdkType(field), member)
        /\ IsField(field)
        /\ container[name][i][f] = AdaptValue(field, member).held
    BY <1>4, <1>5, <2>1, HeldIs
  <2>3. Holds(SdkType(field), container[name][i][f])
    <3> HIDE DEF member, field
    <3> QED BY <2>2, FieldHolds
  <2> QED BY <1>3, <2>2, <2>3, FieldAgrees
<1>7. CASE ~ (given # Null /\ Done(name))
  <2>1. container[name] = InitialLines(param)
    BY <1>2, <1>4, <1>7 DEF ParameterInv
  <2>2. IsField(field) /\ container[name][i][f] = SdkInitial(SdkType(field))
    BY <1>4, <1>5, <2>1, InitialIs
  <2>3. Holds(SdkType(field), container[name][i][f])
    BY <2>2, SdkTypeIs, InitialHolds
  <2> QED BY <1>3, <2>2, <2>3, FieldAgrees
<1> QED BY <1>6, <1>7

(* What a call gives for a parameter comes back from a function that       *)
(* returns it, for every function, call and value of the types the fields  *)
(* take: the value, padded to the field, a text without the white space at *)
(* its end, or FALSE where the SDK fails the read of a type that does not  *)
(* throw.  [RfcType::AdaptValue, the adapters, ConvertRfcValue]            *)
THEOREM ComesBackAlways == Spec => []ComesBack
<1>1. Inv => ComesBack
  BY ComesBackInv
<1> QED BY <1>1, Invariance, PTL

(* A column of a table read gives what the direct read of the same field   *)
(* gives, type and value, whatever the field holds, but for the NULLs and  *)
(* the three errors the property names.                                    *)
(* [ConvertCsvValue, ConvertRfcValue, FromTypeName]                        *)
THEOREM ColumnsAlwaysAgree == Spec => []ColumnsAgreeWithResults
<1>1. Inv => ColumnsAgreeWithResults
  BY ColumnsAgreeInv
<1> QED BY <1>1, Invariance, PTL
=============================================================================
