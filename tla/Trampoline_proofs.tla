-------------------------- MODULE Trampoline_proofs --------------------------
(***************************************************************************)
(* Proofs about Trampoline, for any processes, libraries, companions and   *)
(* extensions on each platform: the first LOAD of an undisturbed process   *)
(* recovers from whatever is in the directory, and no process whose LOADs  *)
(* come one after another runs an extension of an older release or empties *)
(* what it has mapped.  Other processes do what they like; with two LOADs  *)
(* of one process overlapping the last two do not hold.                    *)
(*                                                                         *)
(* None of the three is inductive: each rests on how far the script of a   *)
(* LOAD has come.  The script lists every file once to be saved, and on    *)
(* Linux and macOS maps a library right behind its saving (the lemmas on   *)
(* the script).  The invariant says what the places a LOAD has passed have *)
(* left behind, on the disk and in the memory of its process, and what the *)
(* places to come will still find.                                         *)
(***************************************************************************)
EXTENDS Trampoline, Integers, SequenceTheorems, TLAPS

(* Place i of the script saves f, or maps it.                              *)
SavesAt(i, f) == i \in DOMAIN Script /\ Script[i] = [op |-> "save", file |-> f]
MapsAt(i, f)  == i \in DOMAIN Script /\ Script[i] = [op |-> "dlopen", file |-> f]

Extracting(d) == at[d] \in 1 .. Len(Extraction)

(* Libraries mapped before the SDK, as ICU is.                             *)
Early(f) == \E i, j \in DOMAIN Script : i < j /\ MapsAt(i, f) /\ MapsAt(j, SdkLibrary)

(* The databases other than d in the process of d.                         *)
Siblings(d) == {e \in Databases \ {d} : Home[e] = Home[d]}

(* Without an overlap a process runs one LOAD at a time.                   *)
Solo(d) == at[d] # 0 /\ ~ overlapped[Home[d]] => \A e \in Siblings(d) : at[e] = 0

(* A LOAD with an open file is at a place that saves.                      *)
Open(d) == writing[d] => At(d, "save") /\ disk[File(d)] # "old"

(* A LOAD adds one entry to the search path, at the end of extraction.     *)
Searched(d) ==
  /\ search_path[d] <= loads
  /\ Extracting(d) => search_path[d] < loads

Harmed(d) == \A f \in damaged[Home[d]] : Has(Home[d], f)

(* On Linux and macOS only what precedes the SDK is mapped without it; an  *)
(* extraction has mapped the libraries it has passed, and when it has      *)
(* passed the SDK none of the files to come.                               *)
Order(d) ==
  LET p == Home[d]
  IN  platform # "windows" /\ ~ overlapped[p] =>
        /\ ~ Has(p, SdkLibrary) => \A f \in Files : Has(p, f) => Early(f)
        /\ Extracting(d) => \A i \in DOMAIN Script, f \in Files :
             /\ MapsAt(i, f) /\ i < at[d] => Has(p, f)
             /\ Has(p, SdkLibrary) /\ SavesAt(i, f) /\ i >= at[d] => ~ Has(p, f)

(* Without a failure, the files passed are no longer old, and when the SDK *)
(* is mapped, and extraction skipped from now on, none is.                 *)
Renewed(d) ==
  LET p == Home[d]
  IN  ~ unsaved[p] /\ ~ overlapped[p] =>
        /\ at[d] # 0 => \A i \in DOMAIN Script, f \in Files :
             SavesAt(i, f) /\ i < at[d] => disk[f] # "old"
        /\ at[d] = 0 /\ (\A e \in Siblings(d) : at[e] = 0) /\ Has(p, SdkLibrary)
             => \A f \in Files : disk[f] # "old"

Running(d) == at[d] # 0 => outcome[d] = "none"

Current(d) ==
  LET p == Home[d]
  IN  ~ unsaved[p] /\ ~ overlapped[p]
        => \A f \in Elements(Extensions) : mapped[p][f] # "old"

(* The undisturbed first LOAD of the process, in d.                        *)
Alone(d) ==
  LET p == Home[d]
  IN  alone[d] =>
        /\ \A e \in Databases \ {d} : at[e] = 0
        /\ \A q \in Processes \ {p} : platform = "windows" => mapped[q] = Unmapped
        /\ damaged[p] = {}
        /\ at[d] # 0 => \A i \in DOMAIN Script, f \in Files :
             /\ SavesAt(i, f) /\ i < at[d] => disk[f] = "this"
             /\ MapsAt(i, f) /\ i < at[d] => Has(p, f)
        /\ Extracting(d) => \A f \in Files :
             Has(p, f) => \E i \in DOMAIN Script : i < at[d] /\ MapsAt(i, f)
        /\ platform = "windows" /\ at[d] > Len(Extraction) => search_path[d] > 0
        /\ outcome[d] # "none" => outcome[d] = "loaded" /\ \A f \in Files : disk[f] = "this"

DatabaseInv(d) ==
  /\ Open(d)
  /\ Searched(d)
  /\ Harmed(d)
  /\ Order(d)
  /\ Renewed(d)
  /\ Running(d)
  /\ Current(d)
  /\ Alone(d)

Inv == TypeOK /\ \A d \in Databases : Solo(d) /\ DatabaseInv(d)

-----------------------------------------------------------------------------
(* The script of a LOAD.                                                   *)

Saved == Companions \o Extensions
Ops == {"save", "dlopen", "search_path", "install", "load"}
Places == [op : Ops, file : Files]

NL == Len(Libraries)
NR == Len(Companions) + Len(Extensions)
NX == Len(Extensions)

(* A sequence of one behind another.                                       *)
LEMMA OneBehind ==
  ASSUME NEW S, NEW s \in Seq(S), NEW t \in Seq(S), Len(t) = 1
  PROVE  /\ s \o t \in Seq(S) /\ Len(s \o t) = Len(s) + 1
         /\ \A i \in 1 .. Len(s) : (s \o t)[i] = s[i]
         /\ (s \o t)[Len(s) + 1] = t[1]
<1>1. Len(s) \in Nat
  BY LenProperties
<1>2. /\ s \o t \in Seq(S) /\ Len(s \o t) = Len(s) + Len(t)
      /\ \A i \in 1 .. Len(s) + Len(t) : (s \o t)[i] =
           IF i <= Len(s) THEN s[i] ELSE t[i - Len(s)]
  BY ConcatProperties
<1> DEFINE both == s \o t
<1>3. /\ both \in Seq(S) /\ Len(both) = Len(s) + Len(t)
      /\ \A i \in 1 .. Len(s) + Len(t) : both[i] = IF i <= Len(s) THEN s[i] ELSE t[i - Len(s)]
  BY <1>2
<1> HIDE DEF both
<1>4. /\ both \in Seq(S) /\ Len(both) = Len(s) + 1
      /\ \A i \in 1 .. Len(s) + 1 : both[i] = IF i <= Len(s) THEN s[i] ELSE t[i - Len(s)]
  BY <1>3
<1>5. ASSUME NEW i \in 1 .. Len(s)
      PROVE  both[i] = s[i]
  <2>1. i \in 1 .. Len(s) + 1 /\ i <= Len(s)
    BY <1>1
  <2> QED BY <1>4, <2>1
<1>6. both[Len(s) + 1] = t[1]
  <2>1. /\ Len(s) + 1 \in 1 .. Len(s) + 1 /\ ~ (Len(s) + 1 <= Len(s))
        /\ (Len(s) + 1) - Len(s) = 1
    BY <1>1
  <2>2. both[Len(s) + 1] = t[(Len(s) + 1) - Len(s)]
    BY <1>4, <2>1
  <2> QED BY <2>1, <2>2
<1> QED BY <1>4, <1>5, <1>6 DEF both

LEMMA Parts ==
  /\ Libraries \in Seq(Files) /\ Companions \in Seq(Files) /\ Extensions \in Seq(Files)
  /\ NL \in Nat /\ NR \in Nat /\ NX \in Nat \ {0}
  /\ Saved \in Seq(Files) /\ Len(Saved) = NR /\ DOMAIN Saved = 1 .. NR
  /\ DOMAIN Libraries = 1 .. NL /\ DOMAIN Extensions = 1 .. NX
  /\ NR - NX \in Nat /\ \A i \in 1 .. NX : Saved[NR - NX + i] = Extensions[i]
<1>1. Libraries \in Seq(Files) /\ Companions \in Seq(Files) /\ Extensions \in Seq(Files)
  BY TrampolineAssumption
<1>2. Extensions # <<>>
  BY TrampolineAssumption
<1>3. /\ NL \in Nat /\ NR \in Nat /\ NX \in Nat \ {0} /\ NR - NX \in Nat
      /\ DOMAIN Libraries = 1 .. NL /\ DOMAIN Extensions = 1 .. NX
  BY <1>1, <1>2, LenProperties, EmptySeq DEF NL, NR, NX
<1>4. Saved \in Seq(Files) /\ Len(Saved) = NR
  BY <1>1, ConcatProperties DEF Saved, NR
<1>5. DOMAIN Saved = 1 .. NR
  BY <1>4, LenProperties
<1>6. \A i \in 1 .. NX : Saved[NR - NX + i] = Extensions[i]
  <2>1. Len(Companions) \in Nat /\ Len(Extensions) \in Nat
    BY <1>1, LenProperties
  <2>2. NR - NX = Len(Companions) /\ NX = Len(Extensions)
    BY <2>1 DEF NR, NX
  <2>3. \A k \in 1 .. Len(Companions) + Len(Extensions) :
          Saved[k] = IF k <= Len(Companions) THEN Companions[k] ELSE Extensions[k - Len(Companions)]
    BY <1>1, ConcatProperties DEF Saved
  <2> QED BY <2>1, <2>2, <2>3
<1> QED BY <1>1, <1>3, <1>4, <1>5, <1>6

(* No file is listed twice.                                                *)
LEMMA Listed ==
  /\ \A i, j \in 1 .. NL : Libraries[i] = Libraries[j] => i = j
  /\ \A i, j \in 1 .. NR : Saved[i] = Saved[j] => i = j
  /\ \A i \in 1 .. NL, j \in 1 .. NR : Libraries[i] # Saved[j]
  /\ \A f \in Files : (\E i \in 1 .. NL : Libraries[i] = f) \/ (\E j \in 1 .. NR : Saved[j] = f)
<1> DEFINE All == Libraries \o Companions \o Extensions
<1>1. All = Libraries \o Saved
  BY Parts, ConcatAssociative DEF Saved
<1>2. All \in Seq(Files) /\ Len(All) = NL + NR
  BY <1>1, Parts, ConcatProperties DEF NL
<1>3. DOMAIN All = 1 .. NL + NR
  BY <1>2, LenProperties
<1>4. \A i, j \in 1 .. NL + NR : i # j => All[i] # All[j]
  BY <1>3, TrampolineAssumption
<1>5. \A i \in 1 .. NL : All[i] = Libraries[i]
  BY <1>1, Parts, ConcatProperties DEF NL
<1>6. \A j \in 1 .. NR : NL + j \in 1 .. NL + NR /\ All[NL + j] = Saved[j]
  BY <1>1, Parts, ConcatProperties DEF NL
<1> HIDE DEF All
<1>0. NL \in Nat /\ NR \in Nat
  BY Parts
<1>7. \A i, j \in 1 .. NL : Libraries[i] = Libraries[j] => i = j
  BY <1>0, <1>4, <1>5
<1>8. \A i, j \in 1 .. NR : Saved[i] = Saved[j] => i = j
  BY <1>0, <1>4, <1>6
<1>9. \A i \in 1 .. NL, j \in 1 .. NR : Libraries[i] # Saved[j]
  <2> TAKE i \in 1 .. NL, j \in 1 .. NR
  <2>1. NL + j \in 1 .. NL + NR /\ i \in 1 .. NL + NR /\ i # NL + j
    BY Parts
  <2>2. All[i] # All[NL + j]
    BY <1>4, <2>1
  <2> QED BY <1>5, <1>6, <2>2
<1>10. ASSUME NEW f \in Files
       PROVE  (\E i \in 1 .. NL : Libraries[i] = f) \/ (\E j \in 1 .. NR : Saved[j] = f)
  <2>1. \A i \in DOMAIN Companions : i \in 1 .. NR /\ Saved[i] = Companions[i]
    <3>1. /\ Companions \in Seq(Files) /\ Extensions \in Seq(Files)
          /\ Len(Companions) \in Nat /\ Len(Extensions) \in Nat
          /\ DOMAIN Companions = 1 .. Len(Companions)
      BY Parts, LenProperties
    <3>2. \A k \in 1 .. Len(Companions) + Len(Extensions) :
            Saved[k] = IF k <= Len(Companions) THEN Companions[k] ELSE Extensions[k - Len(Companions)]
      BY <3>1, ConcatProperties DEF Saved
    <3> QED BY <3>1, <3>2 DEF NR
  <2>2. \A i \in 1 .. NX : NR - NX + i \in 1 .. NR
    BY Parts
  <2> QED BY <2>1, <2>2, Parts DEF Files, Elements
<1> QED BY <1>7, <1>8, <1>9, <1>10

LEMMA ForEachPlaces ==
  ASSUME NEW s \in Seq(Files), NEW op1 \in Ops, NEW op2 \in Ops
  PROVE  /\ ForEach(s, op1) \in Seq(Places)
         /\ Len(ForEach(s, op1)) = Len(s)
         /\ \A i \in 1 .. Len(s) : ForEach(s, op1)[i] = [op |-> op1, file |-> s[i]]
         /\ ForEachBoth(s, op1, op2) \in Seq(Places)
         /\ Len(ForEachBoth(s, op1, op2)) = 2 * Len(s)
         /\ \A i \in 1 .. 2 * Len(s) : ForEachBoth(s, op1, op2)[i] =
              [op |-> IF i % 2 = 1 THEN op1 ELSE op2, file |-> s[(i + 1) \div 2]]
<1> DEFINE n == Len(s)
<1>1. n \in Nat /\ DOMAIN s = 1 .. n /\ \A i \in 1 .. n : s[i] \in Files
  BY LenProperties, ElementOfSeq
<1>2. \A i \in 1 .. 2 * n : (i + 1) \div 2 \in 1 .. n
  BY <1>1
<1>3. /\ ForEach(s, op1) \in [1 .. n -> Places]
      /\ ForEachBoth(s, op1, op2) \in [1 .. 2 * n -> Places]
  BY <1>1, <1>2 DEF ForEach, ForEachBoth, Places
<1>4. 2 * n \in Nat
  BY <1>1
<1>5. /\ ForEach(s, op1) \in Seq(Places)
      /\ ForEachBoth(s, op1, op2) \in Seq(Places)
  <2>1. \A k \in Nat : [1 .. k -> Places] \subseteq Seq(Places)
    BY SeqDef
  <2>2. /\ [1 .. n -> Places] \subseteq Seq(Places)
        /\ [1 .. 2 * n -> Places] \subseteq Seq(Places)
    BY <1>1, <1>4, <2>1
  <2> QED BY <1>3, <2>2
<1>6. /\ Len(ForEach(s, op1)) = n
      /\ Len(ForEachBoth(s, op1, op2)) = 2 * n
  BY <1>1, <1>3, <1>4, <1>5, LenProperties DEF ForEach, ForEachBoth
<1> QED BY <1>1, <1>5, <1>6 DEF ForEach, ForEachBoth

(* Extraction on Linux and macOS: the libraries, each saved and mapped, the *)
(* other files saved, and on macOS the search path.                        *)
LEMMA UnixExtraction ==
  ASSUME platform \in Platforms, platform # "windows"
  PROVE  /\ Extraction \in Seq(Places)
         /\ \/ Len(Extraction) = 2 * NL + NR
            \/ /\ Len(Extraction) = 2 * NL + NR + 1
               /\ Extraction[2 * NL + NR + 1] = [op |-> "search_path", file |-> SdkLibrary]
         /\ \A i \in 1 .. 2 * NL : Extraction[i] =
              [op |-> IF i % 2 = 1 THEN "save" ELSE "dlopen", file |-> Libraries[(i + 1) \div 2]]
         /\ \A i \in 2 * NL + 1 .. 2 * NL + NR :
              Extraction[i] = [op |-> "save", file |-> Saved[i - 2 * NL]]
<1> DEFINE Both == ForEachBoth(Libraries, "save", "dlopen")
           Singles == ForEach(Saved, "save")
           Linux == Both \o Singles
<1>1. NL \in Nat /\ NR \in Nat /\ 2 * NL \in Nat
  BY Parts
<1>2. /\ Both \in Seq(Places) /\ Len(Both) = 2 * NL
      /\ \A i \in 1 .. 2 * NL : Both[i] =
           [op |-> IF i % 2 = 1 THEN "save" ELSE "dlopen", file |-> Libraries[(i + 1) \div 2]]
  <2>1. Libraries \in Seq(Files) /\ "save" \in Ops /\ "dlopen" \in Ops
    BY Parts DEF Ops
  <2> QED BY <2>1, ForEachPlaces DEF NL
<1>3. /\ Singles \in Seq(Places) /\ Len(Singles) = NR
      /\ \A i \in 1 .. NR : Singles[i] = [op |-> "save", file |-> Saved[i]]
  <2>1. Saved \in Seq(Files) /\ Len(Saved) = NR /\ "save" \in Ops
    BY Parts DEF Ops
  <2> QED BY <2>1, ForEachPlaces
<1>4. /\ AddDirectory \in Seq(Places) /\ Len(AddDirectory) = 1
      /\ AddDirectory[1] = [op |-> "search_path", file |-> SdkLibrary]
  <2>1. SdkLibrary \in Files
    BY TrampolineAssumption DEF Files
  <2> QED BY <2>1 DEF AddDirectory, Places, Ops
<1> HIDE DEF Both, Singles
<1>5. /\ Linux \in Seq(Places) /\ Len(Linux) = 2 * NL + NR
      /\ \A i \in 1 .. 2 * NL + NR : Linux[i] = IF i <= 2 * NL THEN Both[i] ELSE Singles[i - 2 * NL]
  BY <1>2, <1>3, ConcatProperties
<1>6. \A i \in 2 * NL + 1 .. 2 * NL + NR : Linux[i] = [op |-> "save", file |-> Saved[i - 2 * NL]]
  BY <1>1, <1>3, <1>5
<1>7. \A i \in 1 .. 2 * NL : Linux[i] = Both[i]
  BY <1>1, <1>5
<1> HIDE DEF Linux
<1>10. Linux \in Seq(Places) /\ Len(Linux) = 2 * NL + NR
  BY <1>5
<1>11. AddDirectory \in Seq(Places) /\ Len(AddDirectory) = 1
  BY <1>4
<1>8. CASE platform = "linux"
  <2>1. Extraction = Linux
    BY <1>8 DEF Extraction, LinuxExtraction, Saved, Linux, Both, Singles
  <2> QED BY <2>1, <1>2, <1>5, <1>6, <1>7
<1>9. CASE platform = "apple"
  <2>1. Extraction = Linux \o AddDirectory
    BY <1>9 DEF Extraction, AppleExtraction, Saved, Linux, Both, Singles
  <2>2. /\ Extraction \in Seq(Places) /\ Len(Extraction) = 2 * NL + NR + 1
        /\ \A i \in 1 .. Len(Linux) : Extraction[i] = Linux[i]
        /\ Extraction[2 * NL + NR + 1] = AddDirectory[1]
    <3>1. Linux \in Seq(Places) /\ AddDirectory \in Seq(Places) /\ Len(AddDirectory) = 1
      BY <1>10, <1>11
    <3> DEFINE E == Linux \o AddDirectory
    <3>2. /\ E \in Seq(Places) /\ Len(E) = Len(Linux) + 1
          /\ \A i \in 1 .. Len(Linux) : E[i] = Linux[i]
      BY <3>1, OneBehind
    <3>3. E[Len(Linux) + 1] = AddDirectory[1]
      BY <3>1, OneBehind, Zenon
    <3>4. Extraction = E
      BY <2>1 DEF E
    <3> HIDE DEF E
    <3> QED BY <3>2, <3>3, <3>4, <1>10, <1>11
  <2>3. Extraction[2 * NL + NR + 1] = [op |-> "search_path", file |-> SdkLibrary]
    BY <2>2, <1>4
  <2>4. \A i \in 1 .. 2 * NL + NR : Extraction[i] = Linux[i]
    BY <2>2, <1>10
  <2>5. \A i \in 1 .. 2 * NL : Extraction[i] = Both[i]
    BY <2>4, <1>7, <1>1
  <2>6. \A i \in 2 * NL + 1 .. 2 * NL + NR :
          Extraction[i] = [op |-> "save", file |-> Saved[i - 2 * NL]]
    BY <2>4, <1>6, <1>1
  <2> QED BY <2>2, <2>3, <2>5, <2>6, <1>2
<1> QED BY <1>8, <1>9, TrampolineAssumption

(* Extraction on Windows: every file saved, then the search path.          *)
LEMMA WindowsPlaces ==
  ASSUME platform = "windows"
  PROVE  /\ Extraction \in Seq(Places)
         /\ Len(Extraction) = NL + NR + 1
         /\ \A i \in 1 .. NL : Extraction[i] = [op |-> "save", file |-> Libraries[i]]
         /\ \A i \in 1 .. NR : Extraction[NL + i] = [op |-> "save", file |-> Saved[i]]
         /\ Extraction[NL + NR + 1] = [op |-> "search_path", file |-> SdkLibrary]
<1> DEFINE All == Libraries \o Saved
           Singles == ForEach(All, "save")
<1>1. NL \in Nat /\ NR \in Nat
  BY Parts
<1>2. /\ All \in Seq(Files) /\ Len(All) = NL + NR
      /\ \A i \in 1 .. NL + NR : All[i] = IF i <= NL THEN Libraries[i] ELSE Saved[i - NL]
  BY Parts, ConcatProperties DEF NL
<1>3. (Libraries \o Companions) \o Extensions = All
  BY Parts, ConcatAssociative DEF Saved
<1>4. /\ \A i \in 1 .. NL : All[i] = Libraries[i]
      /\ \A i \in 1 .. NR : All[NL + i] = Saved[i]
  BY <1>1, <1>2
<1> HIDE DEF All
<1>5. /\ Singles \in Seq(Places) /\ Len(Singles) = NL + NR
      /\ \A i \in 1 .. NL + NR : Singles[i] = [op |-> "save", file |-> All[i]]
  <2>1. "save" \in Ops
    BY DEF Ops
  <2> QED BY <1>2, <2>1, ForEachPlaces
<1>6. /\ AddDirectory \in Seq(Places) /\ Len(AddDirectory) = 1
      /\ AddDirectory[1] = [op |-> "search_path", file |-> SdkLibrary]
  <2>1. SdkLibrary \in Files
    BY TrampolineAssumption DEF Files
  <2> QED BY <2>1 DEF AddDirectory, Places, Ops
<1>7. Extraction = Singles \o AddDirectory
  BY <1>3 DEF Extraction, WindowsExtraction
<1> HIDE DEF Singles
<1>8. /\ Extraction \in Seq(Places) /\ Len(Extraction) = NL + NR + 1
      /\ \A i \in 1 .. NL + NR : Extraction[i] = Singles[i]
      /\ Extraction[NL + NR + 1] = AddDirectory[1]
  <2>1. Singles \in Seq(Places) /\ AddDirectory \in Seq(Places) /\ Len(AddDirectory) = 1
    BY <1>5, <1>6
  <2> DEFINE E == Singles \o AddDirectory
  <2>2. /\ E \in Seq(Places) /\ Len(E) = Len(Singles) + 1
        /\ \A i \in 1 .. Len(Singles) : E[i] = Singles[i]
    BY <2>1, OneBehind
  <2>3. E[Len(Singles) + 1] = AddDirectory[1]
    BY <2>1, OneBehind, Zenon
  <2>4. Extraction = E
    BY <1>7 DEF E
  <2> HIDE DEF E
  <2> QED BY <2>2, <2>3, <2>4, <1>5, <1>6
<1>9. Extraction[NL + NR + 1] = [op |-> "search_path", file |-> SdkLibrary]
  BY <1>8, <1>6
<1>10. \A i \in 1 .. NL + NR : Extraction[i] = [op |-> "save", file |-> All[i]]
  BY <1>8, <1>5
<1>11. /\ \A i \in 1 .. NL : Extraction[i] = [op |-> "save", file |-> Libraries[i]]
       /\ \A i \in 1 .. NR : Extraction[NL + i] = [op |-> "save", file |-> Saved[i]]
  BY <1>10, <1>4, <1>1
<1> QED BY <1>8, <1>9, <1>11

(* The script is the extraction, then the extensions.                      *)
LEMMA ScriptParts ==
  ASSUME platform \in Platforms
  PROVE  /\ Len(Extraction) \in Nat
         /\ Extraction \in Seq(Places)
         /\ Script \in Seq(Places)
         /\ Len(Script) = Len(Extraction) + 2 * NX
         /\ DOMAIN Script = 1 .. Len(Script)
         /\ \A i \in 1 .. Len(Extraction) : Script[i] = Extraction[i]
         /\ \A i \in 1 .. 2 * NX : Script[Len(Extraction) + i] =
              [op |-> IF i % 2 = 1 THEN "install" ELSE "load", file |-> Extensions[(i + 1) \div 2]]
<1>1. Extraction \in Seq(Places)
  BY UnixExtraction, WindowsPlaces
<1>2. /\ LoadExtensions \in Seq(Places) /\ Len(LoadExtensions) = 2 * NX
      /\ \A i \in 1 .. 2 * NX : LoadExtensions[i] =
           [op |-> IF i % 2 = 1 THEN "install" ELSE "load", file |-> Extensions[(i + 1) \div 2]]
  <2>1. Extensions \in Seq(Files) /\ "install" \in Ops /\ "load" \in Ops
    BY Parts DEF Ops
  <2> QED BY <2>1, ForEachPlaces DEF LoadExtensions, NX
<1>3. Len(Extraction) \in Nat /\ 2 * NX \in Nat
  BY <1>1, <1>2, LenProperties
<1>4. /\ Script \in Seq(Places) /\ Len(Script) = Len(Extraction) + 2 * NX
      /\ \A i \in 1 .. Len(Extraction) + 2 * NX : Script[i] =
           IF i <= Len(Extraction) THEN Extraction[i] ELSE LoadExtensions[i - Len(Extraction)]
  BY <1>1, <1>2, ConcatProperties DEF Script
<1>5. DOMAIN Script = 1 .. Len(Script)
  BY <1>4, LenProperties
<1>6. \A i \in 1 .. Len(Extraction) : Script[i] = Extraction[i]
  BY <1>3, <1>4
<1>7. \A i \in 1 .. 2 * NX : Script[Len(Extraction) + i] = LoadExtensions[i]
  BY <1>3, <1>4
<1> QED BY <1>1, <1>2, <1>3, <1>4, <1>5, <1>6, <1>7

(* Where the libraries and the other files are saved.                      *)
LibraryPlace(k) == IF platform = "windows" THEN k ELSE 2 * k - 1
OtherPlace(j) == IF platform = "windows" THEN NL + j ELSE 2 * NL + j
Save(f) == [op |-> "save", file |-> f]
Map(f)  == [op |-> "dlopen", file |-> f]
Path    == [op |-> "search_path", file |-> SdkLibrary]

LEMMA HalfOf ==
  /\ \A k \in Nat : (2 * k) % 2 = 0 /\ (2 * k + 1) \div 2 = k
  /\ \A k \in Nat \ {0} : (2 * k - 1) % 2 = 1 /\ ((2 * k - 1) + 1) \div 2 = k
  /\ \A i \in Nat \ {0} : \E k \in Nat \ {0} : i = 2 * k - 1 \/ i = 2 * k
<1>1. \A i \in Nat \ {0} : \E k \in Nat \ {0} : i = 2 * k - 1 \/ i = 2 * k
  <2> TAKE i \in Nat \ {0}
  <2> DEFINE k == (i + 1) \div 2
  <2>1. k \in Nat \ {0} /\ (i = 2 * k - 1 \/ i = 2 * k)
    OBVIOUS
  <2> QED BY <2>1
<1> QED BY <1>1

(* What the extraction does at each kind of place.                         *)
LEMMA ExtractionPlaces ==
  ASSUME platform \in Platforms
  PROVE  /\ \A k \in 1 .. NL :
              /\ LibraryPlace(k) \in 1 .. Len(Extraction)
              /\ Extraction[LibraryPlace(k)] = Save(Libraries[k])
              /\ platform # "windows" =>
                   2 * k \in 1 .. Len(Extraction) /\ Extraction[2 * k] = Map(Libraries[k])
         /\ \A j \in 1 .. NR :
              OtherPlace(j) \in 1 .. Len(Extraction) /\ Extraction[OtherPlace(j)] = Save(Saved[j])
         /\ platform = "windows" =>
              Len(Extraction) \in 1 .. Len(Extraction) /\ Extraction[Len(Extraction)] = Path
<1>1. NL \in Nat /\ NR \in Nat
  BY Parts
<1>2. CASE platform = "windows"
  <2>1. /\ Len(Extraction) = NL + NR + 1
        /\ \A i \in 1 .. NL : Extraction[i] = Save(Libraries[i])
        /\ \A i \in 1 .. NR : Extraction[NL + i] = Save(Saved[i])
        /\ Extraction[NL + NR + 1] = Path
    BY <1>2, WindowsPlaces DEF Save, Path
  <2>2. \A k \in Nat : LibraryPlace(k) = k /\ OtherPlace(k) = NL + k
    BY <1>2 DEF LibraryPlace, OtherPlace
  <2>3. /\ \A k \in 1 .. NL : k \in 1 .. NL + NR + 1
        /\ \A j \in 1 .. NR : NL + j \in 1 .. NL + NR + 1
        /\ NL + NR + 1 \in 1 .. NL + NR + 1
    BY <1>1
  <2>4. ASSUME NEW k \in 1 .. NL
        PROVE  /\ LibraryPlace(k) \in 1 .. Len(Extraction)
               /\ Extraction[LibraryPlace(k)] = Save(Libraries[k])
    <3>1. LibraryPlace(k) = k
      BY <1>1, <2>2
    <3> QED BY <2>1, <2>3, <3>1
  <2>5. ASSUME NEW j \in 1 .. NR
        PROVE  OtherPlace(j) \in 1 .. Len(Extraction) /\ Extraction[OtherPlace(j)] = Save(Saved[j])
    <3>1. OtherPlace(j) = NL + j
      BY <1>1, <2>2
    <3> QED BY <2>1, <2>3, <3>1
  <2>6. Len(Extraction) \in 1 .. Len(Extraction) /\ Extraction[Len(Extraction)] = Path
    BY <2>1, <2>3
  <2> QED BY <1>2, <2>4, <2>5, <2>6
<1>3. CASE platform # "windows"
  <2>1. /\ Len(Extraction) = 2 * NL + NR \/ Len(Extraction) = 2 * NL + NR + 1
        /\ \A i \in 1 .. 2 * NL : Extraction[i] =
             [op |-> IF i % 2 = 1 THEN "save" ELSE "dlopen", file |-> Libraries[(i + 1) \div 2]]
        /\ \A i \in 2 * NL + 1 .. 2 * NL + NR : Extraction[i] = Save(Saved[i - 2 * NL])
    BY <1>3, UnixExtraction DEF Save
  <2>2. \A k \in Nat : LibraryPlace(k) = 2 * k - 1 /\ OtherPlace(k) = 2 * NL + k
    BY <1>3 DEF LibraryPlace, OtherPlace
  <2>3. ASSUME NEW k \in 1 .. NL
        PROVE  /\ 2 * k - 1 \in 1 .. Len(Extraction) /\ 2 * k \in 1 .. Len(Extraction)
               /\ Extraction[2 * k - 1] = Save(Libraries[k])
               /\ Extraction[2 * k] = Map(Libraries[k])
    <3>1. /\ k \in Nat \ {0} /\ 2 * k - 1 \in 1 .. 2 * NL /\ 2 * k \in 1 .. 2 * NL
          /\ 2 * k - 1 \in 1 .. Len(Extraction) /\ 2 * k \in 1 .. Len(Extraction)
      BY <1>1, <2>1
    <3>2. /\ (2 * k) % 2 = 0 /\ (2 * k + 1) \div 2 = k
          /\ (2 * k - 1) % 2 = 1 /\ ((2 * k - 1) + 1) \div 2 = k
      BY <3>1, HalfOf
    <3>3. Extraction[2 * k - 1] = Save(Libraries[k])
      BY <2>1, <3>1, <3>2 DEF Save
    <3>4. Extraction[2 * k] = Map(Libraries[k])
      BY <2>1, <3>1, <3>2 DEF Map
    <3> QED BY <3>1, <3>3, <3>4
  <2>4. ASSUME NEW j \in 1 .. NR
        PROVE  2 * NL + j \in 1 .. Len(Extraction) /\ Extraction[2 * NL + j] = Save(Saved[j])
    <3>1. /\ 2 * NL + j \in 1 .. Len(Extraction)
          /\ 2 * NL + j \in 2 * NL + 1 .. 2 * NL + NR /\ (2 * NL + j) - 2 * NL = j
      BY <1>1, <2>1
    <3> QED BY <2>1, <3>1
  <2>5. \A k \in 1 .. NL : k \in Nat
    BY <1>1
  <2>6. \A j \in 1 .. NR : j \in Nat
    BY <1>1
  <2> QED BY <1>3, <2>2, <2>3, <2>4, <2>5, <2>6
<1> QED BY <1>2, <1>3

(* Every place of the extraction is of one of these kinds.                 *)
LEMMA ExtractionKinds ==
  ASSUME platform \in Platforms, NEW i \in 1 .. Len(Extraction)
  PROVE  \/ \E k \in 1 .. NL : i = LibraryPlace(k)
         \/ platform # "windows" /\ \E k \in 1 .. NL : i = 2 * k
         \/ \E j \in 1 .. NR : i = OtherPlace(j)
         \/ i = Len(Extraction) /\ Extraction[i] = Path
<1>1. NL \in Nat /\ NR \in Nat
  BY Parts
<1>2. CASE platform = "windows"
  <2>1. Len(Extraction) = NL + NR + 1 /\ Extraction[NL + NR + 1] = Path
    BY <1>2, WindowsPlaces DEF Path
  <2>2. \A k \in Nat : LibraryPlace(k) = k /\ OtherPlace(k) = NL + k
    BY <1>2 DEF LibraryPlace, OtherPlace
  <2>3. CASE i <= NL
    BY <1>1, <2>1, <2>2, <2>3
  <2>4. CASE i > NL /\ i <= NL + NR
    <3>1. i - NL \in 1 .. NR /\ i - NL \in Nat /\ i = NL + (i - NL)
      BY <1>1, <2>1, <2>4
    <3> QED BY <2>2, <3>1
  <2>5. CASE i > NL + NR
    BY <1>1, <2>1, <2>5
  <2> QED BY <1>1, <2>1, <2>3, <2>4, <2>5
<1>3. CASE platform # "windows"
  <2>1. \/ Len(Extraction) = 2 * NL + NR
        \/ Len(Extraction) = 2 * NL + NR + 1 /\ Extraction[2 * NL + NR + 1] = Path
    BY <1>3, UnixExtraction DEF Path
  <2>2. \A k \in Nat : LibraryPlace(k) = 2 * k - 1 /\ OtherPlace(k) = 2 * NL + k
    BY <1>3 DEF LibraryPlace, OtherPlace
  <2>3. CASE i <= 2 * NL
    <3>1. i \in Nat \ {0}
      BY <1>1, <2>1
    <3>2. PICK k \in Nat \ {0} : i = 2 * k - 1 \/ i = 2 * k
      BY <3>1, HalfOf
    <3>3. k \in 1 .. NL
      BY <1>1, <2>3, <3>2
    <3> QED BY <1>3, <2>2, <3>2, <3>3
  <2>4. CASE i > 2 * NL /\ i <= 2 * NL + NR
    <3>1. i - 2 * NL \in 1 .. NR /\ i - 2 * NL \in Nat /\ i = 2 * NL + (i - 2 * NL)
      BY <1>1, <2>1, <2>4
    <3> QED BY <2>2, <3>1
  <2>5. CASE i > 2 * NL + NR
    <3>1. Len(Extraction) = 2 * NL + NR + 1 /\ i = Len(Extraction)
      BY <1>1, <2>1, <2>5
    <3> QED BY <2>1, <3>1, <1>1
  <2> QED BY <1>1, <2>1, <2>3, <2>4, <2>5
<1> QED BY <1>2, <1>3

(* What the proofs below use of the script: places up to the end of the    *)
(* extraction save, map or add to the search path, the ones behind install *)
(* and load.                                                               *)
LEMMA ScriptPlaces ==
  ASSUME platform \in Platforms
  PROVE  /\ Len(Extraction) \in Nat /\ Len(Script) \in Nat /\ Len(Extraction) < Len(Script)
         /\ DOMAIN Script = 1 .. Len(Script)
         /\ \A i \in 1 .. Len(Script) : Script[i].file \in Files
         /\ \A i \in 1 .. Len(Extraction) :
              \/ \E f \in Files : SavesAt(i, f) \/ MapsAt(i, f)
              \/ i = Len(Extraction) /\ Script[i].op = "search_path"
         /\ \A i \in Len(Extraction) + 1 .. Len(Script) :
              Script[i].op \in {"install", "load"} /\ Script[i].file \in Elements(Extensions)
         /\ Script[Len(Script)].op = "load"
         /\ platform = "windows" =>
              Len(Extraction) >= 1 /\ Script[Len(Extraction)].op = "search_path"
<1>1. /\ Len(Extraction) \in Nat /\ Script \in Seq(Places)
      /\ Len(Script) = Len(Extraction) + 2 * NX
      /\ DOMAIN Script = 1 .. Len(Script)
      /\ \A i \in 1 .. Len(Extraction) : Script[i] = Extraction[i]
  BY ScriptParts
<1>2. \A i \in 1 .. 2 * NX : Script[Len(Extraction) + i] =
        [op |-> IF i % 2 = 1 THEN "install" ELSE "load", file |-> Extensions[(i + 1) \div 2]]
  BY ScriptParts
<1>3. NX \in Nat \ {0} /\ DOMAIN Extensions = 1 .. NX
  BY Parts
<1>4. Len(Script) \in Nat /\ Len(Extraction) < Len(Script)
  BY <1>1, <1>3
<1>5. ASSUME NEW i \in 1 .. Len(Script)
      PROVE  Script[i].file \in Files
  <2>1. Script[i] \in Places
    BY <1>1, ElementOfSeq
  <2> QED BY <2>1 DEF Places
<1>6. ASSUME NEW i \in 1 .. Len(Extraction)
      PROVE  \/ \E f \in Files : SavesAt(i, f) \/ MapsAt(i, f)
             \/ i = Len(Extraction) /\ Script[i].op = "search_path"
  <2>1. Script[i] = Extraction[i] /\ i \in DOMAIN Script
    BY <1>1, <1>4
  <2>2. /\ \A k \in 1 .. NL : Libraries[k] \in Files
        /\ \A j \in 1 .. NR : Saved[j] \in Files
    BY Parts, ElementOfSeq DEF NL
  <2>3. CASE \E k \in 1 .. NL : i = LibraryPlace(k)
    BY <2>1, <2>2, <2>3, ExtractionPlaces DEF SavesAt, Save
  <2>4. CASE platform # "windows" /\ \E k \in 1 .. NL : i = 2 * k
    BY <2>1, <2>2, <2>4, ExtractionPlaces DEF MapsAt, Map
  <2>5. CASE \E j \in 1 .. NR : i = OtherPlace(j)
    BY <2>1, <2>2, <2>5, ExtractionPlaces DEF SavesAt, Save
  <2>6. CASE i = Len(Extraction) /\ Extraction[i] = Path
    BY <2>1, <2>6 DEF Path
  <2> QED BY <2>3, <2>4, <2>5, <2>6, ExtractionKinds
<1>7. ASSUME NEW i \in Len(Extraction) + 1 .. Len(Script)
      PROVE  Script[i].op \in {"install", "load"} /\ Script[i].file \in Elements(Extensions)
  <2> DEFINE k == i - Len(Extraction)
  <2>1. k \in 1 .. 2 * NX /\ i = Len(Extraction) + k
    BY <1>1, <1>3
  <2> HIDE DEF k
  <2>2. (k + 1) \div 2 \in 1 .. NX
    BY <2>1, <1>3
  <2>3. Extensions[(k + 1) \div 2] \in Elements(Extensions)
    BY <2>2, <1>3 DEF Elements
  <2>4. Script[i] = [op |-> IF k % 2 = 1 THEN "install" ELSE "load",
                     file |-> Extensions[(k + 1) \div 2]]
    BY <1>2, <2>1
  <2> QED BY <2>3, <2>4
<1>8. Script[Len(Script)].op = "load"
  <2>1. 2 * NX \in 1 .. 2 * NX /\ (2 * NX) % 2 = 0
    BY <1>3, HalfOf
  <2> DEFINE n == 2 * NX
  <2>2. n \in 1 .. 2 * NX /\ n % 2 # 1 /\ Len(Script) = Len(Extraction) + n
    BY <2>1, <1>1
  <2> HIDE DEF n
  <2>3. Script[Len(Extraction) + n] = [op |-> "load", file |-> Extensions[(n + 1) \div 2]]
    BY <1>2, <2>2
  <2> QED BY <2>2, <2>3
<1>9. ASSUME platform = "windows"
      PROVE  Len(Extraction) >= 1 /\ Script[Len(Extraction)].op = "search_path"
  <2>1. Len(Extraction) \in 1 .. Len(Extraction) /\ Extraction[Len(Extraction)] = Path
    BY <1>9, ExtractionPlaces
  <2>2. Script[Len(Extraction)] = Path /\ Len(Extraction) >= 1
    BY <1>1, <2>1
  <2> QED BY <2>2 DEF Path
<1> QED BY <1>1, <1>4, <1>5, <1>6, <1>7, <1>8, <1>9

(* Every file is saved once, a library mapped right behind its saving, and *)
(* the SDK mapped, except on Windows.                                      *)
LEMMA EachFileSaved ==
  ASSUME platform \in Platforms
  PROVE  \A f \in Files : \E i \in 1 .. Len(Extraction) : SavesAt(i, f)
<1> TAKE f \in Files
<1>1. /\ \A i \in 1 .. Len(Extraction) : Script[i] = Extraction[i] /\ i \in DOMAIN Script
  BY ScriptParts, ScriptPlaces
<1>2. CASE \E k \in 1 .. NL : Libraries[k] = f
  <2>1. PICK k \in 1 .. NL : Libraries[k] = f
    BY <1>2
  <2>2. /\ LibraryPlace(k) \in 1 .. Len(Extraction)
        /\ Extraction[LibraryPlace(k)] = Save(Libraries[k])
    BY ExtractionPlaces
  <2> QED BY <1>1, <2>1, <2>2 DEF SavesAt, Save
<1>3. CASE \E j \in 1 .. NR : Saved[j] = f
  <2>1. PICK j \in 1 .. NR : Saved[j] = f
    BY <1>3
  <2>2. OtherPlace(j) \in 1 .. Len(Extraction) /\ Extraction[OtherPlace(j)] = Save(Saved[j])
    BY ExtractionPlaces
  <2> QED BY <1>1, <2>1, <2>2 DEF SavesAt, Save
<1> QED BY <1>2, <1>3, Listed

(* A place that saves f is the place of f.                                 *)
LEMMA PlaceOfFile ==
  ASSUME platform \in Platforms, NEW i, NEW f, SavesAt(i, f)
  PROVE  \/ \E k \in 1 .. NL : i = LibraryPlace(k) /\ f = Libraries[k]
         \/ \E j \in 1 .. NR : i = OtherPlace(j) /\ f = Saved[j]
<1>1. i \in DOMAIN Script /\ Script[i].op = "save" /\ Script[i].file = f
  BY DEF SavesAt
<1>2. i \in 1 .. Len(Extraction) /\ Script[i] = Extraction[i]
  <2>1. i \in 1 .. Len(Script) /\ Len(Extraction) \in Nat /\ Len(Script) \in Nat
    BY <1>1, ScriptPlaces
  <2>2. i \notin Len(Extraction) + 1 .. Len(Script)
    BY <1>1, ScriptPlaces
  <2>3. i \in 1 .. Len(Extraction)
    BY <2>1, <2>2
  <2> QED BY <2>3, ScriptParts
<1>3. CASE \E k \in 1 .. NL : i = LibraryPlace(k)
  <2>1. PICK k \in 1 .. NL : i = LibraryPlace(k)
    BY <1>3
  <2>2. Extraction[LibraryPlace(k)] = Save(Libraries[k])
    BY ExtractionPlaces
  <2>3. f = Libraries[k]
    BY <1>1, <1>2, <2>1, <2>2 DEF Save
  <2> QED BY <2>1, <2>3
<1>4. CASE platform # "windows" /\ \E k \in 1 .. NL : i = 2 * k
  <2>1. PICK k \in 1 .. NL : i = 2 * k
    BY <1>4
  <2>2. Extraction[2 * k] = Map(Libraries[k])
    BY <1>4, ExtractionPlaces
  <2> QED BY <1>1, <1>2, <2>1, <2>2 DEF Map
<1>5. CASE \E j \in 1 .. NR : i = OtherPlace(j)
  <2>1. PICK j \in 1 .. NR : i = OtherPlace(j)
    BY <1>5
  <2>2. Extraction[OtherPlace(j)] = Save(Saved[j])
    BY ExtractionPlaces
  <2>3. f = Saved[j]
    BY <1>1, <1>2, <2>1, <2>2 DEF Save
  <2> QED BY <2>1, <2>3
<1>6. CASE i = Len(Extraction) /\ Extraction[i] = Path
  BY <1>1, <1>2, <1>6 DEF Path
<1> QED BY <1>2, <1>3, <1>4, <1>5, <1>6, ExtractionKinds

LEMMA SavedOnce ==
  ASSUME platform \in Platforms, NEW i, NEW j, NEW f, SavesAt(i, f), SavesAt(j, f)
  PROVE  i = j
<1>1. \/ \E k \in 1 .. NL : i = LibraryPlace(k) /\ f = Libraries[k]
      \/ \E k \in 1 .. NR : i = OtherPlace(k) /\ f = Saved[k]
  BY PlaceOfFile
<1>2. \/ \E k \in 1 .. NL : j = LibraryPlace(k) /\ f = Libraries[k]
      \/ \E k \in 1 .. NR : j = OtherPlace(k) /\ f = Saved[k]
  BY PlaceOfFile
<1> QED BY <1>1, <1>2, Listed

LEMMA MappedBehindSaved ==
  ASSUME platform \in Platforms, NEW i, NEW f, MapsAt(i, f)
  PROVE  /\ platform # "windows"
         /\ i \in 2 .. Len(Extraction) /\ SavesAt(i - 1, f)
         /\ f \in Elements(Libraries) /\ f \notin Elements(Extensions)
<1>1. i \in DOMAIN Script /\ Script[i].op = "dlopen" /\ Script[i].file = f
  BY DEF MapsAt
<1>2. i \in 1 .. Len(Extraction) /\ Script[i] = Extraction[i]
  <2>1. i \in 1 .. Len(Script) /\ Len(Extraction) \in Nat /\ Len(Script) \in Nat
    BY <1>1, ScriptPlaces
  <2>2. i \notin Len(Extraction) + 1 .. Len(Script)
    BY <1>1, ScriptPlaces
  <2>3. i \in 1 .. Len(Extraction)
    BY <2>1, <2>2
  <2> QED BY <2>3, ScriptParts
<1>3. ASSUME NEW k \in 1 .. NL, i = LibraryPlace(k)
      PROVE  FALSE
  <2>1. Extraction[LibraryPlace(k)] = Save(Libraries[k])
    BY ExtractionPlaces
  <2> QED BY <1>1, <1>2, <1>3, <2>1 DEF Save
<1>4. ASSUME NEW j \in 1 .. NR, i = OtherPlace(j)
      PROVE  FALSE
  <2>1. Extraction[OtherPlace(j)] = Save(Saved[j])
    BY ExtractionPlaces
  <2> QED BY <1>1, <1>2, <1>4, <2>1 DEF Save
<1>5. ~ (i = Len(Extraction) /\ Extraction[i] = Path)
  BY <1>1, <1>2 DEF Path
<1>6. PICK k \in 1 .. NL : platform # "windows" /\ i = 2 * k
  <2>1. i \in 1 .. Len(Extraction)
    BY <1>2
  <2> QED BY <2>1, <1>3, <1>4, <1>5, ExtractionKinds
<1>7. /\ LibraryPlace(k) = i - 1
      /\ LibraryPlace(k) \in 1 .. Len(Extraction)
      /\ Extraction[LibraryPlace(k)] = Save(Libraries[k])
      /\ Extraction[2 * k] = Map(Libraries[k])
  <2>1. LibraryPlace(k) = 2 * k - 1
    BY <1>6 DEF LibraryPlace
  <2>2. LibraryPlace(k) = i - 1
    BY <1>6, <2>1
  <2> QED BY <2>2, <1>6, ExtractionPlaces
<1>8. f = Libraries[k]
  BY <1>1, <1>2, <1>6, <1>7 DEF Map
<1>9. SavesAt(i - 1, f)
  <2>1. i - 1 \in DOMAIN Script /\ Script[i - 1] = Extraction[i - 1]
    BY <1>7, ScriptPlaces, ScriptParts
  <2> QED BY <2>1, <1>7, <1>8 DEF SavesAt, Save
<1>10. f \in Elements(Libraries)
  BY <1>8, Parts DEF Elements
<1>11. f \notin Elements(Extensions)
  <2>1. \A x \in 1 .. NX : NR - NX + x \in 1 .. NR /\ Saved[NR - NX + x] = Extensions[x]
    BY Parts
  <2> QED BY <2>1, <1>8, Listed, Parts DEF Elements
<1>12. i \in 2 .. Len(Extraction)
  BY <1>2, <1>7, ScriptPlaces
<1> QED BY <1>6, <1>9, <1>10, <1>11, <1>12

LEMMA LibrariesMapped ==
  ASSUME platform \in Platforms, platform # "windows"
  PROVE  \A f \in Elements(Libraries) : \E i \in 1 .. Len(Extraction) : MapsAt(i, f)
<1> TAKE f \in Elements(Libraries)
<1>1. PICK k \in 1 .. NL : f = Libraries[k]
  BY Parts DEF Elements
<1>2. 2 * k \in 1 .. Len(Extraction) /\ Extraction[2 * k] = Map(Libraries[k])
  BY ExtractionPlaces
<1>3. 2 * k \in DOMAIN Script /\ Script[2 * k] = Extraction[2 * k]
  BY <1>2, ScriptPlaces, ScriptParts
<1> QED BY <1>1, <1>2, <1>3 DEF MapsAt, Map

-----------------------------------------------------------------------------
(* The place of a process in the script.                                   *)

LEMMA WhereAt ==
  ASSUME TypeOK, NEW d \in Databases, at[d] # 0
  PROVE  /\ at[d] \in 1 .. Len(Script) /\ File(d) \in Files
         /\ At(d, "save") => at[d] \in 1 .. Len(Extraction) /\ SavesAt(at[d], File(d))
         /\ At(d, "save") /\ platform = "windows" => at[d] < Len(Extraction)
         /\ At(d, "dlopen") => at[d] \in 1 .. Len(Extraction) /\ MapsAt(at[d], File(d))
         /\ At(d, "search_path") => at[d] = Len(Extraction)
         /\ At(d, "install") => at[d] \in Len(Extraction) + 1 .. Len(Script) - 1
         /\ At(d, "load") => at[d] \in Len(Extraction) + 1 .. Len(Script)
         /\ At(d, "install") \/ At(d, "load") => File(d) \in Elements(Extensions)
<1> DEFINE i == at[d]
           op == Script[i].op
<1>1. platform \in Platforms /\ i \in 0 .. Len(Script) /\ i # 0
  BY DEF TypeOK
<1>2. /\ Len(Extraction) \in Nat /\ Len(Script) \in Nat /\ Len(Extraction) < Len(Script)
      /\ DOMAIN Script = 1 .. Len(Script)
  BY <1>1, ScriptPlaces
<1>3. i \in 1 .. Len(Script) /\ File(d) \in Files
  BY <1>1, <1>2, ScriptPlaces DEF File
<1>4. \A o : At(d, o) <=> op = o
  BY <1>1 DEF At
<1>5. \A f : SavesAt(i, f) => op = "save" /\ f = File(d)
  BY DEF SavesAt, File
<1>6. \A f : MapsAt(i, f) => op = "dlopen" /\ f = File(d)
  BY DEF MapsAt, File
<1> HIDE DEF i, op
<1>7. CASE i \in 1 .. Len(Extraction)
  <2>1. \/ \E f \in Files : SavesAt(i, f) \/ MapsAt(i, f)
        \/ i = Len(Extraction) /\ op = "search_path"
    BY <1>1, <1>7, ScriptPlaces DEF op
  <2>2. op = "save" /\ platform = "windows" => i < Len(Extraction)
    <3>1. platform = "windows" => Script[Len(Extraction)].op = "search_path"
      BY <1>1, ScriptPlaces
    <3> QED BY <1>2, <1>7, <3>1 DEF op
  <2> QED BY <1>2, <1>3, <1>4, <1>5, <1>6, <1>7, <2>1, <2>2 DEF i
<1>8. CASE i \in Len(Extraction) + 1 .. Len(Script)
  <2>1. op \in {"install", "load"} /\ File(d) \in Elements(Extensions)
    BY <1>1, <1>8, ScriptPlaces DEF op, i, File
  <2>2. op = "install" => i # Len(Script)
    <3>1. Script[Len(Script)].op = "load"
      BY <1>1, ScriptPlaces
    <3> QED BY <3>1 DEF op
  <2> QED BY <1>2, <1>3, <1>4, <1>8, <2>1, <2>2 DEF i
<1> QED BY <1>2, <1>3, <1>7, <1>8

LEMMA SameScript ==
  ASSUME platform' = platform
  PROVE  /\ Extraction' = Extraction /\ Script' = Script
         /\ \A i, f : (SavesAt(i, f)' <=> SavesAt(i, f)) /\ (MapsAt(i, f)' <=> MapsAt(i, f))
         /\ \A f : Early(f)' <=> Early(f)
<1>1. Extraction' = Extraction
  BY DEF Extraction
<1>2. Script' = Script
  BY <1>1 DEF Script
<1>3. \A i, f : (SavesAt(i, f)' <=> SavesAt(i, f)) /\ (MapsAt(i, f)' <=> MapsAt(i, f))
  BY <1>2 DEF SavesAt, MapsAt
<1>4. \A f : Early(f)' <=> Early(f)
  BY <1>2, <1>3 DEF Early
<1> QED BY <1>1, <1>2, <1>3, <1>4

(* No step turns a file into an old one.                                   *)
NoneOlder == \A f \in Files : disk[f] # "old" => disk'[f] # "old"

(* Neither e nor its process has a part in the step.                       *)
Aside(e) ==
  LET p == Home[e]
  IN  /\ at'[e] = at[e] /\ writing'[e] = writing[e]
      /\ search_path'[e] = search_path[e] /\ outcome'[e] = outcome[e] /\ alone'[e] = FALSE
      /\ \A c \in Siblings(e) : at'[c] = at[c]
      /\ mapped'[p] = mapped[p] /\ unsaved'[p] = unsaved[p]
      /\ overlapped'[p] = overlapped[p]
      /\ \A f \in damaged'[p] : f \in damaged[p] \/ Has(p, f)

LEMMA AsideKept ==
  ASSUME Inv, NEW e \in Databases, platform' = platform, Aside(e), NoneOlder,
         loads' \in Nat, loads <= loads'
  PROVE  Solo(e)' /\ DatabaseInv(e)'
<1>0. PICK p \in Processes : p = Home[e]
  BY TrampolineAssumption
<1> USE <1>0
<1>1. TypeOK /\ DatabaseInv(e)
  BY DEF Inv
<1>2. /\ Extraction' = Extraction /\ Script' = Script
      /\ \A i, f : (SavesAt(i, f)' <=> SavesAt(i, f)) /\ (MapsAt(i, f)' <=> MapsAt(i, f))
      /\ \A f : Early(f)' <=> Early(f)
  BY SameScript
<1>3. \A f : Has(p, f)' <=> Has(p, f)
  BY DEF Has, Aside
<1>4. Extracting(e)' <=> Extracting(e)
  BY <1>2 DEF Extracting, Aside
<1>5. Open(e)'
  <2>1. SUFFICES ASSUME writing[e]
                 PROVE  At(e, "save")' /\ disk'[File(e)'] # "old"
    BY DEF Open, Aside
  <2>2. At(e, "save") /\ disk[File(e)] # "old"
    BY <1>1, <2>1 DEF DatabaseInv, Open
  <2>3. At(e, "save")' /\ File(e)' = File(e)
    BY <1>2, <2>2 DEF At, File, Aside
  <2>4. File(e) \in Files
    BY <1>1, <2>2, WhereAt DEF At
  <2> QED BY <2>2, <2>3, <2>4 DEF NoneOlder
<1>6. Searched(e)'
  <2>1. search_path[e] \in Nat /\ loads \in Nat
    BY <1>1, TrampolineAssumption DEF TypeOK
  <2> QED BY <1>1, <1>4, <2>1 DEF DatabaseInv, Searched, Aside
<1>7. Harmed(e)'
  BY <1>1, <1>3 DEF DatabaseInv, Harmed, Aside
<1>8. Order(e)'
  BY <1>1, <1>2, <1>3, <1>4 DEF DatabaseInv, Order, Aside
<1>9. Renewed(e)'
  BY <1>1, <1>2, <1>3 DEF DatabaseInv, Renewed, Aside, NoneOlder
<1>10. Running(e)' /\ Current(e)'
  BY <1>1 DEF DatabaseInv, Running, Current, Aside
<1>11. Alone(e)'
  BY DEF Alone, Aside
<1>12. Solo(e)'
  <2>1. Solo(e)
    BY DEF Inv
  <2> QED BY <2>1 DEF Solo, Aside, Siblings
<1> QED BY <1>5, <1>6, <1>7, <1>8, <1>9, <1>10, <1>11, <1>12 DEF DatabaseInv


(* The step is one of a LOAD in d, or its beginning.                       *)
OnlyMoves(d) ==
  /\ \A e \in Databases \ {d} :
       /\ at'[e] = at[e] /\ writing'[e] = writing[e]
       /\ search_path'[e] = search_path[e] /\ outcome'[e] = outcome[e] /\ alone'[e] = FALSE
  /\ \A q \in Processes \ {Home[d]} :
       /\ mapped'[q] = mapped[q] /\ unsaved'[q] = unsaved[q]
       /\ overlapped'[q] = overlapped[q]
       /\ \A f \in damaged'[q] : f \in damaged[q] \/ Has(q, f)
  /\ \/ at[d] # 0 /\ overlapped'[Home[d]] = overlapped[Home[d]]
     \/ ~ overlapped'[Home[d]] => \A e \in Siblings(d) : at[e] = 0

(* The other databases, in the process of d, whose LOADs do not overlap    *)
(* unless it is recorded, and in other processes.                          *)
LEMMA OthersKept ==
  ASSUME Inv, NEW d \in Databases, platform' = platform, OnlyMoves(d), NoneOlder,
         loads' \in Nat, loads <= loads', DatabaseInv(d)'
  PROVE  \A e \in Databases : Solo(e)' /\ DatabaseInv(e)'
<1>0. PICK p \in Processes : p = Home[d]
  BY TrampolineAssumption
<1> USE <1>0
<1>1. TypeOK
  BY DEF Inv
<1>2. /\ Extraction' = Extraction /\ Script' = Script
      /\ \A i, f : (SavesAt(i, f)' <=> SavesAt(i, f)) /\ (MapsAt(i, f)' <=> MapsAt(i, f))
      /\ \A f : Early(f)' <=> Early(f)
  BY SameScript
<1>3. ~ overlapped'[p] => \A e \in Siblings(d) : at[e] = 0 /\ at'[e] = 0
  <2>1. Solo(d)
    BY DEF Inv
  <2> QED BY <2>1 DEF OnlyMoves, Solo, Siblings
<1>4. Solo(d)'
  BY <1>3 DEF Solo, Siblings
<1>5. ASSUME NEW e \in Databases \ {d}, Home[e] = p
      PROVE  Solo(e)' /\ DatabaseInv(e)'
  <2>1. /\ DatabaseInv(e) /\ e \in Siblings(d)
        /\ at'[e] = at[e] /\ writing'[e] = writing[e] /\ search_path'[e] = search_path[e]
        /\ outcome'[e] = outcome[e] /\ alone'[e] = FALSE
    BY <1>5 DEF Inv, OnlyMoves, Siblings
  <2>2. Open(e)'
    <3>1. SUFFICES ASSUME writing[e]
                   PROVE  At(e, "save")' /\ disk'[File(e)'] # "old"
      BY <2>1 DEF Open
    <3>2. At(e, "save") /\ disk[File(e)] # "old"
      BY <2>1, <3>1 DEF DatabaseInv, Open
    <3>3. At(e, "save")' /\ File(e)' = File(e)
      BY <1>2, <2>1, <3>2 DEF At, File
    <3>4. File(e) \in Files
      BY <1>1, <3>2, WhereAt DEF At
    <3> QED BY <3>2, <3>3, <3>4 DEF NoneOlder
  <2>3. Searched(e)'
    <3>1. search_path[e] \in Nat /\ loads \in Nat
      BY <1>1, TrampolineAssumption DEF TypeOK
    <3>2. Extracting(e)' <=> Extracting(e)
      BY <1>2, <2>1 DEF Extracting
    <3> QED BY <2>1, <3>1, <3>2 DEF DatabaseInv, Searched
  <2>4. Harmed(e)' /\ Current(e)'
    BY <1>5 DEF DatabaseInv, Harmed, Current
  <2>5. Running(e)' /\ Alone(e)'
    BY <2>1 DEF DatabaseInv, Running, Alone
  <2>6. ~ overlapped'[p] => at'[e] = 0 /\ ~ Extracting(e)'
    BY <1>3, <2>1 DEF Extracting
  <2>7. Order(e)'
    BY <1>5, <2>6 DEF DatabaseInv, Order
  <2>8. Renewed(e)'
    <3>1. d \in Siblings(e) /\ \A c \in Siblings(d) : c = e \/ c \in Siblings(e)
      BY <1>5 DEF Siblings
    <3>2. SUFFICES ASSUME ~ unsaved'[p], ~ overlapped'[p], at'[d] = 0, Has(p, SdkLibrary)'
                   PROVE  \A f \in Files : disk'[f] # "old"
      BY <1>5, <2>6, <3>1 DEF Renewed, Siblings
    <3> QED BY <1>3, <3>2 DEF DatabaseInv, Renewed, Siblings
  <2>9. Solo(e)'
    BY <1>5, <2>6 DEF Solo
  <2> QED BY <2>2, <2>3, <2>4, <2>5, <2>7, <2>8, <2>9 DEF DatabaseInv
<1>6. ASSUME NEW e \in Databases, Home[e] # p
      PROVE  Solo(e)' /\ DatabaseInv(e)'
  <2>1. Aside(e)
    BY <1>6, TrampolineAssumption DEF OnlyMoves, Aside, Siblings
  <2> QED BY <2>1, AsideKept
<1> QED BY <1>4, <1>5, <1>6

-----------------------------------------------------------------------------
LEMMA InitInv == Init => Inv
<1> SUFFICES ASSUME Init
             PROVE  Inv
  OBVIOUS
<1>1. /\ platform \in Platforms /\ loads = 0 /\ faults = 0
      /\ Len(Script) \in Nat
  BY ScriptPlaces DEF Init
<1>2. disk \in [Files -> {"absent", "partial"} \cup Complete]
  BY DEF Init, Complete
<1>3. mapped \in [Processes -> [Files -> {"no"} \cup Complete]]
  BY DEF Init, Unmapped
<1>4. TypeOK
  BY <1>1, <1>2, <1>3, TrampolineAssumption DEF Init, TypeOK
<1>5. ASSUME NEW d \in Databases
      PROVE  Solo(d) /\ DatabaseInv(d)
  <2>0. PICK p \in Processes : p = Home[d]
    BY TrampolineAssumption
  <2> USE <2>0
  <2>1. /\ at[d] = 0 /\ writing[d] = FALSE /\ mapped[p] = Unmapped /\ damaged[p] = {}
        /\ search_path[d] = 0 /\ outcome[d] = "none" /\ unsaved[p] = FALSE /\ alone[d] = FALSE
    BY DEF Init
  <2>2. \A f \in Files : ~ Has(p, f) /\ mapped[p][f] = "no"
    BY <2>1 DEF Has, Unmapped
  <2>3. ~ Extracting(d)
    BY <2>1 DEF Extracting
  <2>4. SdkLibrary \in Files /\ Elements(Extensions) \subseteq Files
    BY TrampolineAssumption DEF Files
  <2>5. Open(d) /\ Searched(d) /\ Harmed(d)
    BY <1>1, <2>1, <2>3 DEF Open, Searched, Harmed
  <2>6. Order(d) /\ Renewed(d) /\ Running(d) /\ Current(d) /\ Alone(d)
    BY <2>1, <2>2, <2>3, <2>4 DEF Order, Renewed, Running, Current, Alone
  <2>7. Solo(d)
    BY <2>1 DEF Solo
  <2> QED BY <2>5, <2>6, <2>7 DEF DatabaseInv
<1> QED BY <1>4, <1>5 DEF Inv

ScriptStays ==
  /\ platform \in Platforms
  /\ Extraction' = Extraction /\ Script' = Script
  /\ \A i, f : (SavesAt(i, f)' <=> SavesAt(i, f)) /\ (MapsAt(i, f)' <=> MapsAt(i, f))
  /\ \A f : Early(f)' <=> Early(f)
  /\ Len(Extraction) \in Nat /\ Len(Script) \in Nat /\ Len(Extraction) < Len(Script)
  /\ DOMAIN Script = 1 .. Len(Script)
  /\ platform = "windows" => Len(Extraction) >= 1

LEMMA ScriptKept ==
  ASSUME TypeOK, platform' = platform
  PROVE  ScriptStays
<1>1. platform \in Platforms
  BY DEF TypeOK
<1> QED BY <1>1, SameScript, ScriptPlaces DEF ScriptStays

(* The steps.  The mover d is looked at; OthersKept does for the others.   *)
LEMMA LoadInternalInv ==
  ASSUME Inv, NEW d \in Databases, LoadInternal(d)
  PROVE  Inv'
<1>0. PICK p \in Processes : p = Home[d]
  BY TrampolineAssumption
<1> USE <1>0
<1>1. TypeOK /\ DatabaseInv(d)
  BY DEF Inv
<1>2. platform' = platform
  BY DEF LoadInternal
<1>3. ScriptStays
  BY <1>1, <1>2, ScriptKept
<1> USE DEF ScriptStays
<1>4. /\ Len(Extraction) \in Nat /\ Len(Script) \in Nat /\ Len(Extraction) < Len(Script)
      /\ DOMAIN Script = 1 .. Len(Script)
      /\ platform = "windows" => Len(Extraction) >= 1
  BY <1>3
<1>5. /\ at[d] = 0 /\ loads < MaxLoads /\ loads' = loads + 1
      /\ disk' = disk /\ writing' = writing /\ mapped' = mapped /\ damaged' = damaged
      /\ search_path' = search_path /\ unsaved' = unsaved /\ faults' = faults
      /\ outcome' = [outcome EXCEPT ![d] = "none"]
  BY DEF LoadInternal
<1>6. /\ overlapped' \in [Processes -> BOOLEAN]
      /\ \A q \in Processes : q # p => overlapped'[q] = overlapped[q]
      /\ ~ overlapped'[p] => ~ overlapped[p] /\ \A e \in Siblings(d) : at[e] = 0
  <2>1. overlapped' = [overlapped EXCEPT ![p] = @ \/ Loading(p) # {}]
    BY DEF LoadInternal
  <2> QED BY <1>1, <2>1 DEF TypeOK, Loading, Siblings
<1>7. /\ at' = [at EXCEPT ![d] = IF SapLibsAlreadyLoaded(p) THEN FirstInstall ELSE 1]
      /\ FirstInstall = Len(Extraction) + 1
  BY DEF LoadInternal, ExtractExtensionsAndSapLibs, GoTo, FirstInstall
<1>8. loads \in Nat /\ loads' \in 0 .. MaxLoads /\ MaxLoads \in Nat
  BY <1>1, <1>5, TrampolineAssumption DEF TypeOK
<1>9. TypeOK'
  <2>1. at' \in [Databases -> 0 .. Len(Script)]
    BY <1>1, <1>4, <1>7 DEF TypeOK
  <2>2. alone' \in [Databases -> BOOLEAN]
    BY <1>1 DEF LoadInternal, TypeOK
  <2> QED BY <1>1, <1>2, <1>3, <1>5, <1>8, <1>6, <2>1, <2>2 DEF TypeOK
<1>10. at'[d] = IF SapLibsAlreadyLoaded(p) THEN Len(Extraction) + 1 ELSE 1
  BY <1>1, <1>7 DEF TypeOK
<1>11. \A f : Has(p, f)' <=> Has(p, f)
  BY <1>5 DEF Has
<1>12. SdkLibrary \in Files /\ (SapLibsAlreadyLoaded(p) <=> platform # "windows" /\ Has(p, SdkLibrary))
  BY TrampolineAssumption DEF Files, SapLibsAlreadyLoaded
<1>13. Open(d)' /\ Searched(d)' /\ Harmed(d)' /\ Running(d)' /\ Current(d)'
  <2>1. ~ writing[d]
    BY <1>1, <1>5 DEF DatabaseInv, Open, At
  <2>2. outcome'[d] = "none"
    BY <1>1, <1>5 DEF TypeOK
  <2>3. search_path[d] \in Nat /\ search_path[d] <= loads
    BY <1>1, <1>8 DEF TypeOK, DatabaseInv, Searched
  <2>4. Searched(d)'
    BY <1>5, <1>8, <2>3 DEF Searched
  <2> QED BY <1>1, <1>5, <1>6, <1>11, <2>1, <2>2, <2>4 DEF DatabaseInv, Open, Harmed, Running, Current
<1>14. Order(d)'
  <2>1. SUFFICES ASSUME platform # "windows", ~ overlapped'[p]
                 PROVE  Order(d)'
    BY <1>2 DEF Order
  <2>2. ~ Has(p, SdkLibrary) => \A f \in Files : Has(p, f) => Early(f)
    BY <1>1, <1>6, <2>1 DEF DatabaseInv, Order
  <2>3. Extracting(d)' => ~ Has(p, SdkLibrary) /\ at'[d] = 1
    BY <1>3, <1>4, <1>10, <1>12, <2>1 DEF Extracting
  <2> QED BY <1>2, <1>3, <1>4, <1>11, <2>2, <2>3 DEF Order
<1>15. Renewed(d)'
  <2>1. CASE SapLibsAlreadyLoaded(p)
    BY <1>1, <1>4, <1>5, <1>10, <1>12, <1>6, <2>1 DEF DatabaseInv, Renewed
  <2>2. CASE ~ SapLibsAlreadyLoaded(p)
    BY <1>3, <1>4, <1>10, <2>2 DEF Renewed
  <2> QED BY <2>1, <2>2
<1>16. Alone(d)'
  <2>1. SUFFICES ASSUME alone'[d]
                 PROVE  Alone(d)'
    BY DEF Alone
  <2>2. /\ mapped[p] = Unmapped
        /\ \A e \in Databases : at[e] = 0
        /\ \A q \in Processes : platform = "windows" => mapped[q] = Unmapped
    BY <2>1 DEF LoadInternal
  <2>3. \A f \in Files : ~ Has(p, f)
    BY <2>2 DEF Has, Unmapped
  <2>4. damaged[p] = {}
    BY <1>1, <2>3 DEF DatabaseInv, Harmed, TypeOK
  <2>5. at'[d] = 1
    BY <1>10, <1>12, <2>3
  <2>6. /\ \A e \in Databases \ {d} : at'[e] = 0
        /\ \A q \in Processes \ {p} : platform' = "windows" => mapped'[q] = Unmapped
    BY <1>1, <1>2, <1>5, <1>7, <2>2 DEF TypeOK
  <2>7. outcome'[d] = "none"
    BY <1>1, <1>5 DEF TypeOK
  <2>8. /\ \A i \in DOMAIN Script : ~ (i < 1)
        /\ platform = "windows" => ~ (1 > Len(Extraction))
    BY <1>4
  <2> QED BY <1>2, <1>3, <1>5, <1>11, <2>3, <2>4, <2>5, <2>6, <2>7, <2>8 DEF Alone
<1>17. DatabaseInv(d)'
  BY <1>13, <1>14, <1>15, <1>16 DEF DatabaseInv
<1>18. OnlyMoves(d)
  BY <1>1, <1>5, <1>7, <1>6 DEF OnlyMoves, TypeOK, LoadInternal
<1>19. NoneOlder /\ loads' \in Nat /\ loads <= loads'
  BY <1>5, <1>8 DEF NoneOlder
<1> QED BY <1>2, <1>9, <1>17, <1>18, <1>19, OthersKept DEF Inv

(* On Linux and macOS nothing to come is mapped yet once the SDK is, and a *)
(* LOAD that is alone has mapped nothing it has not saved: no file it opens *)
(* is mapped by its process.                                               *)
LEMMA OpensUnmapped ==
  ASSUME Inv, NEW d \in Databases, At(d, "save"), Alone(d), alone[d]
  PROVE  ~ Has(Home[d], File(d))
<1>0. PICK p \in Processes : p = Home[d]
  BY TrampolineAssumption
<1> USE <1>0
<1>1. TypeOK /\ platform \in Platforms
  BY DEF Inv, TypeOK
<1>2. at[d] \in 1 .. Len(Extraction) /\ SavesAt(at[d], File(d)) /\ File(d) \in Files
  BY <1>1, WhereAt DEF At
<1>3. ASSUME Has(p, File(d))
      PROVE  FALSE
  <2>1. PICK i \in DOMAIN Script : i < at[d] /\ MapsAt(i, File(d))
    BY <1>2, <1>3 DEF Alone, Extracting
  <2>2. i \in 2 .. Len(Extraction) /\ SavesAt(i - 1, File(d))
    BY <1>1, <2>1, MappedBehindSaved
  <2>3. i - 1 = at[d]
    BY <1>1, <1>2, <2>2, SavedOnce
  <2>4. Len(Extraction) \in Nat
    BY <1>1, ScriptPlaces
  <2> QED BY <1>2, <2>1, <2>2, <2>3, <2>4
<1> QED BY <1>3

LEMMA OpenFileInv ==
  ASSUME Inv, NEW d \in Databases, OpenFile(d)
  PROVE  Inv'
<1>0. PICK p \in Processes : p = Home[d]
  BY TrampolineAssumption
<1> USE <1>0
<1>1. TypeOK /\ DatabaseInv(d)
  BY DEF Inv
<1>2. platform' = platform
  BY DEF OpenFile
<1>3. ScriptStays
  BY <1>1, <1>2, ScriptKept
<1> USE DEF ScriptStays
<1> DEFINE f == File(d)
<1>4. /\ At(d, "save") /\ ~ writing[d]
      /\ at' = at /\ mapped' = mapped /\ search_path' = search_path /\ outcome' = outcome
      /\ unsaved' = unsaved /\ overlapped' = overlapped
      /\ loads' = loads /\ faults' = faults
      /\ disk' = [disk EXCEPT ![f] = "partial"]
      /\ writing' = [writing EXCEPT ![d] = TRUE]
      /\ damaged' = [q \in Processes |-> IF Has(q, f) THEN damaged[q] \cup {f} ELSE damaged[q]]
      /\ alone' = [e \in Databases |-> alone[e] /\ e = d]
  BY DEF OpenFile, Moves
<1>5. at[d] # 0 /\ at[d] \in 1 .. Len(Extraction) /\ SavesAt(at[d], f) /\ f \in Files
  BY <1>1, <1>4, WhereAt DEF At
<1> HIDE DEF f
<1>6. /\ disk'[f] = "partial" /\ \A g \in Files : g # f => disk'[g] = disk[g]
      /\ writing'[d] = TRUE
  BY <1>1, <1>4, <1>5 DEF TypeOK
<1>7. NoneOlder
  BY <1>6 DEF NoneOlder
<1>8. TypeOK'
  <2>1. disk' \in [Files -> {"absent", "partial"} \cup Complete]
    BY <1>1, <1>4 DEF TypeOK
  <2>2. damaged' \in [Processes -> SUBSET Files]
    BY <1>1, <1>4, <1>5 DEF TypeOK
  <2>3. writing' \in [Databases -> BOOLEAN] /\ alone' \in [Databases -> BOOLEAN]
    BY <1>1, <1>4 DEF TypeOK
  <2> QED BY <1>1, <1>2, <1>3, <1>4, <2>1, <2>2, <2>3 DEF TypeOK
<1>9. /\ \A g : Has(p, g)' <=> Has(p, g)
      /\ Extracting(d)' <=> Extracting(d)
  BY <1>3, <1>4 DEF Has, Extracting
<1>10. Open(d)'
  <2>1. At(d, "save")' /\ File(d)' = f
    BY <1>3, <1>4 DEF At, File, f
  <2> QED BY <1>6, <2>1 DEF Open
<1>11. Searched(d)' /\ Running(d)' /\ Current(d)'
  BY <1>1, <1>4, <1>9 DEF DatabaseInv, Searched, Running, Current
<1>12. Harmed(d)'
  BY <1>1, <1>4, <1>9 DEF DatabaseInv, Harmed
<1>13. Order(d)'
  BY <1>1, <1>2, <1>3, <1>4, <1>9 DEF DatabaseInv, Order
<1>14. Renewed(d)'
  BY <1>1, <1>3, <1>4, <1>7, <1>9 DEF DatabaseInv, Renewed, NoneOlder
<1>15. Alone(d)'
  <2>1. SUFFICES ASSUME alone[d]
                 PROVE  Alone(d)'
    BY <1>4 DEF Alone
  <2>2. Alone(d)
    BY <1>1 DEF DatabaseInv
  <2>3. damaged'[p] = {}
    <3>1. ~ Has(p, f)
      BY <1>4, <2>1, <2>2, OpensUnmapped DEF f
    <3> QED BY <1>4, <2>1, <2>2, <3>1 DEF Alone
  <2>4. ASSUME NEW i \in DOMAIN Script, NEW g \in Files, SavesAt(i, g), i < at[d]
        PROVE  disk'[g] = "this"
    <3>1. disk[g] = "this"
      BY <1>5, <2>1, <2>2, <2>4 DEF Alone
    <3>2. g # f
      <4>1. ASSUME g = f
            PROVE  FALSE
        <5>1. i = at[d]
          BY <1>3, <1>5, <2>4, <4>1, SavedOnce
        <5> QED BY <1>3, <1>5, <2>4, <5>1
      <4> QED BY <4>1
    <3> QED BY <1>6, <3>1, <3>2
  <2>5. outcome'[d] = "none"
    BY <1>1, <1>4, <1>5 DEF DatabaseInv, Running
  <2> QED BY <1>2, <1>3, <1>4, <1>9, <2>1, <2>2, <2>3, <2>4, <2>5 DEF Alone
<1>16. DatabaseInv(d)'
  BY <1>10, <1>11, <1>12, <1>13, <1>14, <1>15 DEF DatabaseInv
<1>17. OnlyMoves(d)
  BY <1>1, <1>4, <1>5 DEF OnlyMoves, TypeOK
<1>18. loads' \in Nat /\ loads <= loads'
  BY <1>1, <1>4, TrampolineAssumption DEF TypeOK
<1> QED BY <1>2, <1>7, <1>8, <1>16, <1>17, <1>18, OthersKept DEF Inv

(* A file that cannot be opened ends the extraction on Linux and macOS; on *)
(* Windows it is left out, and alone no file is taken.                     *)
LEMMA OpenFailsInv ==
  ASSUME Inv, NEW d \in Databases, OpenFails(d)
  PROVE  Inv'
<1>0. PICK p \in Processes : p = Home[d]
  BY TrampolineAssumption
<1> USE <1>0
<1>1. TypeOK /\ DatabaseInv(d)
  BY DEF Inv
<1>2. platform' = platform
  BY DEF OpenFails
<1>3. ScriptStays
  BY <1>1, <1>2, ScriptKept
<1> USE DEF ScriptStays
<1>4. /\ At(d, "save") /\ ~ writing[d]
      /\ disk' = disk /\ writing' = writing /\ mapped' = mapped /\ damaged' = damaged
      /\ search_path' = search_path /\ outcome' = outcome /\ loads' = loads
      /\ unsaved' = [unsaved EXCEPT ![p] = TRUE] /\ overlapped' = overlapped
      /\ faults' \in 0 .. MaxFaults
  BY <1>1, TrampolineAssumption DEF OpenFails, Faults, Caught, TypeOK
<1>5. /\ at[d] # 0 /\ at[d] \in 1 .. Len(Extraction) /\ SavesAt(at[d], File(d))
      /\ File(d) \in Files
      /\ platform = "windows" => at[d] < Len(Extraction)
  BY <1>1, <1>4, WhereAt DEF At
<1>6. /\ at' = [at EXCEPT ![d] = at'[d]]
      /\ at'[d] = IF platform = "windows" THEN at[d] + 1 ELSE Len(Extraction) + 1
  BY <1>1 DEF OpenFails, Caught, GoTo, FirstInstall, TypeOK
<1>7. /\ alone' \in [Databases -> BOOLEAN]
      /\ \A e \in Databases : e # d => alone'[e] = FALSE
      /\ ~ alone'[d]
  <2>1. \/ alone' = [e \in Databases |-> FALSE]
        \/ /\ alone' = [e \in Databases |-> alone[e] /\ e = d]
           /\ platform = "windows" /\ \E q \in Processes : Has(q, File(d))
    BY DEF OpenFails, Moves
  <2>2. ASSUME alone[d], platform = "windows", NEW q \in Processes, Has(q, File(d))
        PROVE  FALSE
    <3>1. Alone(d) /\ alone[d]
      BY <1>1, <2>2 DEF DatabaseInv
    <3>2. q # p
      BY <1>4, <2>2, <3>1, OpensUnmapped
    <3>3. mapped[q] = Unmapped
      BY <2>2, <3>1, <3>2 DEF Alone
    <3> QED BY <1>5, <2>2, <3>3 DEF Has, Unmapped
  <2> QED BY <1>1, <2>1, <2>2 DEF TypeOK
<1>8. TypeOK'
  <2>1. at' \in [Databases -> 0 .. Len(Script)]
    BY <1>1, <1>3, <1>5, <1>6 DEF TypeOK
  <2> QED BY <1>1, <1>2, <1>3, <1>4, <1>7, <2>1 DEF TypeOK
<1>9. unsaved'[p] = TRUE
  BY <1>1, <1>4 DEF TypeOK
<1>10. \A g : Has(p, g)' <=> Has(p, g)
  BY <1>4 DEF Has
<1>11. Open(d)' /\ Searched(d)' /\ Harmed(d)' /\ Running(d)' /\ Current(d)' /\ Renewed(d)'
  <2>1. Searched(d)'
    BY <1>1, <1>4, <1>5 DEF DatabaseInv, Searched, Extracting
  <2>2. Running(d)'
    BY <1>1, <1>4, <1>5 DEF DatabaseInv, Running
  <2> QED BY <1>1, <1>4, <1>9, <1>10, <2>1, <2>2 DEF DatabaseInv, Open, Harmed, Current, Renewed
<1>12. Order(d)'
  <2>1. SUFFICES ASSUME platform # "windows"
                 PROVE  Order(d)'
    BY <1>2 DEF Order
  <2>2. ~ Extracting(d)'
    BY <1>3, <1>6, <2>1 DEF Extracting
  <2> QED BY <1>1, <1>3, <1>4, <1>10, <2>1, <2>2 DEF DatabaseInv, Order
<1>13. Alone(d)'
  BY <1>7 DEF Alone
<1>14. DatabaseInv(d)'
  BY <1>11, <1>12, <1>13 DEF DatabaseInv
<1>15. OnlyMoves(d)
  BY <1>1, <1>4, <1>6, <1>7, <1>5 DEF OnlyMoves, TypeOK
<1>16. NoneOlder /\ loads' \in Nat /\ loads <= loads'
  BY <1>1, <1>4, TrampolineAssumption DEF TypeOK, NoneOlder
<1> QED BY <1>2, <1>8, <1>14, <1>15, <1>16, OthersKept DEF Inv

LEMMA WriteFileInv ==
  ASSUME Inv, NEW d \in Databases, WriteFile(d)
  PROVE  Inv'
<1>0. PICK p \in Processes : p = Home[d]
  BY TrampolineAssumption
<1> USE <1>0
<1>1. TypeOK /\ DatabaseInv(d)
  BY DEF Inv
<1>2. platform' = platform
  BY DEF WriteFile
<1>3. ScriptStays
  BY <1>1, <1>2, ScriptKept
<1> USE DEF ScriptStays
<1> DEFINE f == File(d)
<1>4. /\ writing[d]
      /\ mapped' = mapped /\ damaged' = damaged /\ search_path' = search_path
      /\ outcome' = outcome /\ unsaved' = unsaved /\ overlapped' = overlapped /\ loads' = loads
      /\ writing' = [writing EXCEPT ![d] = FALSE]
      /\ at' = [at EXCEPT ![d] = at[d] + 1]
      /\ \/ disk' = [disk EXCEPT ![f] = "this"] /\ faults' = faults
            /\ alone' = [e \in Databases |-> alone[e] /\ e = d]
         \/ disk' = disk /\ faults' = faults + 1 /\ faults < MaxFaults
            /\ alone' = [e \in Databases |-> FALSE]
  BY DEF WriteFile, Moves, Faults, GoTo
<1>5. /\ At(d, "save") /\ disk[f] # "old" /\ at[d] # 0
      /\ at[d] \in 1 .. Len(Extraction) /\ SavesAt(at[d], f) /\ f \in Files
      /\ platform = "windows" => at[d] < Len(Extraction)
  <2>1. At(d, "save") /\ disk[f] # "old" /\ at[d] # 0
    BY <1>1, <1>4 DEF DatabaseInv, Open, At
  <2> QED BY <1>1, <2>1, WhereAt
<1> HIDE DEF f
<1>6. /\ \A g \in Files : g # f => disk'[g] = disk[g]
      /\ disk'[f] = "this" \/ (disk'[f] = disk[f] /\ ~ alone'[d])
  <2>1. CASE disk' = [disk EXCEPT ![f] = "this"]
    BY <1>1, <1>5, <2>1 DEF TypeOK
  <2>2. CASE disk' = disk /\ alone' = [e \in Databases |-> FALSE]
    BY <2>2
  <2> QED BY <1>4, <2>1, <2>2
<1>7. NoneOlder
  BY <1>5, <1>6 DEF NoneOlder
<1>8. at'[d] = at[d] + 1 /\ writing'[d] = FALSE
  BY <1>1, <1>4 DEF TypeOK
<1>9. TypeOK'
  <2>1. disk' \in [Files -> {"absent", "partial"} \cup Complete]
    BY <1>1, <1>4 DEF TypeOK, Complete
  <2>2. at' \in [Databases -> 0 .. Len(Script)]
    BY <1>1, <1>3, <1>4, <1>5 DEF TypeOK
  <2>3. writing' \in [Databases -> BOOLEAN] /\ alone' \in [Databases -> BOOLEAN]
    BY <1>1, <1>4 DEF TypeOK
  <2>4. faults' \in 0 .. MaxFaults
    BY <1>1, <1>4, TrampolineAssumption DEF TypeOK
  <2> QED BY <1>1, <1>2, <1>3, <1>4, <2>1, <2>2, <2>3, <2>4 DEF TypeOK
<1>10. \A g : Has(p, g)' <=> Has(p, g)
  BY <1>4 DEF Has
<1>11. Extracting(d)
  BY <1>5 DEF Extracting
<1>12. /\ \A i \in DOMAIN Script : i < at'[d] => i < at[d] \/ i = at[d]
       /\ \A i \in DOMAIN Script : i >= at'[d] => i >= at[d]
       /\ \A i \in DOMAIN Script : i < at[d] => i < at'[d]
       /\ at'[d] # 0
  BY <1>3, <1>5, <1>8
<1>13. \A g : SavesAt(at[d], g) => g = f
  BY <1>5 DEF SavesAt
<1>14. \A g : ~ MapsAt(at[d], g)
  BY <1>5 DEF SavesAt, MapsAt
<1>15. Open(d)' /\ Searched(d)' /\ Harmed(d)' /\ Running(d)' /\ Current(d)'
  <2>1. Searched(d)'
    BY <1>1, <1>4, <1>11 DEF DatabaseInv, Searched
  <2>2. Running(d)'
    BY <1>1, <1>4, <1>5 DEF DatabaseInv, Running
  <2> QED BY <1>1, <1>4, <1>8, <1>10, <2>1, <2>2 DEF DatabaseInv, Open, Harmed, Current
<1>16. Order(d)'
  BY <1>1, <1>2, <1>3, <1>4, <1>10, <1>11, <1>12, <1>14 DEF DatabaseInv, Order
<1>17. Renewed(d)'
  <2>1. disk'[f] # "old"
    BY <1>5, <1>6
  <2> QED BY <1>1, <1>3, <1>4, <1>5, <1>7, <1>12, <1>13, <2>1 DEF DatabaseInv, Renewed, NoneOlder
<1>18. Alone(d)'
  <2>1. SUFFICES ASSUME alone'[d]
                 PROVE  Alone(d)'
    BY DEF Alone
  <2>2. alone[d] /\ disk'[f] = "this" /\ Alone(d)
    BY <1>1, <1>4, <1>6, <2>1 DEF DatabaseInv
  <2>3. /\ \A e \in Databases \ {d} : at'[e] = 0
        /\ \A q \in Processes \ {p} : platform' = "windows" => mapped'[q] = Unmapped
    BY <1>1, <1>2, <1>4, <2>2 DEF TypeOK, Alone
  <2>4. ASSUME NEW i \in DOMAIN Script, NEW g \in Files, SavesAt(i, g), i < at'[d]
        PROVE  disk'[g] = "this"
    BY <1>5, <1>6, <1>12, <1>13, <2>2, <2>4 DEF Alone
  <2>5. ASSUME NEW i \in DOMAIN Script, NEW g \in Files, MapsAt(i, g), i < at'[d]
        PROVE  Has(p, g)
    BY <1>5, <1>12, <1>14, <2>2, <2>5 DEF Alone
  <2>6. \A g \in Files : Has(p, g) => \E i \in DOMAIN Script : i < at'[d] /\ MapsAt(i, g)
    BY <1>11, <1>12, <2>2 DEF Alone
  <2>7. outcome'[d] = "none"
    BY <1>1, <1>4, <1>5 DEF DatabaseInv, Running
  <2>8. platform = "windows" => ~ (at'[d] > Len(Extraction))
    BY <1>3, <1>5, <1>8
  <2> QED BY <1>2, <1>3, <1>4, <1>10, <2>2, <2>3, <2>4, <2>5, <2>6, <2>7, <2>8 DEF Alone
<1>19. DatabaseInv(d)'
  BY <1>15, <1>16, <1>17, <1>18 DEF DatabaseInv
<1>20. OnlyMoves(d)
  BY <1>1, <1>4, <1>5 DEF OnlyMoves, TypeOK
<1>21. loads' \in Nat /\ loads <= loads'
  BY <1>1, <1>4, TrampolineAssumption DEF TypeOK
<1> QED BY <1>2, <1>7, <1>9, <1>19, <1>20, <1>21, OthersKept DEF Inv

(* Mapping the SDK: without it one has mapped only what precedes it, and   *)
(* what precedes it is saved before.                                       *)
LEMMA EarlyIsSaved ==
  ASSUME platform \in Platforms, NEW i, MapsAt(i, SdkLibrary),
         NEW f, Early(f), NEW k, SavesAt(k, f)
  PROVE  k < i
<1>1. PICK a \in DOMAIN Script, b \in DOMAIN Script :
        a < b /\ MapsAt(a, f) /\ MapsAt(b, SdkLibrary)
  BY DEF Early
<1>2. /\ a \in 2 .. Len(Extraction) /\ SavesAt(a - 1, f)
      /\ b \in 2 .. Len(Extraction) /\ SavesAt(b - 1, SdkLibrary)
      /\ i \in 2 .. Len(Extraction) /\ SavesAt(i - 1, SdkLibrary)
  BY <1>1, MappedBehindSaved
<1>3. b - 1 = i - 1 /\ k = a - 1
  BY <1>2, SavedOnce
<1>4. Len(Extraction) \in Nat
  BY ScriptPlaces
<1> QED BY <1>1, <1>2, <1>3, <1>4

LEMMA LoadLibraryFromFileInv ==
  ASSUME Inv, NEW d \in Databases, LoadLibraryFromFile(d)
  PROVE  Inv'
<1>0. PICK p \in Processes : p = Home[d]
  BY TrampolineAssumption
<1> USE <1>0
<1>1. TypeOK /\ DatabaseInv(d)
  BY DEF Inv
<1>2. platform' = platform
  BY DEF LoadLibraryFromFile
<1>3. ScriptStays
  BY <1>1, <1>2, ScriptKept
<1> USE DEF ScriptStays
<1> DEFINE f == File(d)
           i == at[d]
<1>4. /\ At(d, "dlopen")
      /\ disk' = disk /\ writing' = writing /\ damaged' = damaged
      /\ search_path' = search_path /\ outcome' = outcome /\ loads' = loads
      /\ faults' = faults /\ overlapped' = overlapped
      /\ alone' = [e \in Databases |-> alone[e] /\ e = d]
  BY DEF LoadLibraryFromFile, Moves
<1>5. \/ /\ Has(p, f) /\ at' = [at EXCEPT ![d] = i + 1]
         /\ mapped' = mapped /\ unsaved' = unsaved
      \/ /\ ~ Has(p, f) /\ disk[f] \in Complete /\ at' = [at EXCEPT ![d] = i + 1]
         /\ mapped' = [mapped EXCEPT ![p][f] = disk[f]] /\ unsaved' = unsaved
      \/ /\ ~ Has(p, f) /\ disk[f] \notin Complete
         /\ at' = [at EXCEPT ![d] = Len(Extraction) + 1]
         /\ unsaved' = [unsaved EXCEPT ![p] = TRUE] /\ mapped' = mapped
  BY DEF LoadLibraryFromFile, Caught, GoTo, FirstInstall
<1>6. i # 0 /\ i \in 1 .. Len(Extraction) /\ MapsAt(i, f) /\ f \in Files
  BY <1>1, <1>4, WhereAt DEF At
<1>7. /\ platform # "windows" /\ i \in 2 .. Len(Extraction) /\ SavesAt(i - 1, f)
      /\ f \notin Elements(Extensions)
  BY <1>3, <1>6, MappedBehindSaved
<1> HIDE DEF f
<1>8. /\ i \in Nat /\ at \in [Databases -> 0 .. Len(Script)]
      /\ i + 1 \in 0 .. Len(Script) /\ Len(Extraction) + 1 \in 0 .. Len(Script)
      /\ mapped \in [Processes -> [Files -> {"no"} \cup Complete]]
      /\ unsaved \in [Processes -> BOOLEAN]
      /\ \A q \in Processes : \A g : Has(q, g) <=> mapped[q][g] # "no"
      /\ \A q \in Processes : \A g : Has(q, g)' <=> mapped'[q][g] # "no"
      /\ "no" \notin Complete
  BY <1>1, <1>3, <1>6 DEF TypeOK, Has, Complete
<1> HIDE DEF i
<1>9. /\ mapped' \in [Processes -> [Files -> {"no"} \cup Complete]]
      /\ \A g \in Files : g # f => mapped'[p][g] = mapped[p][g]
      /\ Has(p, f) => mapped'[p][f] = mapped[p][f]
      /\ \A q \in Processes : q # p => mapped'[q] = mapped[q]
  <2>1. CASE mapped' = mapped
    BY <1>8, <2>1
  <2>2. CASE ~ Has(p, f) /\ disk[f] \in Complete /\ mapped' = [mapped EXCEPT ![p][f] = disk[f]]
    BY <1>6, <1>8, <2>2
  <2> QED BY <1>5, <2>1, <2>2
<1>10. /\ at'[d] \in {i + 1, Len(Extraction) + 1} /\ at'[d] # 0
       /\ \A e \in Databases : e # d => at'[e] = at[e]
       /\ \A q \in Processes : q # p => unsaved'[q] = unsaved[q]
       /\ at' \in [Databases -> 0 .. Len(Script)]
       /\ unsaved' \in [Processes -> BOOLEAN]
  <2>1. i + 1 # 0 /\ Len(Extraction) + 1 # 0
    BY <1>3, <1>8
  <2>2. CASE at' = [at EXCEPT ![d] = i + 1] /\ unsaved' = unsaved
    BY <1>8, <2>1, <2>2
  <2>3. CASE /\ at' = [at EXCEPT ![d] = Len(Extraction) + 1]
             /\ unsaved' = [unsaved EXCEPT ![p] = TRUE]
    BY <1>8, <2>1, <2>3
  <2> QED BY <1>5, <2>2, <2>3
<1>11. \A g \in Files : (g # f => (Has(p, g)' <=> Has(p, g))) /\ (Has(p, g) => Has(p, g)')
  BY <1>6, <1>8, <1>9
<1>12. disk[f] \in Complete => at'[d] = i + 1 /\ mapped'[p][f] # "no" /\ unsaved' = unsaved
  <2>1. CASE mapped' = mapped /\ Has(p, f) /\ at' = [at EXCEPT ![d] = i + 1] /\ unsaved' = unsaved
    <3>1. mapped[p][f] # "no"
      BY <1>8, <2>1
    <3> QED BY <1>8, <2>1, <3>1
  <2>2. CASE /\ disk[f] \in Complete /\ mapped' = [mapped EXCEPT ![p][f] = disk[f]]
             /\ at' = [at EXCEPT ![d] = i + 1] /\ unsaved' = unsaved
    <3>1. mapped'[p][f] = disk[f]
      BY <1>6, <1>8, <2>2
    <3> QED BY <1>8, <2>2, <3>1
  <2> QED BY <1>5, <2>1, <2>2
<1>13. ~ unsaved'[p] \/ Extracting(d)' =>
         at'[d] = i + 1 /\ mapped'[p][f] # "no" /\ unsaved'[p] = unsaved[p]
  <2>1. CASE mapped' = mapped /\ Has(p, f) /\ at' = [at EXCEPT ![d] = i + 1] /\ unsaved' = unsaved
    <3>1. mapped[p][f] # "no"
      BY <1>8, <2>1
    <3> QED BY <1>8, <2>1, <3>1
  <2>2. CASE disk[f] \in Complete
    BY <1>12, <2>2
  <2>3. CASE /\ at' = [at EXCEPT ![d] = Len(Extraction) + 1]
             /\ unsaved' = [unsaved EXCEPT ![p] = TRUE]
    <3>1. unsaved'[p] = TRUE /\ at'[d] = Len(Extraction) + 1
      BY <1>8, <2>3
    <3>2. ~ Extracting(d)'
      BY <1>3, <3>1 DEF Extracting
    <3> QED BY <3>1, <3>2
  <2> QED BY <1>5, <2>1, <2>2, <2>3
<1>14. TypeOK'
  <2>1. alone' \in [Databases -> BOOLEAN]
    BY <1>1, <1>4 DEF TypeOK
  <2> QED BY <1>1, <1>2, <1>3, <1>4, <1>9, <1>10, <2>1 DEF TypeOK
<1>15. /\ \A j \in DOMAIN Script : j < i + 1 => j < i \/ j = i
       /\ \A j \in DOMAIN Script : j >= i + 1 => j >= i /\ j > i
       /\ Extracting(d)
  BY <1>3, <1>6, <1>8 DEF Extracting, i
<1>16. \A g : (SavesAt(i, g) => FALSE) /\ (MapsAt(i, g) => g = f)
  BY <1>6 DEF SavesAt, MapsAt
<1>17. Open(d)' /\ Searched(d)' /\ Harmed(d)' /\ Running(d)'
  <2>1. ~ writing'[d]
    BY <1>1, <1>4 DEF DatabaseInv, Open, At
  <2>2. Harmed(d)'
    BY <1>1, <1>4, <1>11 DEF TypeOK, DatabaseInv, Harmed
  <2>3. Running(d)'
    BY <1>1, <1>4, <1>6 DEF DatabaseInv, Running, i
  <2>4. Searched(d)'
    BY <1>1, <1>4, <1>15 DEF DatabaseInv, Searched
  <2> QED BY <2>1, <2>2, <2>3, <2>4 DEF Open
<1>18. Current(d)'
  <2>1. \A g \in Elements(Extensions) : g \in Files /\ g # f
    BY <1>7 DEF Files
  <2> QED BY <1>1, <1>4, <1>9, <1>13, <2>1 DEF DatabaseInv, Current
<1>19. Order(d)'
  <2>0. SUFFICES ASSUME ~ overlapped[p]
                 PROVE  Order(d)'
    BY <1>4 DEF Order
  <2>1. /\ ~ Has(p, SdkLibrary) => \A g \in Files : Has(p, g) => Early(g)
        /\ \A j \in DOMAIN Script, g \in Files :
             /\ MapsAt(j, g) /\ j < i => Has(p, g)
             /\ Has(p, SdkLibrary) /\ SavesAt(j, g) /\ j >= i => ~ Has(p, g)
    BY <1>1, <1>7, <1>15, <2>0 DEF DatabaseInv, Order, i
  <2>2. SdkLibrary \in Files /\ SdkLibrary \in Elements(Libraries)
    BY TrampolineAssumption DEF Files
  <2>3. PICK s \in 1 .. Len(Extraction) : MapsAt(s, SdkLibrary)
    BY <1>3, <1>7, <2>2, LibrariesMapped
  <2>4. s \in DOMAIN Script /\ i \in DOMAIN Script
    BY <1>3, <1>6, <2>3
  <2>5. ~ Has(p, SdkLibrary)' => \A g \in Files : Has(p, g)' => Early(g)
    <3>1. SUFFICES ASSUME ~ Has(p, SdkLibrary)', NEW g \in Files, Has(p, g)'
                   PROVE  Early(g)
      OBVIOUS
    <3>2. ~ Has(p, SdkLibrary)
      BY <1>11, <2>2, <3>1
    <3>3. CASE g # f
      BY <1>11, <2>1, <3>1, <3>2, <3>3
    <3>4. CASE g = f
      <4>1. ~ (s < i)
        BY <2>1, <2>2, <2>4, <2>3, <3>2
      <4>2. s # i
        BY <1>16, <2>3, <3>1, <3>4
      <4>3. i < s
        BY <1>6, <2>3, <4>1, <4>2, <1>3
      <4> QED BY <1>6, <2>3, <2>4, <3>4, <4>3 DEF Early
    <3> QED BY <3>3, <3>4
  <2>6. ASSUME NEW j \in DOMAIN Script, NEW g \in Files, MapsAt(j, g), j < at'[d],
               Extracting(d)'
        PROVE  Has(p, g)'
    <3>1. j < i \/ j = i
      BY <1>15, <1>13, <2>6
    <3>2. CASE j < i
      BY <1>11, <2>1, <2>6, <3>2
    <3>3. CASE j = i
      <4>1. g = f
        BY <1>16, <2>6, <3>3
      <4> QED BY <1>8, <1>13, <2>6, <4>1
    <3> QED BY <3>1, <3>2, <3>3
  <2>7. ASSUME NEW j \in DOMAIN Script, NEW g \in Files, SavesAt(j, g), j >= at'[d],
               Extracting(d)', Has(p, SdkLibrary)', Has(p, g)'
        PROVE  FALSE
    <3>1. j > i /\ j >= i
      BY <1>15, <1>13, <2>7
    <3>2. g # f
      <4>1. ASSUME g = f
            PROVE  FALSE
        <5>1. j = i - 1
          BY <1>3, <1>7, <2>7, <4>1, SavedOnce
        <5> QED BY <1>3, <1>6, <3>1, <5>1
      <4> QED BY <4>1
    <3>3. Has(p, g)
      BY <1>11, <2>7, <3>2
    <3>4. CASE Has(p, SdkLibrary)
      BY <2>1, <2>7, <3>1, <3>3, <3>4
    <3>5. CASE ~ Has(p, SdkLibrary)
      <4>1. f = SdkLibrary
        BY <1>11, <2>2, <2>7, <3>5
      <4>2. Early(g)
        BY <2>1, <3>3, <3>5
      <4>3. j < i
        BY <1>3, <1>6, <2>7, <4>1, <4>2, EarlyIsSaved
      <4> QED BY <1>3, <1>6, <3>1, <4>3
    <3> QED BY <3>4, <3>5
  <2> QED BY <1>3, <2>5, <2>6, <2>7 DEF Order
<1>20. Renewed(d)'
  BY <1>1, <1>3, <1>4, <1>6, <1>10, <1>15, <1>16, <1>13 DEF DatabaseInv, Renewed, i
<1>21. Alone(d)'
  <2>1. SUFFICES ASSUME alone'[d]
                 PROVE  Alone(d)'
    BY DEF Alone
  <2>2. alone[d] /\ Alone(d)
    BY <1>1, <1>4, <2>1 DEF DatabaseInv
  <2>3. disk[f] = "this"
    <3>1. i - 1 \in DOMAIN Script /\ i - 1 < i
      BY <1>3, <1>7
    <3> QED BY <1>6, <1>7, <2>2, <3>1 DEF Alone, i
  <2>4. at'[d] = i + 1 /\ mapped'[p][f] # "no"
    BY <1>12, <2>3 DEF Complete
  <2>5. \A e \in Databases \ {d} : at'[e] = 0
    BY <1>10, <2>2 DEF Alone
  <2>6. ASSUME NEW j \in DOMAIN Script, NEW g \in Files, SavesAt(j, g), j < at'[d]
        PROVE  disk'[g] = "this"
    BY <1>4, <1>6, <1>15, <1>16, <2>2, <2>4, <2>6 DEF Alone, i
  <2>7. ASSUME NEW j \in DOMAIN Script, NEW g \in Files, MapsAt(j, g), j < at'[d]
        PROVE  Has(p, g)'
    <3>1. CASE j < i
      BY <1>6, <1>11, <2>2, <2>7, <3>1 DEF Alone, i
    <3>2. CASE j = i
      <4>1. g = f
        BY <1>16, <2>7, <3>2
      <4> QED BY <1>8, <2>4, <4>1
    <3> QED BY <1>15, <2>4, <2>7, <3>1, <3>2
  <2>8. ASSUME NEW g \in Files, Has(p, g)'
        PROVE  \E j \in DOMAIN Script : j < at'[d] /\ MapsAt(j, g)
    <3>1. CASE g = f
      <4>1. i \in DOMAIN Script /\ i < at'[d]
        BY <1>3, <1>6, <2>4
      <4> QED BY <1>6, <3>1, <4>1
    <3>2. CASE g # f
      <4>1. PICK j \in DOMAIN Script : j < i /\ MapsAt(j, g)
        BY <1>11, <1>15, <2>2, <2>8, <3>2 DEF Alone, i
      <4>2. j < at'[d]
        BY <1>3, <1>6, <2>4, <4>1
      <4> QED BY <4>1, <4>2
    <3> QED BY <3>1, <3>2
  <2>9. outcome'[d] = "none"
    BY <1>1, <1>4, <1>6 DEF DatabaseInv, Running, i
  <2> QED BY <1>2, <1>3, <1>4, <1>7, <2>2, <2>5, <2>6, <2>7, <2>8, <2>9 DEF Alone
<1>22. DatabaseInv(d)'
  BY <1>17, <1>18, <1>19, <1>20, <1>21 DEF DatabaseInv
<1>23. OnlyMoves(d)
  BY <1>1, <1>4, <1>9, <1>10, <1>6 DEF OnlyMoves, TypeOK, i
<1>24. NoneOlder /\ loads' \in Nat /\ loads <= loads'
  BY <1>1, <1>4, TrampolineAssumption DEF TypeOK, NoneOlder
<1> QED BY <1>2, <1>14, <1>22, <1>23, <1>24, OthersKept DEF Inv

LEMMA ModifyPathInv ==
  ASSUME Inv, NEW d \in Databases, ModifyPath(d)
  PROVE  Inv'
<1>0. PICK p \in Processes : p = Home[d]
  BY TrampolineAssumption
<1> USE <1>0
<1>1. TypeOK /\ DatabaseInv(d)
  BY DEF Inv
<1>2. platform' = platform
  BY DEF ModifyPath
<1>3. ScriptStays
  BY <1>1, <1>2, ScriptKept
<1> USE DEF ScriptStays
<1>4. /\ At(d, "search_path")
      /\ disk' = disk /\ writing' = writing /\ mapped' = mapped /\ damaged' = damaged
      /\ outcome' = outcome /\ unsaved' = unsaved /\ overlapped' = overlapped
      /\ loads' = loads /\ faults' = faults
      /\ search_path' = [search_path EXCEPT ![d] = @ + 1]
      /\ at' = [at EXCEPT ![d] = at[d] + 1]
      /\ alone' = [e \in Databases |-> alone[e] /\ e = d]
  BY DEF ModifyPath, Moves, GoTo
<1>5. at[d] # 0 /\ at[d] = Len(Extraction) /\ Extracting(d)
  <2>1. at[d] # 0 /\ at[d] = Len(Extraction)
    BY <1>1, <1>4, WhereAt DEF At
  <2> QED BY <1>3, <2>1 DEF Extracting
<1>6. /\ at'[d] = Len(Extraction) + 1 /\ search_path'[d] = search_path[d] + 1
      /\ search_path[d] \in Nat /\ search_path[d] < loads /\ loads \in Nat /\ loads <= MaxLoads
      /\ MaxLoads \in Nat
  BY <1>1, <1>4, <1>5, TrampolineAssumption DEF TypeOK, DatabaseInv, Searched
<1>7. TypeOK'
  <2>1. at' \in [Databases -> 0 .. Len(Script)]
    BY <1>1, <1>3, <1>4, <1>5 DEF TypeOK
  <2>2. search_path' \in [Databases -> 0 .. MaxLoads]
    BY <1>1, <1>4, <1>6 DEF TypeOK
  <2>3. alone' \in [Databases -> BOOLEAN]
    BY <1>1, <1>4 DEF TypeOK
  <2> QED BY <1>1, <1>2, <1>3, <1>4, <2>1, <2>2, <2>3 DEF TypeOK
<1>8. /\ \A g : Has(p, g)' <=> Has(p, g)
      /\ ~ Extracting(d)' /\ at'[d] # 0
      /\ \A i \in DOMAIN Script : i < at'[d] => i < at[d] \/ i = at[d]
  BY <1>3, <1>4, <1>5, <1>6 DEF Has, Extracting
<1>9. \A g : ~ SavesAt(at[d], g) /\ ~ MapsAt(at[d], g)
  BY <1>4 DEF At, SavesAt, MapsAt
<1>10. ~ writing[d]
  BY <1>1, <1>4 DEF DatabaseInv, Open, At
<1>11. Searched(d)'
  BY <1>4, <1>6, <1>8 DEF Searched
<1>12. Open(d)' /\ Harmed(d)' /\ Current(d)' /\ Running(d)'
  BY <1>1, <1>4, <1>5, <1>8, <1>10 DEF DatabaseInv, Open, Harmed, Current, Running
<1>13. Order(d)'
  BY <1>1, <1>2, <1>3, <1>4, <1>8 DEF DatabaseInv, Order
<1>14. Renewed(d)'
  BY <1>1, <1>3, <1>4, <1>5, <1>8, <1>9 DEF DatabaseInv, Renewed
<1>15. Alone(d)'
  <2>1. SUFFICES ASSUME alone[d]
                 PROVE  Alone(d)'
    BY <1>4 DEF Alone
  <2>2. Alone(d)
    BY <1>1 DEF DatabaseInv
  <2>3. /\ \A e \in Databases \ {d} : at'[e] = 0
        /\ \A q \in Processes \ {p} : platform' = "windows" => mapped'[q] = Unmapped
    BY <1>1, <1>2, <1>4, <2>1, <2>2 DEF TypeOK, Alone
  <2>4. \A i \in DOMAIN Script, g \in Files :
          /\ SavesAt(i, g) /\ i < at'[d] => disk[g] = "this"
          /\ MapsAt(i, g) /\ i < at'[d] => Has(p, g)
    BY <1>5, <1>8, <1>9, <2>1, <2>2 DEF Alone
  <2>5. outcome'[d] = "none" /\ search_path'[d] > 0
    BY <1>1, <1>4, <1>5, <1>6 DEF DatabaseInv, Running
  <2> QED BY <1>2, <1>3, <1>4, <1>8, <2>1, <2>2, <2>3, <2>4, <2>5 DEF Alone
<1>16. DatabaseInv(d)'
  BY <1>11, <1>12, <1>13, <1>14, <1>15 DEF DatabaseInv
<1>17. OnlyMoves(d)
  BY <1>1, <1>4, <1>5 DEF OnlyMoves, TypeOK
<1>18. NoneOlder /\ loads' \in Nat /\ loads <= loads'
  BY <1>1, <1>4, TrampolineAssumption DEF TypeOK, NoneOlder
<1> QED BY <1>2, <1>7, <1>16, <1>17, <1>18, OthersKept DEF Inv

(* Behind the extraction every file has been passed.                       *)
LEMMA AllPassed ==
  ASSUME platform \in Platforms, NEW n \in Int, n > Len(Extraction), NEW f \in Files
  PROVE  \E i \in DOMAIN Script : i < n /\ SavesAt(i, f)
<1>1. PICK i \in 1 .. Len(Extraction) : SavesAt(i, f)
  BY EachFileSaved
<1>2. i \in DOMAIN Script /\ i < n
  BY ScriptPlaces
<1> QED BY <1>1, <1>2

(* What is left behind when p moves on in, or ends, its installing and     *)
(* loading, with the files on the disk as they are.                        *)
LEMMA RenewedStays ==
  ASSUME TypeOK, NEW d \in Databases, Renewed(d), platform' = platform, disk' = disk,
         unsaved' = unsaved, overlapped' = overlapped,
         at[d] > Len(Extraction), at'[d] = 0 \/ at'[d] = at[d] + 1
  PROVE  Renewed(d)'
<1>1. ScriptStays /\ at[d] \in 0 .. Len(Script)
  BY ScriptKept DEF TypeOK
<1> USE DEF ScriptStays
<1>2. ASSUME ~ unsaved[Home[d]], ~ overlapped[Home[d]], NEW f \in Files
      PROVE  disk[f] # "old"
  <2>1. PICK i \in DOMAIN Script : i < at[d] /\ SavesAt(i, f)
    BY <1>1, AllPassed
  <2> QED BY <1>1, <1>2, <2>1 DEF Renewed
<1> QED BY <1>1, <1>2 DEF Renewed

LEMMA InstallInv ==
  ASSUME Inv, NEW d \in Databases, Install(d)
  PROVE  Inv'
<1>0. PICK p \in Processes : p = Home[d]
  BY TrampolineAssumption
<1> USE <1>0
<1>1. TypeOK /\ DatabaseInv(d)
  BY DEF Inv
<1>2. platform' = platform
  BY DEF Install
<1>3. ScriptStays
  BY <1>1, <1>2, ScriptKept
<1> USE DEF ScriptStays
<1>4. /\ At(d, "install")
      /\ disk' = disk /\ writing' = writing /\ mapped' = mapped /\ damaged' = damaged
      /\ search_path' = search_path /\ unsaved' = unsaved /\ overlapped' = overlapped
      /\ loads' = loads /\ faults' = faults
      /\ alone' = [e \in Databases |-> alone[e] /\ e = d]
  BY DEF Install, Moves
<1>5. \/ /\ disk[File(d)] = "absent" /\ at' = [at EXCEPT ![d] = 0]
         /\ outcome' = [outcome EXCEPT ![d] = "failed"]
      \/ /\ disk[File(d)] # "absent" /\ at' = [at EXCEPT ![d] = at[d] + 1]
         /\ outcome' = outcome
  BY DEF Install, GoTo, Ends
<1>6. /\ at[d] # 0 /\ at[d] \in Len(Extraction) + 1 .. Len(Script) - 1
      /\ File(d) \in Files
  BY <1>1, <1>4, WhereAt DEF At
<1>7. /\ at' \in [Databases -> 0 .. Len(Script)]
      /\ outcome' \in [Databases -> {"none", "loaded", "failed"}]
      /\ \A e \in Databases : e # d => at'[e] = at[e] /\ outcome'[e] = outcome[e]
      /\ at'[d] = 0 \/ (at'[d] = at[d] + 1 /\ outcome'[d] = outcome[d])
  <2>1. CASE at' = [at EXCEPT ![d] = 0] /\ outcome' = [outcome EXCEPT ![d] = "failed"]
    BY <1>1, <1>3, <1>6, <2>1 DEF TypeOK
  <2>2. CASE at' = [at EXCEPT ![d] = at[d] + 1] /\ outcome' = outcome
    BY <1>1, <1>3, <1>6, <2>2 DEF TypeOK
  <2> QED BY <1>5, <2>1, <2>2
<1>8. TypeOK'
  <2>1. alone' \in [Databases -> BOOLEAN]
    BY <1>1, <1>4 DEF TypeOK
  <2> QED BY <1>1, <1>2, <1>3, <1>4, <1>7, <2>1 DEF TypeOK
<1>9. /\ \A g : Has(p, g)' <=> Has(p, g)
      /\ ~ Extracting(d)'
      /\ ~ writing[d]
  <2>1. ~ Extracting(d)'
    BY <1>3, <1>6, <1>7 DEF Extracting
  <2>2. ~ writing[d]
    BY <1>1, <1>4 DEF DatabaseInv, Open, At
  <2> QED BY <1>4, <2>1, <2>2 DEF Has
<1>10. Open(d)' /\ Searched(d)' /\ Harmed(d)' /\ Current(d)'
  BY <1>1, <1>4, <1>9 DEF DatabaseInv, Open, Searched, Harmed, Current
<1>11. Running(d)'
  BY <1>1, <1>6, <1>7 DEF DatabaseInv, Running
<1>12. Order(d)'
  BY <1>1, <1>2, <1>3, <1>4, <1>9 DEF DatabaseInv, Order
<1>13. Renewed(d)'
  BY <1>1, <1>2, <1>4, <1>6, <1>7, RenewedStays DEF DatabaseInv
<1>14. Alone(d)'
  <2>1. SUFFICES ASSUME alone[d]
                 PROVE  Alone(d)'
    BY <1>4 DEF Alone
  <2>2. Alone(d)
    BY <1>1 DEF DatabaseInv
  <2>3. disk[File(d)] = "this"
    <3>1. PICK i \in DOMAIN Script : i < at[d] /\ SavesAt(i, File(d))
      BY <1>3, <1>6, AllPassed
    <3> QED BY <1>6, <2>1, <2>2, <3>1 DEF Alone
  <2>4. at'[d] = at[d] + 1 /\ outcome'[d] = "none"
    BY <1>1, <1>5, <1>6, <2>3 DEF TypeOK, DatabaseInv, Running
  <2>5. \A i \in DOMAIN Script : i < at[d]  \/ i = at[d] \/ ~ (i < at'[d])
    BY <1>3, <1>6, <2>4
  <2>6. \A g : ~ SavesAt(at[d], g) /\ ~ MapsAt(at[d], g)
    BY <1>4 DEF At, SavesAt, MapsAt
  <2>7. \A i \in DOMAIN Script, g \in Files :
          /\ SavesAt(i, g) /\ i < at'[d] => disk[g] = "this"
          /\ MapsAt(i, g) /\ i < at'[d] => Has(p, g)
    BY <1>6, <2>1, <2>2, <2>5, <2>6 DEF Alone
  <2>8. /\ \A e \in Databases \ {d} : at'[e] = 0
        /\ \A q \in Processes \ {p} : platform' = "windows" => mapped'[q] = Unmapped
    BY <1>2, <1>4, <1>7, <2>1, <2>2 DEF Alone
  <2>9. platform = "windows" => search_path[d] > 0
    BY <1>3, <1>6, <2>1, <2>2 DEF Alone
  <2> QED BY <1>2, <1>3, <1>4, <1>9, <2>1, <2>2, <2>4, <2>7, <2>8, <2>9 DEF Alone
<1>15. DatabaseInv(d)'
  BY <1>10, <1>11, <1>12, <1>13, <1>14 DEF DatabaseInv
<1>16. OnlyMoves(d)
  BY <1>1, <1>4, <1>7, <1>6 DEF OnlyMoves, TypeOK
<1>17. NoneOlder /\ loads' \in Nat /\ loads <= loads'
  BY <1>1, <1>4, TrampolineAssumption DEF TypeOK, NoneOlder
<1> QED BY <1>2, <1>8, <1>15, <1>16, <1>17, OthersKept DEF Inv

LEMMA LoadInv ==
  ASSUME Inv, NEW d \in Databases, Load(d)
  PROVE  Inv'
<1>0. PICK p \in Processes : p = Home[d]
  BY TrampolineAssumption
<1> USE <1>0
<1>1. TypeOK /\ DatabaseInv(d)
  BY DEF Inv
<1>2. platform' = platform
  BY DEF Load
<1>3. ScriptStays
  BY <1>1, <1>2, ScriptKept
<1> USE DEF ScriptStays
<1> DEFINE f == File(d)
           brings == {f} \cup (IF platform = "windows" THEN Elements(Libraries) ELSE {})
           Loads == /\ disk[f] \in Complete /\ Resolvable(p)
                    /\ mapped' = [mapped EXCEPT ![p] =
                         [g \in Files |-> IF g \in brings /\ ~ Has(p, g) THEN disk[g] ELSE @[g]]]
                    /\ \/ /\ at[d] = Len(Script) /\ at' = [at EXCEPT ![d] = 0]
                          /\ outcome' = [outcome EXCEPT ![d] = "loaded"]
                       \/ /\ at[d] # Len(Script) /\ at' = [at EXCEPT ![d] = at[d] + 1]
                          /\ outcome' = outcome
           Refuses == /\ ~ (disk[f] \in Complete /\ Resolvable(p))
                      /\ at' = [at EXCEPT ![d] = 0]
                      /\ outcome' = [outcome EXCEPT ![d] = "failed"]
                      /\ mapped' = mapped
<1>4. /\ At(d, "load")
      /\ disk' = disk /\ writing' = writing /\ damaged' = damaged
      /\ search_path' = search_path /\ unsaved' = unsaved /\ overlapped' = overlapped
      /\ loads' = loads /\ faults' = faults
      /\ alone' = [e \in Databases |-> alone[e] /\ e = d]
  BY DEF Load, Moves
<1>5. Loads \/ Refuses
  BY DEF Load, GoTo, Ends
<1>6. /\ at[d] # 0 /\ at[d] \in Len(Extraction) + 1 .. Len(Script)
      /\ f \in Files /\ f \in Elements(Extensions)
  BY <1>1, <1>4, WhereAt DEF At
<1>7. brings \subseteq Files
  BY <1>6 DEF Files
<1> HIDE DEF f, brings
<1>8. /\ at' \in [Databases -> 0 .. Len(Script)]
      /\ outcome' \in [Databases -> {"none", "loaded", "failed"}]
      /\ \A e \in Databases : e # d => at'[e] = at[e] /\ outcome'[e] = outcome[e]
      /\ at'[d] = 0 \/ (at'[d] = at[d] + 1 /\ outcome'[d] = outcome[d])
  <2>1. CASE at' = [at EXCEPT ![d] = 0] /\ outcome' = [outcome EXCEPT ![d] = "failed"]
    BY <1>1, <1>3, <1>6, <2>1 DEF TypeOK
  <2>2. CASE at' = [at EXCEPT ![d] = 0] /\ outcome' = [outcome EXCEPT ![d] = "loaded"]
    BY <1>1, <1>3, <1>6, <2>2 DEF TypeOK
  <2>3. CASE at[d] # Len(Script) /\ at' = [at EXCEPT ![d] = at[d] + 1] /\ outcome' = outcome
    BY <1>1, <1>3, <1>6, <2>3 DEF TypeOK
  <2> QED BY <1>5, <2>1, <2>2, <2>3
<1>9. ASSUME NEW g \in brings, Loads, ~ Has(p, g)
      PROVE  disk[g] \in Complete
  <2>1. CASE g = f
    BY <1>9, <2>1
  <2>2. CASE g # f
    BY <1>9, <2>2 DEF brings, Resolvable
  <2> QED BY <2>1, <2>2
<1>10. /\ mapped' \in [Processes -> [Files -> {"no"} \cup Complete]]
       /\ \A q \in Processes : q # p => mapped'[q] = mapped[q]
       /\ \A g \in Files : mapped'[p][g] = mapped[p][g] \/ (mapped'[p][g] = disk[g] /\ ~ Has(p, g))
       /\ \A g \in Files : mapped'[p][g] # mapped[p][g] => disk[g] \in Complete /\ Loads
  <2>1. CASE Refuses
    BY <1>1, <2>1 DEF TypeOK
  <2>2. CASE Loads
    <3> DEFINE new == [g \in Files |-> IF g \in brings /\ ~ Has(p, g) THEN disk[g] ELSE mapped[p][g]]
    <3>1. mapped' = [mapped EXCEPT ![p] = new]
      BY <2>2
    <3>2. new \in [Files -> {"no"} \cup Complete]
      BY <1>1, <1>9, <2>2 DEF TypeOK
    <3>3. \A g \in Files : new[g] # mapped[p][g] => g \in brings /\ ~ Has(p, g) /\ new[g] = disk[g]
      OBVIOUS
    <3> HIDE DEF new, Loads
    <3>4. /\ mapped' \in [Processes -> [Files -> {"no"} \cup Complete]]
          /\ \A q \in Processes : q # p => mapped'[q] = mapped[q]
          /\ mapped'[p] = new
      BY <1>1, <3>1, <3>2 DEF TypeOK
    <3> QED BY <1>9, <2>2, <3>3, <3>4
  <2> QED BY <1>5, <2>1, <2>2
<1>11. \A g \in Files : Has(p, g) => Has(p, g)'
  BY <1>10 DEF Has
<1>12. TypeOK'
  <2>1. alone' \in [Databases -> BOOLEAN]
    BY <1>1, <1>4 DEF TypeOK
  <2> QED BY <1>1, <1>2, <1>3, <1>4, <1>8, <1>10, <2>1 DEF TypeOK
<1>13. ~ Extracting(d)' /\ ~ writing[d]
  <2>1. ~ Extracting(d)'
    BY <1>3, <1>6, <1>8 DEF Extracting
  <2>2. ~ writing[d]
    BY <1>1, <1>4 DEF DatabaseInv, Open, At
  <2> QED BY <2>1, <2>2
<1>14. Open(d)' /\ Searched(d)' /\ Harmed(d)' /\ Running(d)'
  <2>1. Harmed(d)'
    BY <1>1, <1>4, <1>11 DEF DatabaseInv, Harmed, TypeOK
  <2>2. Running(d)'
    BY <1>1, <1>6, <1>8 DEF DatabaseInv, Running
  <2> QED BY <1>1, <1>4, <1>13, <2>1, <2>2 DEF DatabaseInv, Open, Searched
<1>15. \A g \in Files : ~ unsaved[p] /\ ~ overlapped[p] => disk[g] # "old"
  <2> TAKE g \in Files
  <2>1. PICK i \in DOMAIN Script : i < at[d] /\ SavesAt(i, g)
    BY <1>3, <1>6, AllPassed
  <2> QED BY <1>1, <1>6, <2>1 DEF DatabaseInv, Renewed
<1>16. Current(d)'
  <2>1. Elements(Extensions) \subseteq Files
    BY DEF Files
  <2> QED BY <1>1, <1>4, <1>10, <1>15, <2>1 DEF DatabaseInv, Current
<1>17. Order(d)'
  <2>1. SUFFICES ASSUME platform # "windows", ~ overlapped[p], ~ Has(p, SdkLibrary)'
                 PROVE  \A g \in Files : Has(p, g)' => Early(g)
    BY <1>2, <1>3, <1>4, <1>13 DEF Order
  <2>2. ~ Has(p, SdkLibrary)
    BY <1>11, <2>1, TrampolineAssumption DEF Files
  <2>3. ~ Loads
    BY <2>1, <2>2 DEF Resolvable
  <2>4. \A g \in Files : Has(p, g)' => Has(p, g)
    BY <1>5, <2>3 DEF Has
  <2> QED BY <1>1, <2>1, <2>2, <2>4 DEF DatabaseInv, Order
<1>18. Renewed(d)'
  BY <1>1, <1>2, <1>4, <1>6, <1>8, RenewedStays DEF DatabaseInv
<1>19. Alone(d)'
  <2>1. SUFFICES ASSUME alone[d]
                 PROVE  Alone(d)'
    BY <1>4 DEF Alone
  <2>2. Alone(d)
    BY <1>1 DEF DatabaseInv
  <2>3. \A g \in Files : disk[g] = "this"
    <3> TAKE g \in Files
    <3>1. PICK i \in DOMAIN Script : i < at[d] /\ SavesAt(i, g)
      BY <1>3, <1>6, AllPassed
    <3> QED BY <1>6, <2>1, <2>2, <3>1 DEF Alone
  <2>4. Resolvable(p)
    <3>1. CASE platform = "windows"
      <4>1. search_path[d] > 0
        BY <1>3, <1>6, <2>1, <2>2, <3>1 DEF Alone
      <4> QED BY <2>3, <3>1, <4>1 DEF Resolvable, Complete, Files
    <3>2. CASE platform # "windows"
      <4>1. SdkLibrary \in Elements(Libraries) /\ SdkLibrary \in Files
        BY TrampolineAssumption DEF Files
      <4>2. PICK i \in 1 .. Len(Extraction) : MapsAt(i, SdkLibrary)
        BY <1>3, <3>2, <4>1, LibrariesMapped
      <4>3. i \in DOMAIN Script /\ i < at[d]
        BY <1>3, <1>6
      <4> QED BY <1>6, <2>1, <2>2, <3>2, <4>1, <4>2, <4>3 DEF Alone, Resolvable
    <3> QED BY <3>1, <3>2
  <2>5. Loads
    BY <1>5, <1>6, <2>3, <2>4 DEF Complete
  <2>6. outcome[d] = "none"
    BY <1>1, <1>6 DEF DatabaseInv, Running
  <2>7. outcome'[d] # "none" => outcome'[d] = "loaded"
    BY <1>1, <2>5, <2>6 DEF TypeOK
  <2>8. /\ \A e \in Databases \ {d} : at'[e] = 0
        /\ \A q \in Processes \ {p} : platform' = "windows" => mapped'[q] = Unmapped
    BY <1>2, <1>8, <1>10, <2>1, <2>2 DEF Alone
  <2>9. at'[d] # 0 => \A i \in DOMAIN Script, g \in Files : MapsAt(i, g) /\ i < at'[d] => Has(p, g)'
    <3>1. SUFFICES ASSUME NEW i \in DOMAIN Script, NEW g \in Files, MapsAt(i, g)
                   PROVE  Has(p, g)'
      OBVIOUS
    <3>2. i \in 2 .. Len(Extraction)
      BY <1>3, <3>1, MappedBehindSaved
    <3>3. i < at[d]
      BY <1>3, <1>6, <3>2
    <3> QED BY <1>6, <1>11, <2>1, <2>2, <3>1, <3>3 DEF Alone
  <2>10. platform = "windows" => search_path[d] > 0
    BY <1>3, <1>6, <2>1, <2>2 DEF Alone
  <2> QED BY <1>2, <1>3, <1>4, <1>13, <2>1, <2>2, <2>3, <2>7, <2>8, <2>9, <2>10 DEF Alone
<1>20. DatabaseInv(d)'
  BY <1>14, <1>16, <1>17, <1>18, <1>19 DEF DatabaseInv
<1>21. OnlyMoves(d)
  BY <1>1, <1>4, <1>8, <1>10, <1>6 DEF OnlyMoves, TypeOK
<1>22. NoneOlder /\ loads' \in Nat /\ loads <= loads'
  BY <1>1, <1>4, TrampolineAssumption DEF TypeOK, NoneOlder
<1> QED BY <1>2, <1>12, <1>20, <1>21, <1>22, OthersKept DEF Inv

LEMMA ExitInv ==
  ASSUME Inv, NEW p \in Processes, Exit(p)
  PROVE  Inv'
<1>1. TypeOK
  BY DEF Inv
<1>2. platform' = platform
  BY DEF Exit
<1>3. ScriptStays
  BY <1>1, <1>2, ScriptKept
<1> USE DEF ScriptStays
<1>4. /\ at' = [d \in Databases |-> IF Home[d] = p THEN 0 ELSE at[d]]
      /\ writing' = [d \in Databases |-> writing[d] /\ Home[d] # p]
      /\ mapped' = [mapped EXCEPT ![p] = Unmapped] /\ damaged' = [damaged EXCEPT ![p] = {}]
      /\ search_path' = [d \in Databases |-> IF Home[d] = p THEN 0 ELSE search_path[d]]
      /\ outcome' = [d \in Databases |-> IF Home[d] = p THEN "none" ELSE outcome[d]]
      /\ unsaved' = [unsaved EXCEPT ![p] = FALSE]
      /\ overlapped' = [overlapped EXCEPT ![p] = FALSE]
      /\ alone' = [d \in Databases |-> FALSE]
      /\ disk' = disk /\ loads' = loads /\ faults' = faults
  BY DEF Exit
<1>5. MaxLoads \in Nat /\ loads \in Nat
  BY <1>1, TrampolineAssumption DEF TypeOK
<1>6. TypeOK'
  <2>1. Unmapped \in [Files -> {"no"} \cup Complete]
    BY DEF Unmapped
  <2>2. mapped' \in [Processes -> [Files -> {"no"} \cup Complete]]
    BY <1>1, <1>4, <2>1 DEF TypeOK
  <2>3. damaged' \in [Processes -> SUBSET Files] /\ alone' \in [Databases -> BOOLEAN]
    BY <1>1, <1>4 DEF TypeOK
  <2>4. /\ at' \in [Databases -> 0 .. Len(Script)] /\ search_path' \in [Databases -> 0 .. MaxLoads]
        /\ unsaved' \in [Processes -> BOOLEAN] /\ overlapped' \in [Processes -> BOOLEAN]
        /\ outcome' \in [Databases -> {"none", "loaded", "failed"}]
    BY <1>1, <1>3, <1>4, <1>5 DEF TypeOK
  <2>5. writing' \in [Databases -> BOOLEAN]
    BY <1>1, <1>4 DEF TypeOK
  <2> QED BY <1>1, <1>2, <1>3, <1>4, <2>2, <2>3, <2>4, <2>5 DEF TypeOK
<1>7. ASSUME NEW d \in Databases, Home[d] = p
      PROVE  Solo(d)' /\ DatabaseInv(d)'
  <2>1. /\ at'[d] = 0 /\ writing'[d] = FALSE /\ mapped'[p] = Unmapped /\ damaged'[p] = {}
        /\ search_path'[d] = 0 /\ outcome'[d] = "none" /\ alone'[d] = FALSE
    BY <1>1, <1>4, <1>7 DEF TypeOK
  <2>2. \A f \in Files : ~ Has(p, f)' /\ mapped'[p][f] = "no"
    BY <2>1 DEF Has, Unmapped
  <2>3. ~ Extracting(d)'
    BY <1>3, <2>1 DEF Extracting
  <2>4. SdkLibrary \in Files /\ Elements(Extensions) \subseteq Files
    BY TrampolineAssumption DEF Files
  <2>5. Open(d)' /\ Searched(d)' /\ Harmed(d)'
    BY <1>4, <1>5, <1>7, <2>1, <2>3 DEF Open, Searched, Harmed
  <2>6. Order(d)' /\ Renewed(d)' /\ Running(d)' /\ Current(d)' /\ Alone(d)'
    BY <1>7, <2>1, <2>2, <2>3, <2>4 DEF Order, Renewed, Running, Current, Alone
  <2>7. Solo(d)'
    BY <2>1 DEF Solo
  <2> QED BY <2>5, <2>6, <2>7 DEF DatabaseInv
<1>8. ASSUME NEW d \in Databases, Home[d] # p
      PROVE  Solo(d)' /\ DatabaseInv(d)'
  <2>1. Home[d] \in Processes
    BY TrampolineAssumption
  <2>2. Aside(d)
    BY <1>1, <1>4, <1>8, <2>1 DEF Aside, Siblings, TypeOK
  <2>3. NoneOlder /\ loads' \in Nat /\ loads <= loads'
    BY <1>4, <1>5 DEF NoneOlder
  <2> QED BY <1>2, <2>2, <2>3, AsideKept
<1> QED BY <1>6, <1>7, <1>8 DEF Inv

LEMMA NextInv == Inv /\ [Next]_vars => Inv'
<1> SUFFICES ASSUME Inv, [Next]_vars
             PROVE  Inv'
  OBVIOUS
<1>1. CASE Next
  <2>1. ASSUME NEW d \in Databases, LoadInternal(d)
        PROVE  Inv'
    BY <2>1, LoadInternalInv
  <2>2. ASSUME NEW d \in Databases, LoadStep(d)
        PROVE  Inv'
    BY <2>2, OpenFileInv, OpenFailsInv, WriteFileInv, LoadLibraryFromFileInv, ModifyPathInv,
       InstallInv, LoadInv DEF LoadStep
  <2>3. ASSUME NEW p \in Processes, Exit(p)
        PROVE  Inv'
    BY <2>3, ExitInv
  <2> QED BY <1>1, <2>1, <2>2, <2>3 DEF Next
<1>2. CASE UNCHANGED vars
  <2>1. TypeOK /\ \A d \in Databases : Solo(d) /\ DatabaseInv(d)
    BY DEF Inv
  <2>2. /\ platform' = platform /\ disk' = disk /\ at' = at /\ writing' = writing
        /\ mapped' = mapped /\ damaged' = damaged /\ search_path' = search_path
        /\ outcome' = outcome /\ unsaved' = unsaved /\ overlapped' = overlapped
        /\ alone' = alone /\ loads' = loads /\ faults' = faults
    BY <1>2 DEF vars
  <2>3. ScriptStays
    BY <2>1, <2>2, ScriptKept
  <2> USE DEF ScriptStays
  <2>4. TypeOK'
    BY <2>1, <2>2, <2>3 DEF TypeOK
  <2>5. ASSUME NEW d \in Databases
        PROVE  Solo(d)' /\ DatabaseInv(d)'
    <3>1. Solo(d) /\ DatabaseInv(d)
      BY <2>1
    <3>2. (\A p, f : Has(p, f)' <=> Has(p, f)) /\ (Extracting(d)' <=> Extracting(d))
      BY <2>2, <2>3 DEF Has, Extracting
    <3>3. Open(d)' /\ Searched(d)' /\ Harmed(d)' /\ Running(d)' /\ Current(d)'
      BY <2>2, <2>3, <3>1, <3>2
      DEF DatabaseInv, Open, At, File, Searched, Harmed, Running, Current
    <3>4. Order(d)'
      BY <2>2, <2>3, <3>1, <3>2 DEF DatabaseInv, Order
    <3>5. Renewed(d)'
      BY <2>2, <2>3, <3>1, <3>2 DEF DatabaseInv, Renewed
    <3>6. Alone(d)'
      BY <2>2, <2>3, <3>1, <3>2 DEF DatabaseInv, Alone
    <3>7. Solo(d)'
      BY <2>2, <3>1 DEF Solo, Siblings
    <3> QED BY <3>3, <3>4, <3>5, <3>6, <3>7 DEF DatabaseInv
  <2> QED BY <2>4, <2>5 DEF Inv
<1> QED BY <1>1, <1>2

(* What every LOAD has done agrees   with what it found, with what it has *)
(* mapped and with the directory, in every reachable state.                *)
THEOREM InvHolds == Spec => []Inv
<1>1. Init => Inv
  BY InitInv
<1>2. Inv /\ [Next]_vars => Inv'
  BY NextInv
<1> QED BY <1>1, <1>2, PTL DEF Spec

-----------------------------------------------------------------------------
(* The variables keep their types: what is mapped was complete when it was *)
(* mapped, and the entries added to the search path are at most the LOADs. *)
THEOREM TypeCorrect == Spec => []TypeOK
<1>1. Inv => TypeOK
  BY DEF Inv
<1> QED BY <1>1, InvHolds, PTL

(* The first LOAD of a process, undisturbed, succeeds on every platform    *)
(* and whatever releases, crashes and failures left in the directory:      *)
(* afterwards every file is of this release, none damaged.                 *)
THEOREM FreshLoadsRecover == Spec => []FreshLoadRecovers
<1>1. Inv => FreshLoadRecovers
  BY TrampolineAssumption DEF Inv, DatabaseInv, Alone, FreshLoadRecovers
<1> QED BY <1>1, InvHolds, PTL

(* A process that met no failure itself and whose LOADs came one after     *)
(* another never runs an extension of an older release, however many other *)
(* processes extract at a time and whatever a crash cut short: an          *)
(* extension is loaded only behind the saving of all files, or with an SDK *)
(* that was mapped behind it.                                              *)
THEOREM NeverOldExtensions == Spec => []NeverAnOldExtension
<1>1. Inv => NeverAnOldExtension
  BY TrampolineAssumption DEF Inv, DatabaseInv, Current, NeverAnOldExtension
<1> QED BY <1>1, InvHolds, PTL

(* A process that has the SDK mapped and whose LOADs came one after        *)
(* another empties no file it has mapped.                                  *)
LEMMA StepKeepsOwnMappings ==
  ASSUME Inv, [Next]_vars, NEW d \in Databases, NEW p \in Processes, p = Home[d],
         Has(p, SdkLibrary), ~ overlapped[p], ~ writing[d], writing'[d],
         NEW f \in Files, Has(p, f)
  PROVE  disk'[f] = disk[f]
<1>1. TypeOK /\ DatabaseInv(d)
  BY DEF Inv
<1>2. OpenFile(d)
  <2>1. \/ \E e \in Databases : LoadInternal(e) \/ LoadStep(e)
        \/ \E q \in Processes : Exit(q)
    BY DEF Next, vars
  <2>2. ASSUME NEW q \in Processes, Exit(q)
        PROVE  FALSE
    BY <1>1, <2>2 DEF Exit, TypeOK
  <2>3. PICK e \in Databases : LoadInternal(e) \/ LoadStep(e)
    BY <2>1, <2>2
  <2>4. OpenFile(e)
    <3>1. writing' # writing
      OBVIOUS
    <3>2. ~ WriteFile(e)
      BY <1>1 DEF WriteFile, TypeOK
    <3> QED BY <2>3, <3>1, <3>2 DEF LoadInternal, LoadStep, OpenFails, LoadLibraryFromFile,
          ModifyPath, Install, Load
  <2>5. d = e
    BY <1>1, <2>4 DEF OpenFile, TypeOK
  <2> QED BY <2>4, <2>5
<1>3. /\ At(d, "save") /\ disk' = [disk EXCEPT ![File(d)] = "partial"]
      /\ platform = "windows" => \A q \in Processes : ~ Has(q, File(d))
  BY <1>2 DEF OpenFile
<1>4. at[d] \in 1 .. Len(Extraction) /\ SavesAt(at[d], File(d)) /\ File(d) \in Files
  BY <1>1, <1>3, WhereAt DEF At
<1>5. ~ Has(p, File(d))
  <2>1. CASE platform = "windows"
    BY <1>3, <2>1
  <2>2. CASE platform # "windows"
    <3>1. at[d] \in DOMAIN Script /\ at[d] >= at[d]
      BY <1>4 DEF SavesAt
    <3> QED BY <1>1, <1>4, <2>2, <3>1 DEF DatabaseInv, Order, Extracting
  <2> QED BY <2>1, <2>2
<1>6. f # File(d)
  BY <1>5
<1> QED BY <1>1, <1>3, <1>6 DEF TypeOK

(* A further LOAD of a process that has the SDK mapped, with none of its   *)
(* LOADs overlapping, never empties a file the process has mapped: it      *)
(* saves none, or only what the process does not map.                      *)
THEOREM OwnMappingsAlwaysKept == Spec => OwnMappingsKept
<1> DEFINE Kept == \A d \in Databases :
             LET p == Home[d]
             IN  Has(p, SdkLibrary) /\ ~ overlapped[p] /\ ~ writing[d] /\ writing'[d]
                   => \A f \in Files : Has(p, f) => disk'[f] = disk[f]
<1>1. Inv /\ [Next]_vars => Kept
  <2>1. \A d \in Databases : Home[d] \in Processes
    BY TrampolineAssumption
  <2> QED BY <2>1, StepKeepsOwnMappings
<1>2. Inv /\ [Next]_vars => [Kept]_vars
  BY <1>1
<1> HIDE DEF Kept
<1>3. Spec => [][Kept]_vars
  BY <1>2, InvHolds, PTL DEF Spec
<1> QED BY <1>3 DEF Kept, OwnMappingsKept
=============================================================================
