----------------------------- MODULE Trampoline -----------------------------
(***************************************************************************)
(* LOAD erpl (erpl_extension.cpp): the trampoline extension writes the     *)
(* SAP libraries and the real extensions it carries next to itself, maps   *)
(* the libraries and then installs and loads the extensions, on Linux,     *)
(* macOS or Windows.                                                       *)
(*                                                                         *)
(* Processes share the extension directory; each may have several          *)
(* databases and LOAD in each of them, or again after a failure, and may   *)
(* end at any moment.  DuckDB runs the LOADs of one database one after     *)
(* another; those of two databases overlap, in one process as in two:      *)
(* nothing in erpl_extension.cpp takes a lock.                             *)
(*                                                                         *)
(* Opening a file for writing empties it; its content is there once it is  *)
(* written.  On Linux and macOS that happens under the feet of whoever     *)
(* has the file mapped; on Windows a mapped file cannot be opened.  That   *)
(* INSTALL of a file that exists does nothing, as the trampoline lives     *)
(* where INSTALL puts extensions, is assumed of DuckDB on the word of the  *)
(* comment at lines 184-187.                                               *)
(***************************************************************************)
EXTENDS Naturals, Sequences

CONSTANTS
  Processes,
  Databases, Home,   \* each database lives in one process
  Platforms,         \* some of "linux", "apple", "windows"
  Libraries,         \* ICU, sapnwrfc and sapucum, in the order they are saved
  Companions,        \* saved only: the alternative RFC backend, on Windows SSL
  Extensions,        \* erpl_rfc, and erpl_bics and erpl_odp in builds with them
  SdkLibrary,        \* the library that exports RfcGetVersion: sapnwrfc
  MaxLoads,          \* bound: LOADs of all processes
  MaxFaults          \* bound: failing opens and short writes

Elements(s) == {s[i] : i \in DOMAIN s}
Files == Elements(Libraries) \cup Elements(Companions) \cup Elements(Extensions)

ASSUME TrampolineAssumption ==
  /\ Home \in [Databases -> Processes]
  /\ \A p \in Processes : \E d \in Databases : Home[d] = p
  /\ Platforms \subseteq {"linux", "apple", "windows"}
  /\ {Libraries, Companions, Extensions} \subseteq Seq(Files)
  /\ SdkLibrary \in Elements(Libraries)
  /\ Extensions # <<>>
  /\ \A i, j \in DOMAIN (Libraries \o Companions \o Extensions) :
       i # j => (Libraries \o Companions \o Extensions)[i] #
                (Libraries \o Companions \o Extensions)[j]
  /\ {MaxLoads, MaxFaults} \subseteq Nat

VARIABLES
  platform,
  disk,          \* per file "absent", "partial", "old" (an older release) or "this"
  at,            \* per database its place in the script, 0 outside a LOAD
  writing,       \* per database: the file at its place is open
  mapped,        \* per process and file "no", or the release it has mapped
  damaged,       \* per process the files emptied after it mapped them
  search_path,   \* per database how often its LOADs added the directory to
                 \* the search path of its process
  outcome,       \* per database the result of its last LOAD
  unsaved,       \* per process, history: some file could not be saved
  overlapped,    \* per process, history: two of its LOADs ran at a time
  alone,         \* per database, history: nothing else moved since its LOAD,
                 \* the first of its process, and nothing failed
  loads, faults  \* counters of the bounds

vars == <<platform, disk, at, writing, mapped, damaged, search_path, outcome, unsaved,
          overlapped, alone, loads, faults>>

Complete == {"old", "this"}
Unmapped == [f \in Files |-> "no"]

-----------------------------------------------------------------------------
(* The script of a LOAD: extract, then load.                               *)
ForEach(files, op) == [i \in DOMAIN files |-> [op |-> op, file |-> files[i]]]

(* Each file on its own, with the two operations one after the other.      *)
ForEachBoth(files, op1, op2) ==
  [i \in 1 .. 2 * Len(files) |->
     [op |-> IF i % 2 = 1 THEN op1 ELSE op2, file |-> files[(i + 1) \div 2]]]

(* Mutant: once for the libraries and once for the extensions.            *)
AddDirectoryTwice ==
  [i \in 1 .. 2 |-> [op |-> "search_path", file |-> SdkLibrary]]

AddDirectory == <<[op |-> "search_path", file |-> SdkLibrary]>>

(* The try blocks of the three ExtractExtensionsAndSapLibs: Windows leaves *)
(* mapping the libraries to its loader, Linux needs no search path.        *)
LinuxExtraction ==
  ForEachBoth(Libraries, "save", "dlopen") \o ForEach(Companions \o Extensions, "save")
AppleExtraction ==
  ForEachBoth(Libraries, "save", "dlopen") \o ForEach(Companions \o Extensions, "save")
    \o AddDirectory
WindowsExtraction ==
  ForEach(Libraries \o Companions \o Extensions, "save") \o AddDirectory

Extraction ==
  CASE platform = "linux"   -> LinuxExtraction
    [] platform = "apple"   -> AppleExtraction
    [] platform = "windows" -> WindowsExtraction

(* LoadExtensions and InstallAndLoadExtension.                             *)
LoadExtensions == ForEachBoth(Extensions, "install", "load")

Script == Extraction \o LoadExtensions
FirstInstall == Len(Extraction) + 1

(* The variables keep their types: what is mapped was complete when it was *)
(* mapped, and each LOAD adds at most one entry to the search path.        *)
TypeOK ==
  /\ platform \in Platforms
  /\ disk \in [Files -> {"absent", "partial"} \cup Complete]
  /\ at \in [Databases -> 0 .. Len(Script)]
  /\ writing \in [Databases -> BOOLEAN]
  /\ mapped \in [Processes -> [Files -> {"no"} \cup Complete]]
  /\ damaged \in [Processes -> SUBSET Files]
  /\ search_path \in [Databases -> 0 .. MaxLoads]
  /\ outcome \in [Databases -> {"none", "loaded", "failed"}]
  /\ unsaved \in [Processes -> BOOLEAN]
  /\ overlapped \in [Processes -> BOOLEAN]
  /\ alone \in [Databases -> BOOLEAN]
  /\ loads \in 0 .. MaxLoads
  /\ faults \in 0 .. MaxFaults

(* Nothing was extracted yet, or an older release extracted everything.    *)
Init ==
  /\ platform \in Platforms
  /\ \E before \in {"absent", "old"} : disk = [f \in Files |-> before]
  /\ at = [d \in Databases |-> 0]
  /\ writing = [d \in Databases |-> FALSE]
  /\ mapped = [p \in Processes |-> Unmapped]
  /\ damaged = [p \in Processes |-> {}]
  /\ search_path = [d \in Databases |-> 0]
  /\ outcome = [d \in Databases |-> "none"]
  /\ unsaved = [p \in Processes |-> FALSE]
  /\ overlapped = [p \in Processes |-> FALSE]
  /\ alone = [d \in Databases |-> FALSE]
  /\ loads = 0
  /\ faults = 0

-----------------------------------------------------------------------------
Has(p, f) == mapped[p][f] # "no"

(* The databases with a LOAD under way in p.                               *)
Loading(p) == {d \in Databases : Home[d] = p /\ at[d] # 0}


(* Mutant: the guard against a second extraction is missing.               *)
NeverLoaded(p) == FALSE

(* Mutant: extraction is skipped when every file is there.                 *)
FilesPresent(p) == \A f \in Files : disk[f] \in Complete

(* The symbol RfcGetVersion is there; Windows does not look.               *)
SapLibsAlreadyLoaded(p) == platform # "windows" /\ Has(p, SdkLibrary)

(* Nobody else moves during a LOAD that stays "alone".                     *)
Moves(d) == alone' = [e \in Databases |-> alone[e] /\ e = d]
Faults == faults < MaxFaults /\ faults' = faults + 1

GoTo(d, n) == at' = [at EXCEPT ![d] = n]
Ends(d, result) == GoTo(d, 0) /\ outcome' = [outcome EXCEPT ![d] = result]

(* The exception of the try block: printed, and on to LoadExtensions.      *)
Caught(d) == GoTo(d, FirstInstall) /\ unsaved' = [unsaved EXCEPT ![Home[d]] = TRUE]

At(d, op) == at[d] # 0 /\ Script[at[d]].op = op
File(d) == Script[at[d]].file

-----------------------------------------------------------------------------
(* Extraction, or none with the SDK mapped.                                *)
ExtractExtensionsAndSapLibs(d) ==
  GoTo(d, IF SapLibsAlreadyLoaded(Home[d]) THEN FirstInstall ELSE 1)

(* LOAD erpl in d.  Two databases of a process share what it has mapped.   *)
LoadInternal(d) ==
  LET p == Home[d]
  IN  /\ at[d] = 0
      /\ loads < MaxLoads
      /\ loads' = loads + 1
      /\ ExtractExtensionsAndSapLibs(d)
      /\ outcome' = [outcome EXCEPT ![d] = "none"]
      /\ overlapped' = [overlapped EXCEPT ![p] = @ \/ Loading(p) # {}]
      /\ alone' = [e \in Databases |->
           /\ e = d
           /\ mapped[p] = Unmapped
           /\ \A c \in Databases : at[c] = 0
           /\ \A q \in Processes : platform = "windows" => mapped[q] = Unmapped]
      /\ UNCHANGED <<platform, disk, writing, mapped, damaged, search_path, unsaved, faults>>

(* Mutant: a file that is there is not written again.                      *)
OpenIfAbsent(d) ==
  LET f == File(d)
  IN  /\ At(d, "save")
      /\ ~ writing[d]
      /\ IF disk[f] \in Complete
           THEN GoTo(d, at[d] + 1) /\ UNCHANGED <<disk, writing>>
           ELSE /\ disk' = [disk EXCEPT ![f] = "partial"]
                /\ writing' = [writing EXCEPT ![d] = TRUE]
                /\ UNCHANGED at
      /\ Moves(d)
      /\ UNCHANGED <<platform, mapped, damaged, search_path, outcome, unsaved, overlapped,
                     loads, faults>>

(* SaveToFile, SaveResourceToFile: opening the file empties it.            *)
OpenFile(d) ==
  LET f == File(d)
      may_open == platform # "windows" \/ \A q \in Processes : ~ Has(q, f)
  IN  /\ At(d, "save")
      /\ ~ writing[d]
      /\ may_open
      /\ disk' = [disk EXCEPT ![f] = "partial"]
      /\ writing' = [writing EXCEPT ![d] = TRUE]
      /\ damaged' = [q \in Processes |-> IF Has(q, f) THEN damaged[q] \cup {f} ELSE damaged[q]]
      /\ Moves(d)
      /\ UNCHANGED <<platform, at, mapped, search_path, outcome, unsaved, overlapped,
                     loads, faults>>

(* The file cannot be opened: an exception, which Windows does not throw.  *)
OpenFails(d) ==
  LET taken == platform = "windows" /\ \E q \in Processes : Has(q, File(d))
  IN  /\ At(d, "save")
      /\ ~ writing[d]
      /\ \/ taken /\ Moves(d) /\ UNCHANGED faults
         \/ ~ taken /\ Faults /\ alone' = [e \in Databases |-> FALSE]
      /\ IF platform = "windows"
           THEN GoTo(d, at[d] + 1) /\ unsaved' = [unsaved EXCEPT ![Home[d]] = TRUE]
           ELSE Caught(d)
      /\ UNCHANGED <<platform, disk, writing, mapped, damaged, search_path, outcome,
                     overlapped, loads>>

(* The file is written and closed.  Nobody looks whether all of it was.    *)
WriteFile(d) ==
  /\ writing[d]
  /\ writing' = [writing EXCEPT ![d] = FALSE]
  /\ GoTo(d, at[d] + 1)
  /\ \/ /\ disk' = [disk EXCEPT ![File(d)] = "this"]
        /\ Moves(d)
        /\ UNCHANGED faults
     \/ /\ Faults
        /\ alone' = [e \in Databases |-> FALSE]
        /\ UNCHANGED disk
  /\ UNCHANGED <<platform, mapped, damaged, search_path, outcome, unsaved, overlapped,
                 loads>>

(* LoadLibraryFromFile.  A library the process has mapped is found again.  *)
LoadLibraryFromFile(d) ==
  LET p == Home[d]
      f == File(d)
  IN  /\ At(d, "dlopen")
      /\ \/ /\ Has(p, f)
            /\ GoTo(d, at[d] + 1)
            /\ UNCHANGED <<mapped, unsaved>>
         \/ /\ ~ Has(p, f) /\ disk[f] \in Complete
            /\ mapped' = [mapped EXCEPT ![p][f] = disk[f]]
            /\ GoTo(d, at[d] + 1)
            /\ UNCHANGED unsaved
         \/ /\ ~ Has(p, f) /\ disk[f] \notin Complete
            /\ Caught(d)
            /\ UNCHANGED mapped
      /\ Moves(d)
      /\ UNCHANGED <<platform, disk, writing, damaged, search_path, outcome, overlapped,
                     loads, faults>>

(* ModifyPathEnvironmentVariable, ModifyDyldEnvironmentVariable: one more  *)
(* entry each time.                                                        *)
ModifyPath(d) ==
  /\ At(d, "search_path")
  /\ search_path' = [search_path EXCEPT ![d] = @ + 1]
  /\ GoTo(d, at[d] + 1)
  /\ Moves(d)
  /\ UNCHANGED <<platform, disk, writing, mapped, damaged, outcome, unsaved, overlapped,
                 loads, faults>>

-----------------------------------------------------------------------------
(* InstallAndLoadExtension: INSTALL wants a file and copies nothing.       *)
Install(d) ==
  /\ At(d, "install")
  /\ IF disk[File(d)] = "absent" THEN Ends(d, "failed")
     ELSE GoTo(d, at[d] + 1) /\ UNCHANGED outcome
  /\ Moves(d)
  /\ UNCHANGED <<platform, disk, writing, mapped, damaged, search_path, unsaved, overlapped,
                 loads, faults>>

(* What the loader needs for an extension linked against the SDK: the SDK  *)
(* mapped, or on Windows complete in a directory of the search path.       *)
Resolvable(p) ==
  IF platform = "windows"
    THEN /\ \E d \in Databases : Home[d] = p /\ search_path[d] > 0
         /\ \A f \in Elements(Libraries) : Has(p, f) \/ disk[f] \in Complete
    ELSE Has(p, SdkLibrary)

(* LOAD checks the file, then maps it, on Windows with the libraries.      *)
Load(d) ==
  LET p == Home[d]
      f == File(d)
      brings == {f} \cup (IF platform = "windows" THEN Elements(Libraries) ELSE {})
  IN  /\ At(d, "load")
      /\ \/ /\ disk[f] \in Complete /\ Resolvable(p)
            /\ mapped' = [mapped EXCEPT ![p] =
                 [g \in Files |-> IF g \in brings /\ ~ Has(p, g) THEN disk[g] ELSE @[g]]]
            /\ IF at[d] = Len(Script) THEN Ends(d, "loaded")
               ELSE GoTo(d, at[d] + 1) /\ UNCHANGED outcome
         \/ /\ ~ (disk[f] \in Complete /\ Resolvable(p))
            /\ Ends(d, "failed")
            /\ UNCHANGED mapped
      /\ Moves(d)
      /\ UNCHANGED <<platform, disk, writing, damaged, search_path, unsaved, overlapped,
                     loads, faults>>

(* The process ends, in the middle of a LOAD or not.                       *)
Exit(p) ==
  /\ Loading(p) # {} \/ mapped[p] # Unmapped
  /\ at' = [d \in Databases |-> IF Home[d] = p THEN 0 ELSE at[d]]
  /\ writing' = [d \in Databases |-> writing[d] /\ Home[d] # p]
  /\ mapped' = [mapped EXCEPT ![p] = Unmapped]
  /\ damaged' = [damaged EXCEPT ![p] = {}]
  /\ search_path' = [d \in Databases |-> IF Home[d] = p THEN 0 ELSE search_path[d]]
  /\ outcome' = [d \in Databases |-> IF Home[d] = p THEN "none" ELSE outcome[d]]
  /\ unsaved' = [unsaved EXCEPT ![p] = FALSE]
  /\ overlapped' = [overlapped EXCEPT ![p] = FALSE]
  /\ alone' = [d \in Databases |-> FALSE]
  /\ UNCHANGED <<platform, disk, loads, faults>>

LoadStep(d) ==
  \/ OpenFile(d)
  \/ OpenFails(d)
  \/ WriteFile(d)
  \/ LoadLibraryFromFile(d)
  \/ ModifyPath(d)
  \/ Install(d)
  \/ Load(d)

Next ==
  \/ \E d \in Databases : LoadInternal(d) \/ LoadStep(d)
  \/ \E p \in Processes : Exit(p)

Spec == Init /\ [][Next]_vars

-----------------------------------------------------------------------------
(* A process that has the SDK mapped empties no file it has mapped: its    *)
(* own next LOAD, in whichever database, cannot pull the pages from under  *)
(* it.  (Another process can, a retry of a LOAD that failed before the SDK *)
(* was mapped can, and so can two LOADs that overlap in the process, both  *)
(* of which may find the SDK unmapped: nothing holds for these.)           *)
OwnMappingsKept ==
  [][\A d \in Databases :
       LET p == Home[d]
       IN  Has(p, SdkLibrary) /\ ~ overlapped[p] /\ ~ writing[d] /\ writing'[d]
             => \A f \in Files : Has(p, f) => disk'[f] = disk[f]]_vars

(* The first LOAD of a process, undisturbed, succeeds whatever releases,   *)
(* crashes and failures left in the directory: afterwards every file is    *)
(* of this release and none is damaged.                                    *)
FreshLoadRecovers ==
  \A d \in Databases :
    alone[d] /\ outcome[d] # "none" =>
      /\ outcome[d] = "loaded"
      /\ \A f \in Files : disk[f] = "this"
      /\ damaged[Home[d]] = {}

(* However many processes extract at a time, and whatever of it was cut    *)
(* short by a crash, a process that met no failure itself and whose LOADs  *)
(* came one after another never runs an extension of an older release.     *)
(* (Nothing holds for LOADs that overlap in a process: the second skips    *)
(* the extraction that the first is still at.)                             *)
NeverAnOldExtension ==
  \A p \in Processes :
    ~ unsaved[p] /\ ~ overlapped[p]
      => \A f \in Elements(Extensions) : mapped[p][f] # "old"
=============================================================================
