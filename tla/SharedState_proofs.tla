------------------------- MODULE SharedState_proofs -------------------------
(***************************************************************************)
(* The two components whose state all sessions of the process share: the   *)
(* RFC backend and the tracer.                                             *)
(*                                                                         *)
(* RfcBackend for any number of sessions, backends and library paths: one  *)
(* loader at a time, nothing frozen by a load that failed, and accepted    *)
(* SETs honoured unless they came during a load.  The invariant follows    *)
(* the selection through the four moments it is kept in: the globals, what *)
(* the loading call picked, the globals again once frozen, and the static. *)
(*                                                                         *)
(* ErplTracer for any number of threads, any levels and any number of      *)
(* calls: the trace file follows the switch, and nothing is written once   *)
(* tracing is off.  What the file's rule needs besides: the lock is held   *)
(* only by a setter that is announcing its change, and as long as that one *)
(* did not move the directory the rule holds under the lock as well.       *)
(***************************************************************************)
EXTENDS RfcBackend, ErplTracer, TLAPS

-----------------------------------------------------------------------------
(* The backend.                                                            *)

Resolving(s) == session[s].pc \in {"loading", "loaded", "resolved"}

(* Which stage of the resolution a session's call and the globals are in.  *)
Stages ==
  \A s \in Sessions :
    /\ Resolving(s) => session[s].picked \in Selection
    /\ session[s].pc \in {"loading", "loaded"} => ~ resolved
    /\ session[s].pc \in {"loaded", "resolved"} => session[s].picked \in loadable
    /\ session[s].pc = "resolved" =>
         resolved /\ requested_backend = session[s].picked.backend

Frozen ==
  /\ served # Unset =>
       /\ resolved /\ initializing = NoSession
       /\ served \in loadable /\ served \in Selection
       /\ requested_backend = served.backend
  /\ resolved =>
       \/ served # Unset
       \/ initializing # NoSession /\ session[initializing].pc = "resolved"

(* What the last accepted SETs asked for, where the selection is kept.     *)
Asked(selected) ==
  /\ set_backend # NoBackend => selected.backend = set_backend
  /\ requested_path # NoPath => selected.path = requested_path

Honoured ==
  /\ ~ resolved /\ set_backend # NoBackend =>
       explicitly_requested /\ requested_backend = set_backend
  /\ ~ raced => \A s \in Sessions : Resolving(s) => Asked(session[s].picked)
  /\ ~ raced /\ served # Unset => Asked(served)

Inv == TypeOK /\ OneLoader /\ Stages /\ Frozen /\ Honoured

-----------------------------------------------------------------------------
LEMMA InitInv == Init => Inv
<1> SUFFICES ASSUME Init PROVE Inv
  OBVIOUS
<1>1. \A s \in Sessions : session[s].pc = "idle"
  BY DEF Init, Idle
<1>2. \A s \in Sessions : session[s].pc = "idle" /\ ~ Resolving(s)
  BY <1>1 DEF Resolving
<1>3. /\ served = Unset /\ initializing = NoSession /\ set_backend = NoBackend
      /\ ~ resolved
  BY DEF Init
<1>4. TypeOK
  <2>1. session \in [Sessions -> [pc : {"idle", "calling", "loading", "loaded", "resolved"},
                                 picked : Selection \cup {Unset}]]
    BY DEF Init, Idle
  <2>2. 0 \in 0 .. MaxRequests
    BY BackendAssumption
  <2>3. NoPath \in AllPaths
    BY DEF AllPaths
  <2> QED BY <2>1, <2>2, <2>3, BackendAssumption DEF Init, TypeOK
<1>5. OneLoader
  BY <1>2, <1>3 DEF OneLoader
<1>6. Stages
  BY <1>2 DEF Stages
<1>7. Frozen /\ Honoured
  BY <1>2, <1>3 DEF Frozen, Honoured
<1> QED BY <1>4, <1>5, <1>6, <1>7 DEF Inv

LEMMA UnsetNotSelected == Unset \notin Selection /\ \A x \in Selection : x.backend \in Backends
BY BackendAssumption DEF Unset, Selection

LEMMA NextInv == Inv /\ [Next]_vars => Inv'
<1> SUFFICES ASSUME Inv, [Next]_vars PROVE Inv'
  OBVIOUS
<1> USE UnsetNotSelected, BackendAssumption DEF Inv
<1>1. ASSUME NEW s \in Sessions, NEW b \in Backends, SetRfcBackend(s, b) PROVE Inv'
  <2>1. TypeOK'
    <3>1. requested_backend' \in Backends /\ explicitly_requested' \in BOOLEAN
      BY <1>1 DEF SetRfcBackend, TypeOK
    <3>2. set_backend' \in Backends \cup {NoBackend}
      BY <1>1 DEF SetRfcBackend, TypeOK
    <3>3. raced' \in BOOLEAN /\ requests' \in 0 .. MaxRequests
      BY <1>1 DEF SetRfcBackend, Request, TypeOK
    <3> QED BY <1>1, <3>1, <3>2, <3>3 DEF SetRfcBackend, TypeOK, settings
  <2>2. OneLoader'
    BY <1>1 DEF SetRfcBackend, OneLoader
  <2>3. (Stages /\ Frozen)'
    BY <1>1, BackendAssumption DEF SetRfcBackend, settings, Stages, Frozen, Resolving, TypeOK
  <2>4. Honoured'
    BY <1>1 DEF SetRfcBackend, settings, OneLoader, Stages, Frozen, Honoured, Asked,
                Resolving, TypeOK
  <2> QED BY <2>1, <2>2, <2>3, <2>4
<1>2. ASSUME NEW s \in Sessions, NEW p \in AllPaths, SetRfcBackendLibraryPath(s, p)
      PROVE Inv'
  <2>1. TypeOK'
    BY <1>2 DEF SetRfcBackendLibraryPath, Request, TypeOK, settings
  <2>2. (OneLoader /\ Stages /\ Frozen)'
    BY <1>2 DEF SetRfcBackendLibraryPath, OneLoader, settings, Stages, Frozen, Resolving
  <2>3. Honoured'
    BY <1>2 DEF SetRfcBackendLibraryPath, settings, OneLoader, Stages, Frozen, Honoured,
                Asked, Resolving, TypeOK
  <2> QED BY <2>1, <2>2, <2>3
<1>3. ASSUME NEW s \in Sessions, BeginCall(s) PROVE Inv'
  <2>1. TypeOK'
    BY <1>3 DEF BeginCall, Request, TypeOK, settings, selection, Idle
  <2>2. (OneLoader /\ Stages /\ Frozen /\ Honoured)'
    BY <1>3 DEF BeginCall, Request, TypeOK, settings, selection, Idle, OneLoader, Stages,
                Frozen, Honoured, Asked, Resolving
  <2> QED BY <2>1, <2>2
<1>4. ASSUME NEW s \in Sessions, UseBackend(s) \/ UnknownBackend(s) PROVE Inv'
  <2>1. TypeOK'
    BY <1>4 DEF UseBackend, UnknownBackend, TypeOK, settings, selection, Idle
  <2>2. (OneLoader /\ Stages /\ Frozen /\ Honoured)'
    BY <1>4 DEF UseBackend, UnknownBackend, TypeOK, settings, selection, Idle, OneLoader,
                Stages, Frozen, Honoured, Asked, Resolving
  <2> QED BY <2>1, <2>2
<1>5. ASSUME NEW s \in Sessions, PickSelection(s) PROVE Inv'
  <2> DEFINE x == [backend |-> SelectedBackend, path |-> SelectedPath]
  <2>1. x \in Selection
    BY <1>5 DEF PickSelection, Selection, SelectedPath, TypeOK
  <2>2. ~ raced => Asked(x)
    BY <1>5 DEF PickSelection, Frozen, Honoured, Asked, SelectedBackend, SelectedPath, NoPath
  <2> HIDE DEF x
  <2>3. session' = [session EXCEPT ![s] = [pc |-> "loading", picked |-> x]]
    BY <1>5 DEF PickSelection, x
  <2>4. TypeOK'
    BY <1>5, <2>1, <2>3 DEF PickSelection, TypeOK, settings, selection
  <2>5. ~ resolved /\ initializing = NoSession /\ initializing' = s
    BY <1>5 DEF PickSelection, Frozen
  <2>6. (OneLoader /\ Stages)'
    BY <1>5, <2>1, <2>3, <2>5 DEF PickSelection, TypeOK, settings, selection, OneLoader,
                                 Stages, Resolving
  <2>7. (Frozen /\ Honoured)'
    BY <1>5, <2>2, <2>3, <2>5 DEF PickSelection, TypeOK, settings, selection, Frozen,
                                 Honoured, Asked, Resolving
  <2> QED BY <2>4, <2>6, <2>7
<1>6. ASSUME NEW s \in Sessions, Load(s) PROVE Inv'
  <2>1. TypeOK'
    BY <1>6 DEF Load, TypeOK, settings, selection
  <2>2. (OneLoader /\ Stages /\ Frozen /\ Honoured)'
    BY <1>6 DEF Load, TypeOK, settings, selection, OneLoader, Stages, Frozen, Honoured,
                Asked, Resolving
  <2> QED BY <2>1, <2>2
<1>7. ASSUME NEW s \in Sessions, LoadFails(s) PROVE Inv'
  <2>1. TypeOK'
    BY <1>7 DEF LoadFails, TypeOK, settings, selection, Idle
  <2>2. \A e \in Sessions : ~ Resolving(e)'
    BY <1>7 DEF LoadFails, TypeOK, OneLoader, Resolving, Idle
  <2>3. served = Unset /\ ~ resolved
    BY <1>7 DEF LoadFails, OneLoader, Stages
  <2> QED BY <1>7, <2>1, <2>2, <2>3
          DEF LoadFails, settings, selection, OneLoader, Stages, Frozen, Honoured, Resolving
<1>8. ASSUME NEW s \in Sessions, Freeze(s) PROVE Inv'
  <2>0. session[s].picked \in Selection /\ session[s].picked.backend \in Backends
    BY <1>8 DEF Freeze, Stages, Resolving
  <2>1. TypeOK'
    BY <1>8, <2>0 DEF Freeze, TypeOK, settings, ActiveBackend
  <2>2. served = Unset /\ initializing = s
    BY <1>8 DEF Freeze, OneLoader
  <2>3. OneLoader' /\ Stages'
    BY <1>8, <2>2 DEF Freeze, TypeOK, settings, OneLoader, Stages, Resolving, ActiveBackend
  <2>4. Frozen' /\ Honoured'
    BY <1>8, <2>2 DEF Freeze, TypeOK, settings, Frozen, Honoured, Asked, Resolving
  <2> QED BY <2>1, <2>3, <2>4
<1>9. ASSUME NEW s \in Sessions, EndResolve(s) PROVE Inv'
  <2>0. /\ session[s].picked \in Selection /\ session[s].picked \in loadable
        /\ resolved /\ requested_backend = session[s].picked.backend
        /\ ~ raced => Asked(session[s].picked)
    BY <1>9 DEF EndResolve, Stages, Honoured, Resolving
  <2>1. TypeOK'
    BY <1>9, <2>0 DEF EndResolve, TypeOK, settings, selection, Idle
  <2>2. \A e \in Sessions : ~ Resolving(e)'
    BY <1>9 DEF EndResolve, TypeOK, OneLoader, Resolving, Idle
  <2>3. (OneLoader /\ Stages)'
    BY <1>9, <2>2 DEF EndResolve, OneLoader, Stages, Resolving
  <2>4. (Frozen /\ Honoured)'
    BY <1>9, <2>0, <2>2 DEF EndResolve, settings, selection, Frozen, Honoured, Asked
  <2> QED BY <2>1, <2>3, <2>4
<1>10. CASE UNCHANGED vars
  BY <1>10 DEF vars, settings, selection, TypeOK, OneLoader, Stages, Frozen, Honoured, Asked,
               Resolving
<1> QED
  BY <1>1, <1>2, <1>3, <1>4, <1>5, <1>6, <1>7, <1>8, <1>9, <1>10 DEF Next, Call

(* Inv, below the invariants a run checks, is an invariant: it adds what    *)
(* the three frozen variables and each call in flight say of one another.  *)
THEOREM Invariance == Spec => []Inv
BY InitInv, NextInv, PTL DEF Spec

(* Whatever is SET, found in the environment or loadable, the selection    *)
(* and its stages stay of their types.                                     *)
THEOREM TypeCorrect == Spec => []TypeOK
<1>1. Inv => TypeOK
  BY DEF Inv
<1> QED BY <1>1, Invariance, PTL

(* No two sessions load a library at once and none does once one serves.   *)
THEOREM AlwaysOneLoader == Spec => []OneLoader
<1>1. Inv => OneLoader
  BY DEF Inv
<1> QED BY <1>1, Invariance, PTL

(* A load that failed freezes nothing.                                     *)
THEOREM AlwaysFrozenOnlyWhenLoaded == Spec => []FrozenOnlyWhenLoaded
<1>1. Inv => FrozenOnlyWhenLoaded
  BY DEF Inv, TypeOK, Frozen, Stages, FrozenOnlyWhenLoaded
<1> QED BY <1>1, Invariance, PTL

(* The frozen name is that of the library loaded.                          *)
THEOREM AlwaysFrozenIsServed == Spec => []FrozenIsServed
<1>1. Inv => FrozenIsServed
  BY DEF Inv, Frozen, FrozenIsServed
<1> QED BY <1>1, Invariance, PTL

(* What accepted SETs asked for is what serves the calls, failed loads and *)
(* the environment notwithstanding, if none was accepted during a load.    *)
THEOREM SetHonoured == Spec => []SetIsHonoured
<1>1. Inv => SetIsHonoured
  BY DEF Inv, Honoured, Asked, SetIsHonoured
<1> QED BY <1>1, Invariance, PTL

-----------------------------------------------------------------------------
(* The tracer.                                                             *)

FileAsSwitched == enabled /\ openable => trace_file

LockHeld ==
  /\ \A t \in Threads :
       /\ call[t].pc = "announce" => trace_mutex = t
       /\ call[t].pc \in {"set", "announce"} => call[t].method \in Setters
  /\ trace_mutex # NoThread =>
       /\ call[trace_mutex].pc \in {"announce", "write"}
       /\ call[trace_mutex].method = "SetTraceDirectory" \/ FileAsSwitched

TracerInv == TracerTypeOK /\ FileFollowsEnabled /\ LockHeld

Calls == [pc : {"idle", "set", "announce", "emit", "write"},
          method : Setters \cup {"none", "Trace"},
          setting : 0 .. 5]

-----------------------------------------------------------------------------
LEMMA LevelOfName ==
  ASSUME NEW l \in Levels
  PROVE  StringToTraceLevel(l) \in 0 .. 5
<1>1. PICK i \in DOMAIN LevelNames : l = LevelNames[i]
  BY TracerAssumption
<1>2. i \in 1 .. 6
  BY <1>1 DEF LevelNames
<1>3. i - 1 \in 0 .. 5 /\ LevelNames[(i - 1) + 1] = l
  BY <1>1, <1>2
<1>4. \E k \in 0 .. 5 : LevelNames[k + 1] = l
  BY <1>3
<1> QED BY <1>4 DEF StringToTraceLevel

LEMMA TracerInitInv == TracerInit => TracerInv
<1> SUFFICES ASSUME TracerInit PROVE TracerInv
  OBVIOUS
<1>1. call = [t \in Threads |-> [pc |-> "idle", method |-> "none", setting |-> 0]]
  BY DEF TracerInit, TracerIdle
<1>2. level \in 0 .. 5 /\ traces \in 0 .. MaxTraces
  BY TracerAssumption DEF TracerInit, INFO
<1>3. call \in [Threads -> Calls]
  BY <1>1 DEF Calls
<1>4. TracerTypeOK
  BY <1>2, <1>3 DEF TracerInit, TracerTypeOK, Calls
<1>5. FileFollowsEnabled
  BY DEF TracerInit, FileFollowsEnabled
<1>6. LockHeld
  BY <1>1 DEF TracerInit, LockHeld
<1> QED BY <1>4, <1>5, <1>6 DEF TracerInv

LEMMA TracerNextInv == TracerInv /\ [TracerNext]_tracer_vars => TracerInv'
<1> SUFFICES ASSUME TracerInv, [TracerNext]_tracer_vars PROVE TracerInv'
  OBVIOUS
<1>0. /\ NoThread \notin Threads /\ MaxTraces \in Nat
      /\ call \in [Threads -> Calls]
  BY TracerAssumption DEF TracerInv, TracerTypeOK, Calls
<1>1. ASSUME NEW t \in Threads,
             NEW pc \in {"emit", "set"}, NEW m \in Setters \cup {"Trace"},
             NEW n \in 0 .. 5,
             pc = "set" => m \in Setters, Begin(t, pc, m, n)
      PROVE  TracerInv'
  <2>1. call' = [call EXCEPT ![t] = [pc |-> pc, method |-> m, setting |-> n]]
    BY <1>1 DEF Begin
  <2>2. call' \in [Threads -> Calls]
    BY <1>0, <2>1 DEF Calls
  <2>3. traces' \in 0 .. MaxTraces
    BY <1>0, <1>1 DEF Begin, TracerInv, TracerTypeOK
  <2>4. TracerTypeOK'
    BY <1>1, <2>2, <2>3 DEF Begin, TracerInv, TracerTypeOK, Calls
  <2>5. FileFollowsEnabled' /\ (FileAsSwitched' <=> FileAsSwitched)
    BY <1>1 DEF Begin, TracerInv, FileFollowsEnabled, FileAsSwitched
  <2>6. trace_mutex' = trace_mutex /\ call[t].pc = "idle"
    BY <1>1 DEF Begin, Busy
  <2>7. LockHeld'
    BY <1>0, <1>1, <2>1, <2>5, <2>6 DEF TracerInv, LockHeld, TracerTypeOK
  <2> QED BY <2>4, <2>5, <2>7 DEF TracerInv
<1>2. ASSUME NEW t \in Threads, BeginTrace(t) PROVE TracerInv'
  BY <1>1, <1>2 DEF BeginTrace, MessageLevels
<1>3. ASSUME NEW t \in Threads, BeginSet(t) PROVE TracerInv'
  BY <1>1, <1>3, LevelOfName DEF BeginSet, Setters
<1>4. ASSUME NEW t \in Threads, SetEnabled(t) PROVE TracerInv'
  <2>1. trace_mutex = NoThread /\ trace_mutex' = NoThread
    BY <1>4 DEF SetEnabled, UnlockAndAnnounce
  <2>2. \/ call' = [call EXCEPT ![t] = TracerIdle]
        \/ call' = [call EXCEPT ![t].pc = "emit", ![t].setting = INFO]
    BY <1>4 DEF SetEnabled, UnlockAndAnnounce, Return
  <2>3. call' \in [Threads -> Calls]
    BY <1>0, <2>2 DEF Calls, TracerIdle, INFO
  <2>4. FileFollowsEnabled'
    <3> DEFINE flag == call[t].setting = 1
    <3>1. enabled' = flag /\ openable' = openable
      BY <1>4 DEF SetEnabled
    <3>2. CASE enabled = flag /\ UNCHANGED trace_file
      BY <2>1, <3>1, <3>2 DEF TracerInv, FileFollowsEnabled
    <3>3. CASE enabled # flag /\ trace_file' = FileAfter(flag)
      BY <3>1, <3>3 DEF FileAfter, EnsureTraceFile, FileFollowsEnabled
    <3>4. CASE flag /\ ~ enabled /\ ~ openable /\ UNCHANGED trace_file
      BY <3>1, <3>4 DEF TracerInv, FileFollowsEnabled
    <3> HIDE DEF flag
    <3> QED BY <1>4, <3>2, <3>3, <3>4 DEF SetEnabled, flag
  <2>5. TracerTypeOK'
    BY <1>4, <2>1, <2>3
    DEF SetEnabled, FileAfter, EnsureTraceFile, TracerInv,
        TracerTypeOK, Calls
  <2>6. \A u \in Threads : call'[u].pc \notin {"announce", "set"} \/ call'[u] = call[u]
    BY <1>0, <2>2 DEF Calls, TracerIdle
  <2>7. LockHeld'
    BY <1>0, <2>1, <2>6 DEF TracerInv, LockHeld
  <2> QED BY <2>4, <2>5, <2>7 DEF TracerInv
<1>5. ASSUME NEW t \in Threads, SetOption(t) PROVE TracerInv'
  <2>1. /\ trace_mutex = NoThread /\ trace_mutex' = t
        /\ call[t].pc = "set" /\ call[t].method \in Setters
        /\ call' = [call EXCEPT ![t].pc = "announce"]
        /\ UNCHANGED <<enabled, trace_file, lines, traces>>
    BY <1>5 DEF SetOption, Goto, TracerInv, LockHeld
  <2>2. call' \in [Threads -> Calls]
    BY <1>0, <2>1 DEF Calls
  <2>3. /\ level' \in 0 .. 5 /\ openable' \in BOOLEAN /\ reconfigured' \in BOOLEAN
        /\ call[t].method # "SetTraceDirectory" => openable' = openable
    BY <1>0, <1>5 DEF SetOption, TracerInv, TracerTypeOK, Calls
  <2>4. TracerTypeOK'
    BY <2>1, <2>2, <2>3 DEF TracerInv, TracerTypeOK, Calls
  <2>5. FileFollowsEnabled'
    BY <1>0, <2>1 DEF TracerInv, FileFollowsEnabled
  <2>6. call[t].method = "SetTraceDirectory" \/ FileAsSwitched'
    BY <2>1, <2>3 DEF TracerInv, FileFollowsEnabled, FileAsSwitched
  <2>7. /\ call'[t].pc = "announce" /\ call'[t].method = call[t].method
        /\ \A u \in Threads \ {t} : call'[u] = call[u]
    BY <1>0, <2>1 DEF Calls
  <2>8. LockHeld'
    BY <1>0, <2>1, <2>6, <2>7 DEF TracerInv, LockHeld
  <2> QED BY <2>4, <2>5, <2>8 DEF TracerInv
<1>6. ASSUME NEW t \in Threads, SetTraceDirectoryFails(t) PROVE TracerInv'
  <2>1. /\ trace_mutex = NoThread /\ openable' = FALSE
        /\ call' = [call EXCEPT ![t] = TracerIdle]
        /\ UNCHANGED <<enabled, level, trace_file, trace_mutex, lines, reconfigured,
                       traces>>
    BY <1>6 DEF SetTraceDirectoryFails, Return
  <2>2. call' \in [Threads -> Calls]
    BY <1>0, <2>1 DEF Calls, TracerIdle
  <2>3. TracerTypeOK' /\ FileFollowsEnabled'
    BY <2>1, <2>2 DEF TracerInv, TracerTypeOK, FileFollowsEnabled, Calls
  <2>4. \A u \in Threads : call'[u].pc \notin {"announce", "set"} \/ call'[u] = call[u]
    BY <1>0, <2>1 DEF Calls, TracerIdle
  <2>5. LockHeld'
    BY <1>0, <2>1, <2>4 DEF TracerInv, LockHeld
  <2> QED BY <2>3, <2>5 DEF TracerInv
<1>7. ASSUME NEW t \in Threads, Announce(t) PROVE TracerInv'
  <2>1. call[t].pc = "announce" /\ trace_mutex = t /\ t # NoThread
        /\ (call[t].method = "SetTraceDirectory" \/ FileAsSwitched)
        /\ UNCHANGED <<openable, enabled, level, lines, reconfigured, traces>>
    BY <1>0, <1>7 DEF Announce, TracerInv, LockHeld
  <2>2. CASE ShouldEmit(INFO)
    <3>1. call' = [call EXCEPT ![t].pc = "write"] /\ UNCHANGED <<trace_file, trace_mutex>>
      BY <1>7, <2>2 DEF Announce, Goto
    <3>2. call' \in [Threads -> Calls]
      BY <1>0, <3>1 DEF Calls
    <3>3. TracerTypeOK' /\ FileFollowsEnabled' /\ (FileAsSwitched' <=> FileAsSwitched)
      BY <2>1, <3>1, <3>2
      DEF TracerInv, TracerTypeOK, FileFollowsEnabled, FileAsSwitched, Calls
    <3>4. /\ call'[t].pc = "write" /\ call'[t].method = call[t].method
          /\ \A u \in Threads \ {t} : call'[u] = call[u]
      BY <1>0, <3>1 DEF Calls
    <3>5. LockHeld'
      BY <1>0, <2>1, <3>1, <3>3, <3>4 DEF TracerInv, LockHeld
    <3> QED BY <3>3, <3>5 DEF TracerInv
  <2>3. CASE ~ ShouldEmit(INFO)
    <3>1. /\ call' = [call EXCEPT ![t] = TracerIdle] /\ trace_mutex' = NoThread
          /\ trace_file' = IF call[t].method = "SetTraceDirectory" /\ enabled
                             THEN EnsureTraceFile(trace_file) ELSE trace_file
      BY <1>7, <2>3 DEF Announce, Return
    <3>2. call' \in [Threads -> Calls]
      BY <1>0, <3>1 DEF Calls, TracerIdle
    <3>3. trace_file' \in BOOLEAN /\ (trace_file' => enabled) /\ FileAsSwitched'
      BY <2>1, <3>1
      DEF TracerInv, TracerTypeOK, FileFollowsEnabled, FileAsSwitched,
          EnsureTraceFile
    <3>4. TracerTypeOK' /\ FileFollowsEnabled'
      BY <2>1, <3>1, <3>2, <3>3
      DEF TracerInv, TracerTypeOK, FileFollowsEnabled, FileAsSwitched, Calls
    <3>5. /\ call'[t].pc = "idle"
          /\ \A u \in Threads \ {t} : call'[u] = call[u]
      BY <1>0, <3>1 DEF TracerIdle
    <3>6. LockHeld'
      BY <1>0, <2>1, <3>1, <3>5 DEF TracerInv, LockHeld
    <3> QED BY <3>4, <3>6 DEF TracerInv
  <2> QED BY <2>2, <2>3
<1>8. ASSUME NEW t \in Threads, Emit(t) \/ WriteToFile(t) PROVE TracerInv'
  <2>1. /\ call[t].pc \in {"emit", "write"} /\ trace_mutex' = trace_mutex
        /\ call[t].pc = "write" => trace_mutex = NoThread
        /\ call' = [call EXCEPT ![t].pc = "write"] \/ call' = [call EXCEPT ![t] = TracerIdle]
        /\ lines' \in Nat
        /\ UNCHANGED <<openable, enabled, level, trace_file, reconfigured, traces>>
    BY <1>8
    DEF Emit, WriteToFile, Goto, Return, TracerInv, TracerTypeOK
  <2>2. call' \in [Threads -> Calls]
    BY <1>0, <2>1 DEF Calls, TracerIdle
  <2>3. TracerTypeOK' /\ FileFollowsEnabled' /\ (FileAsSwitched' <=> FileAsSwitched)
    BY <2>1, <2>2 DEF TracerInv, TracerTypeOK, FileFollowsEnabled, FileAsSwitched, Calls
  <2>4. /\ call'[t].pc \in {"write", "idle"}
        /\ \A u \in Threads \ {t} : call'[u] = call[u]
    BY <1>0, <2>1 DEF Calls, TracerIdle
  <2>5. trace_mutex # t
    BY <1>0, <2>1 DEF TracerInv, LockHeld
  <2>6. LockHeld'
    BY <1>0, <2>1, <2>3, <2>4, <2>5 DEF TracerInv, LockHeld, TracerTypeOK
  <2> QED BY <2>3, <2>6 DEF TracerInv
<1>9. CASE UNCHANGED tracer_vars
  BY <1>9
  DEF tracer_vars, TracerInv, TracerTypeOK, FileFollowsEnabled, LockHeld,
      FileAsSwitched
<1> QED BY <1>2, <1>3, <1>4, <1>5, <1>6, <1>7, <1>8, <1>9 DEF TracerNext, Step

(* The rules of the file and of the lock are invariant together.           *)
THEOREM TracerInvariance == TracerSpec => []TracerInv
BY TracerInitInv, TracerNextInv, PTL DEF TracerSpec

(* The switches, the file and the lock stay of their types: the lock has   *)
(* at most one holder.                                                     *)
THEOREM TracerTypeCorrect == TracerSpec => []TracerTypeOK
<1>1. TracerInv => TracerTypeOK
  BY DEF TracerInv
<1> QED BY <1>1, TracerInvariance, PTL

(* A file is held only while tracing is on, and whenever it is on and the  *)
(* directory takes one: whatever sessions SET at the same time.            *)
THEOREM FileAlwaysFollowsEnabled == TracerSpec => []FileFollowsEnabled
<1>1. TracerInv => FileFollowsEnabled
  BY DEF TracerInv
<1> QED BY <1>1, TracerInvariance, PTL

(* No line reaches the file of a tracer that is off, though the level is   *)
(* checked without the lock and long before the line is written.           *)
THEOREM NothingEverWrittenWhenOff == TracerSpec => NothingWrittenWhenOff
<1>1. TracerInv /\ [TracerNext]_tracer_vars => [lines' # lines => enabled]_tracer_vars
  <2> SUFFICES ASSUME TracerInv, [TracerNext]_tracer_vars, lines' # lines PROVE enabled
    OBVIOUS
  <2>1. PICK t \in Threads : WriteToFile(t)
    BY DEF TracerNext, tracer_vars, BeginTrace, BeginSet, Begin,
           Step, SetEnabled, SetOption, SetTraceDirectoryFails,
           Announce, Emit
  <2>2. trace_file
    BY <2>1 DEF WriteToFile
  <2> QED BY <2>2 DEF TracerInv, FileFollowsEnabled
<1> QED BY <1>1, TracerInvariance, PTL DEF TracerSpec, NothingWrittenWhenOff
=============================================================================
