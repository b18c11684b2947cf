----------------------------- MODULE ErplTracer -----------------------------
(***************************************************************************)
(* The process-wide tracer (erpl_tracing.cpp).  Any thread traces; any     *)
(* session changes the tracer with a SET, whose callback runs a setter.    *)
(* Setters and file writes take trace_mutex, which is not recursive;       *)
(* ShouldEmit reads enabled and level without it.  What the code does with *)
(* the output mode, the size limit and the rotation flag is to store them. *)
(* The names are told apart from those of RfcBackend, beside which it is   *)
(* proved correct.                                                         *)
(***************************************************************************)
EXTENDS Integers, Sequences

CONSTANTS
  Threads,
  Levels,         \* the names of levels sessions set
  MaxTraces     \* bound: calls of the tracer in a behaviour

LevelNames == <<"NONE", "ERROR", "WARN", "INFO", "DEBUG", "TRACE">>

NoThread == "no thread"

ASSUME TracerAssumption ==
  /\ NoThread \notin Threads
  /\ Levels \subseteq {LevelNames[i] : i \in DOMAIN LevelNames}
  /\ MaxTraces \in Nat

(* Mutant: the enumeration is taken to start at 1.                         *)
OneBasedTraceLevel(name) == CHOOSE i \in 1 .. 6 : LevelNames[i] = name

StringToTraceLevel(name) == CHOOSE i \in 0 .. 5 : LevelNames[i + 1] = name

INFO == 3
MessageLevels == 2 .. 4     \* WARN, INFO, DEBUG: below, at and above INFO

VARIABLES
  openable,       \* the file of the trace directory can be opened
  enabled, level,
  trace_file,     \* an open stream is held
  trace_mutex,    \* its owner
  call,           \* per thread, the call in flight
  lines,          \* lines written to the file
  reconfigured,   \* a setter other than SetEnabled ran while tracing was on
  traces

tracer_vars == <<openable, enabled, level, trace_file, trace_mutex, call, lines,
                 reconfigured, traces>>

(* "setting" is the value a setter stores, or the level of a message.      *)
Setters == {"SetEnabled", "SetLevel", "SetTraceDirectory", "SetOther"}
TracerIdle == [pc |-> "idle", method |-> "none", setting |-> 0]
Busy(t) == call[t].pc # "idle"

TracerTypeOK ==
  /\ openable \in BOOLEAN
  /\ enabled \in BOOLEAN
  /\ level \in 0 .. 5
  /\ trace_file \in BOOLEAN
  /\ trace_mutex \in Threads \cup {NoThread}
  /\ call \in [Threads -> [pc : {"idle", "set", "announce", "emit", "write"},
                           method : Setters \cup {"none", "Trace"},
                           setting : 0 .. 5]]
  /\ lines \in Nat
  /\ reconfigured \in BOOLEAN
  /\ traces \in 0 .. MaxTraces

TracerInit ==
  /\ openable \in BOOLEAN
  /\ enabled = FALSE
  /\ level = INFO
  /\ trace_file = FALSE
  /\ trace_mutex = NoThread
  /\ call = [t \in Threads |-> TracerIdle]
  /\ lines = 0
  /\ reconfigured = FALSE
  /\ traces = 0

-----------------------------------------------------------------------------
Goto(t, pc) == call' = [call EXCEPT ![t].pc = pc]
Return(t)   == call' = [call EXCEPT ![t] = TracerIdle]

Begin(t, pc, method, setting) ==
  /\ ~ Busy(t)
  /\ traces < MaxTraces
  /\ traces' = traces + 1
  /\ call' = [call EXCEPT ![t] = [pc |-> pc, method |-> method, setting |-> setting]]
  /\ UNCHANGED <<openable, enabled, level, trace_file, trace_mutex, lines, reconfigured>>

BeginTrace(t) == \E l \in MessageLevels : Begin(t, "emit", "Trace", l)

(* The callback of a SET.                                                  *)
BeginSet(t) ==
  \/ \E b \in {0, 1} : Begin(t, "set", "SetEnabled", b)
  \/ \E l \in Levels : Begin(t, "set", "SetLevel", StringToTraceLevel(l))
  \/ \E m \in {"SetTraceDirectory", "SetOther"} : Begin(t, "set", m, 0)

(* Mutant: no file is opened.                                              *)
LazyTraceFile(open) == open

(* EnsureTraceFile: an open file stays, wherever it is.                    *)
EnsureTraceFile(open) == open \/ openable

(* Mutant: switching tracing off leaves the file open.                     *)
KeptFileAfter(flag) == trace_file \/ (flag /\ openable)

FileAfter(flag) == flag /\ EnsureTraceFile(trace_file)

(* Mutant: the change is announced before the lock is given up.            *)
AnnounceAndUnlock(t) == trace_mutex' = t /\ Goto(t, "announce")

UnlockAndAnnounce(t) ==
  /\ UNCHANGED trace_mutex
  /\ call' = [call EXCEPT ![t].pc = "emit", ![t].setting = INFO]

(* SetEnabled, under the lock; it announces the change after giving it up. *)
SetEnabled(t) ==
  LET flag == call[t].setting = 1 IN
  /\ call[t].pc = "set" /\ call[t].method = "SetEnabled"
  /\ trace_mutex = NoThread
  /\ enabled' = flag
  /\ \/ /\ enabled = flag
        /\ Return(t)
        /\ UNCHANGED <<trace_file, trace_mutex>>
     \/ /\ enabled # flag
        /\ trace_file' = FileAfter(flag)
        /\ UnlockAndAnnounce(t)
     \/ /\ flag /\ ~ enabled /\ ~ openable    \* the directory cannot be created
        /\ Return(t)
        /\ UNCHANGED <<trace_file, trace_mutex>>
  /\ UNCHANGED <<openable, level, lines, reconfigured, traces>>

(* Every other setter stores its value and keeps the lock.  A new trace    *)
(* directory may or may not take a file.                                   *)
SetOption(t) ==
  /\ call[t].pc = "set" /\ call[t].method # "SetEnabled"
  /\ trace_mutex = NoThread
  /\ trace_mutex' = t
  /\ openable' \in IF call[t].method = "SetTraceDirectory" THEN BOOLEAN ELSE {openable}
  /\ level' = IF call[t].method = "SetLevel" THEN call[t].setting ELSE level
  /\ reconfigured' = (reconfigured \/ enabled)
  /\ Goto(t, "announce")
  /\ UNCHANGED <<enabled, trace_file, lines, traces>>

(* The trace directory is stored, but cannot be created.                   *)
SetTraceDirectoryFails(t) ==
  /\ call[t].pc = "set" /\ call[t].method = "SetTraceDirectory"
  /\ trace_mutex = NoThread
  /\ openable' = FALSE
  /\ Return(t)
  /\ UNCHANGED <<enabled, level, trace_file, trace_mutex, lines, reconfigured, traces>>

ShouldEmit(l) == enabled /\ l <= level

(* It announces the change under the lock.                                 *)
Announce(t) ==
  /\ call[t].pc = "announce"
  /\ \/ /\ ShouldEmit(INFO)
        /\ Goto(t, "write")
        /\ UNCHANGED <<trace_file, trace_mutex>>
     \/ /\ ~ ShouldEmit(INFO)
        /\ trace_mutex' = NoThread
        /\ trace_file' = IF call[t].method = "SetTraceDirectory" /\ enabled
                           THEN EnsureTraceFile(trace_file) ELSE trace_file
        /\ Return(t)
  /\ UNCHANGED <<openable, enabled, level, lines, reconfigured, traces>>

(* Trace: ShouldEmit, without the lock.                                    *)
Emit(t) ==
  /\ call[t].pc = "emit"
  /\ IF ShouldEmit(call[t].setting) THEN Goto(t, "write") ELSE Return(t)
  /\ UNCHANGED <<openable, enabled, level, trace_file, trace_mutex, lines, reconfigured,
                 traces>>

(* WriteToFile: it waits for the lock, whoever holds it.                   *)
WriteToFile(t) ==
  /\ call[t].pc = "write"
  /\ trace_mutex = NoThread
  /\ lines' = IF trace_file THEN lines + 1 ELSE lines
  /\ Return(t)
  /\ UNCHANGED <<openable, enabled, level, trace_file, trace_mutex, reconfigured,
                 traces>>

-----------------------------------------------------------------------------
Step(t) ==
  \/ SetEnabled(t) \/ SetOption(t) \/ SetTraceDirectoryFails(t)
  \/ Announce(t) \/ Emit(t) \/ WriteToFile(t)

TracerNext == \E t \in Threads : BeginTrace(t) \/ BeginSet(t) \/ Step(t)

TracerSpec == TracerInit /\ [][TracerNext]_tracer_vars

(* A thread runs until it waits for the mutex.                             *)
FairTracerSpec == TracerSpec /\ \A t \in Threads : WF_tracer_vars(Step(t))

-----------------------------------------------------------------------------
(* A file is held only while tracing is on, and always then if the trace   *)
(* directory takes one, whichever setters of whichever sessions ran.  About*)
(* SetEnabled's early return and EnsureTraceFile's two callers.            *)
FileFollowsEnabled ==
  /\ trace_file => enabled
  /\ trace_mutex = NoThread /\ enabled /\ openable => trace_file

(* A message that passed ShouldEmit before tracing was switched off is not *)
(* written after.                                                          *)
NothingWrittenWhenOff == [][lines' # lines => enabled]_tracer_vars

(* Every call of the tracer returns, if the options are set before tracing *)
(* is switched on: "Call Info outside the lock to avoid deadlock".         *)
CallsReturn == \A t \in Threads : Busy(t) ~> ~ Busy(t) \/ reconfigured

(* The same in any order of the SETs, as in API_REFERENCE's example.       *)
CallsAlwaysReturn == \A t \in Threads : Busy(t) ~> ~ Busy(t)
=============================================================================
