----------------------------- MODULE RfcBackend -----------------------------
(***************************************************************************)
(* Which library serves SAP RFC calls (sap_rfc_api.cpp).  Sessions of one  *)
(* process SET erpl_rfc_backend and erpl_rfc_backend_path and make RFC     *)
(* calls; the first call resolves the selection, loads the library and     *)
(* freezes both for the life of the process.  The selection is guarded by  *)
(* SelectionLock, which is not held while the library is loaded; the       *)
(* resolution is the initialisation of a function-local static, which one  *)
(* session runs and the others wait for.                                   *)
(***************************************************************************)
EXTENDS Integers

CONSTANTS
  Sessions,
  Backends,        \* "nwrfc" and "proto"
  Paths,           \* library paths a user may name
  MaxRequests      \* bound: SETs and calls in a behaviour

NoPath    == ""           \* search for the library
NoBackend == "none"
NoSession == "no session"

ASSUME BackendAssumption ==
  /\ "nwrfc" \in Backends /\ NoBackend \notin Backends
  /\ NoSession \notin Sessions
  /\ MaxRequests \in Nat

VARIABLES
  environment,         \* ERPL_RFC_BACKEND and ERPL_RFC_BACKEND_PATH
  loadable,            \* the <<backend, path>> that can be loaded
  requested_backend, explicitly_requested, requested_path, resolved,
                       \* g_requested_backend and its neighbours
  initializing,        \* the session that initialises the static, if any
  served,              \* what the initialised static holds
  session,             \* per session, the call in flight
  set_backend,         \* the last backend a SET was accepted for
  raced,               \* a SET was accepted while a call was loading that
                       \* has not failed
  requests

selection == <<requested_backend, explicitly_requested, requested_path, resolved>>
settings  == <<environment, loadable>>
vars == <<settings, selection, initializing, served, session, set_backend, raced,
          requests>>

Unset     == [backend |-> NoBackend, path |-> NoPath]

AllPaths == Paths \cup {NoPath}
Selection == [backend : Backends, path : AllPaths]

Idle == [pc |-> "idle", picked |-> Unset]

TypeOK ==
  /\ environment \in [backend : Backends \cup {NoBackend, "unknown"}, path : AllPaths]
  /\ loadable \in SUBSET Selection
  /\ requested_backend \in Backends
  /\ explicitly_requested \in BOOLEAN
  /\ requested_path \in AllPaths
  /\ resolved \in BOOLEAN
  /\ initializing \in Sessions \cup {NoSession}
  /\ served \in Selection \cup {Unset}
  /\ session \in [Sessions -> [pc : {"idle", "calling", "loading", "loaded", "resolved"},
                               picked : Selection \cup {Unset}]]
  /\ set_backend \in Backends \cup {NoBackend}
  /\ raced \in BOOLEAN
  /\ requests \in 0 .. MaxRequests

Init ==
  /\ environment \in [backend : Backends \cup {NoBackend, "unknown"}, path : AllPaths]
  /\ loadable \in SUBSET Selection
  /\ requested_backend = "nwrfc"
  /\ explicitly_requested = FALSE
  /\ requested_path = NoPath
  /\ resolved = FALSE
  /\ initializing = NoSession
  /\ served = Unset
  /\ session = [s \in Sessions |-> Idle]
  /\ set_backend = NoBackend
  /\ raced = FALSE
  /\ requests = 0

-----------------------------------------------------------------------------
Request(s) ==
  /\ session[s].pc = "idle"
  /\ requests < MaxRequests
  /\ requests' = requests + 1

(* SetRfcBackend: refused once resolved, unless it names the active one.   *)
SetRfcBackend(s, b) ==
  /\ Request(s)
  /\ IF resolved
       THEN UNCHANGED <<requested_backend, explicitly_requested>>
       ELSE requested_backend' = b /\ explicitly_requested' = TRUE
  /\ set_backend' = IF resolved /\ b # requested_backend THEN set_backend ELSE b
  /\ raced' = (raced \/ (~ resolved /\ initializing # NoSession))
  /\ UNCHANGED <<settings, requested_path, resolved, initializing, served, session>>

(* SetRfcBackendLibraryPath: refused once resolved, unless it changes      *)
(* nothing.                                                                *)
SetRfcBackendLibraryPath(s, p) ==
  /\ Request(s)
  /\ requested_path' = IF resolved THEN requested_path ELSE p
  /\ raced' = (raced \/ (~ resolved /\ initializing # NoSession))
  /\ UNCHANGED <<settings, requested_backend, explicitly_requested, resolved,
                 initializing, served, session, set_backend>>

(* An RFC call asks for the entry points.                                  *)
BeginCall(s) ==
  /\ Request(s)
  /\ session' = [session EXCEPT ![s] = [Idle EXCEPT !.pc = "calling"]]
  /\ UNCHANGED <<settings, selection, initializing, served, set_backend, raced>>

(* The static is initialised: the call is served.                          *)
UseBackend(s) ==
  /\ session[s].pc = "calling"
  /\ served # Unset
  /\ session' = [session EXCEPT ![s] = Idle]
  /\ UNCHANGED <<settings, selection, initializing, served, set_backend, raced, requests>>

(* Mutant: the environment outranks an explicit SET.                       *)
EnvironmentFirst ==
  IF environment.backend = NoBackend THEN requested_backend ELSE environment.backend

(* What is asked for: an explicit SET, else the environment, else nwrfc.   *)
SelectedBackend ==
  IF explicitly_requested THEN requested_backend
  ELSE IF environment.backend = NoBackend THEN "nwrfc"
  ELSE environment.backend

SelectedPath == IF requested_path = NoPath THEN environment.path ELSE requested_path

(* Mutant: frozen before the library is loaded.                            *)
EarlyPickSelection(s) ==
  /\ session[s].pc = "calling"
  /\ served = Unset
  /\ initializing = NoSession
  /\ SelectedBackend \in Backends
  /\ initializing' = s
  /\ session' = [session EXCEPT ![s] =
       [pc |-> "loading", picked |-> [backend |-> SelectedBackend, path |-> SelectedPath]]]
  /\ requested_backend' = SelectedBackend
  /\ resolved' = TRUE
  /\ UNCHANGED <<settings, requested_path, explicitly_requested, served, set_backend,
                 raced, requests>>

(* Mutant: a plain test of the flag in place of the static's guard.        *)
UnguardedPickSelection(s) ==
  /\ session[s].pc = "calling"
  /\ served = Unset
  /\ SelectedBackend \in Backends
  /\ initializing' = s
  /\ session' = [session EXCEPT ![s] =
       [pc |-> "loading", picked |-> [backend |-> SelectedBackend, path |-> SelectedPath]]]
  /\ UNCHANGED <<settings, selection, served, set_backend, raced, requests>>

(* The first call, or the first after a failed one, reads the selection    *)
(* under the lock and goes on to load it without.                          *)
PickSelection(s) ==
  /\ session[s].pc = "calling"
  /\ served = Unset
  /\ initializing = NoSession
  /\ SelectedBackend \in Backends
  /\ initializing' = s
  /\ session' = [session EXCEPT ![s] =
       [pc |-> "loading", picked |-> [backend |-> SelectedBackend, path |-> SelectedPath]]]
  /\ UNCHANGED <<settings, selection, served, set_backend, raced, requests>>

(* ERPL_RFC_BACKEND names no backend: the call fails.                      *)
UnknownBackend(s) ==
  /\ session[s].pc = "calling"
  /\ served = Unset
  /\ initializing = NoSession
  /\ SelectedBackend \notin Backends
  /\ session' = [session EXCEPT ![s] = Idle]
  /\ UNCHANGED <<settings, selection, initializing, served, set_backend, raced, requests>>

(* dlopen and dlsym of every entry point succeed.                          *)
Load(s) ==
  /\ session[s].pc = "loading"
  /\ session[s].picked \in loadable
  /\ session' = [session EXCEPT ![s].pc = "loaded"]
  /\ UNCHANGED <<settings, selection, initializing, served, set_backend, raced, requests>>

(* Mutant: the guard of the static is not given back.                      *)
StuckLoadFails(s) ==
  /\ session[s].pc = "loading"
  /\ session[s].picked \notin loadable
  /\ session' = [session EXCEPT ![s] = Idle]
  /\ UNCHANGED <<settings, selection, initializing, served, set_backend, raced, requests>>

(* One of them does not: the static stays uninitialised, the call fails.   *)
LoadFails(s) ==
  /\ session[s].pc = "loading"
  /\ session[s].picked \notin loadable
  /\ session' = [session EXCEPT ![s] = Idle]
  /\ initializing' = NoSession
  /\ raced' = FALSE
  /\ UNCHANGED <<settings, selection, served, set_backend, requests>>

(* Mutant: the name in the environment is recorded as it stands.           *)
RawActiveBackend(picked) == environment.backend

(* Mutant: only the flag is set.                                           *)
ForgetfulActiveBackend(picked) == requested_backend

(* What a later SET is compared with.                                      *)
ActiveBackend(picked) == picked.backend

(* The selection is frozen, under the lock again.                          *)
Freeze(s) ==
  /\ session[s].pc = "loaded"
  /\ requested_backend' = ActiveBackend(session[s].picked)
  /\ resolved' = TRUE
  /\ session' = [session EXCEPT ![s].pc = "resolved"]
  /\ UNCHANGED <<settings, explicitly_requested, requested_path, initializing, served,
                 set_backend, raced, requests>>

(* The static is initialised, and the call it was initialised for served.  *)
EndResolve(s) ==
  /\ session[s].pc = "resolved"
  /\ served' = session[s].picked
  /\ initializing' = NoSession
  /\ session' = [session EXCEPT ![s] = Idle]
  /\ UNCHANGED <<settings, selection, set_backend, raced, requests>>

-----------------------------------------------------------------------------
Call(s) ==
  \/ UseBackend(s) \/ PickSelection(s) \/ UnknownBackend(s)
  \/ Load(s) \/ LoadFails(s) \/ Freeze(s) \/ EndResolve(s)

Next ==
  \E s \in Sessions :
    \/ \E b \in Backends : SetRfcBackend(s, b)
    \/ \E p \in AllPaths : SetRfcBackendLibraryPath(s, p)
    \/ BeginCall(s)
    \/ Call(s)

Spec == Init /\ [][Next]_vars

(* A thread that runs or waits for the static's guard gets on.             *)
FairSpec == Spec /\ \A s \in Sessions : WF_vars(Call(s))

-----------------------------------------------------------------------------
(* At most one session loads a library, and none does once a backend       *)
(* serves: no two libraries ever share the process's handles.              *)
OneLoader ==
  /\ \A s \in Sessions : session[s].pc \in {"loading", "loaded", "resolved"} =>
       initializing = s /\ served = Unset
  /\ initializing # NoSession => session[initializing].pc \in {"loading", "loaded", "resolved"}

(* The selection is frozen only by a library that could be loaded: a       *)
(* failed load can be repaired by another SET.                             *)
FrozenOnlyWhenLoaded ==
  resolved => \/ served \in loadable
              \/ initializing # NoSession /\ session[initializing].picked \in loadable

(* A SET that names the backend in use is accepted, any other refused: the *)
(* frozen name is that of the library loaded.                              *)
FrozenIsServed ==
  resolved /\ served # Unset => requested_backend = served.backend

(* Accepted SETs of the backend and of the path are what serves the calls, *)
(* across failed loads and whatever the environment says, unless one was   *)
(* accepted while a call was already loading.                              *)
SetIsHonoured ==
  served # Unset /\ ~ raced =>
    /\ set_backend # NoBackend => served.backend = set_backend
    /\ requested_path # NoPath => served.path = requested_path

(* A call is served or fails; none waits for the static for ever.          *)
CallsEnd == \A s \in Sessions : session[s].pc = "calling" ~> session[s].pc = "idle"
=============================================================================
