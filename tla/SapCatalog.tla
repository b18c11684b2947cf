----------------------------- MODULE SapCatalog -----------------------------
(***************************************************************************)
(* An SAP system attached as a database: SapStorageAttach, the generator   *)
(* of table entries (SapDefaultGenerator), the catalog that keeps it alive *)
(* (SapCatalog) and the scan of an entry (SapTableEntry).                  *)
(*                                                                         *)
(* Several sessions use one attachment at a time: they SELECT from a table *)
(* by name, enumerate the catalog (SHOW TABLES) and call its table         *)
(* functions, while tables come, change and go in the SAP system and       *)
(* secrets in DuckDB.  The entries and the flag created_all_entries are    *)
(* DuckDB's CatalogSet: a lookup first looks among the entries, and asks   *)
(* the generator only while the flag is off; an enumeration creates the    *)
(* generator's default entries and sets the flag.  Its lock is not held    *)
(* while the generator calls SAP.                                          *)
(***************************************************************************)
EXTENDS Integers, FiniteSets

CONSTANTS
  Sessions,
  Tables,
  TablesAtFirst,                \* those the SAP system has when the model starts
  Secrets,                      \* names of secrets
  SapSecrets,                   \* those of type sap_rfc
  NoSecret,                     \* no secret named
  TablesOptions,                \* TABLES: exact names, and patterns, each the
                                \* set of names it matches; both empty: no TABLES
  MAX_ATTACH_TABLE_EXPANSION,   \* 5000
  MaxVersion,                   \* bound: changes of a table's columns
  MaxEvents,                    \* bound: changes outside the sessions and
                                \* failing calls, together
  MaxCalls                      \* bound: calls of all sessions

ASSUME CatalogAssumption ==
  /\ SapSecrets \subseteq Secrets /\ NoSecret \notin Secrets
  /\ TablesOptions \subseteq [names : SUBSET Tables, patterns : SUBSET SUBSET Tables]
  /\ TablesAtFirst \subseteq Tables
  /\ {MAX_ATTACH_TABLE_EXPANSION, MaxVersion, MaxEvents, MaxCalls} \subseteq Nat
  /\ MaxVersion > 0

VARIABLES
  ddic,                  \* per table the version of its columns, 0: no such table
  secrets,               \* the secrets that exist
  attached,              \* the attachment, or Detached
  entries,               \* per table the columns of its entry, 0: no entry
  created_all_entries,   \* of DuckDB's catalog set of tables
  call,                  \* per session its call in flight, or the last one
  calls, events          \* counters of the bounds

vars == <<ddic, secrets, attached, entries, created_all_entries, call, calls, events>>
outside == <<ddic, secrets>>

NoTables == [names |-> {}, patterns |-> {}]
Detached == [secret |-> NoSecret, option |-> NoTables, allowed |-> {}, live |-> FALSE]
NoEntries == [t \in Tables |-> 0]
NoTable == "no table"

(* "missing" and "raced" are history: the table did not exist at some      *)
(* moment of the lookup; an enumeration ended in the middle of it.         *)
Idle == [op |-> "none", pc |-> "idle", table |-> NoTable, columns |-> 0, todo |-> {},
         explicit |-> NoSecret, used |-> NoSecret, outcome |-> "none",
         missing |-> FALSE, raced |-> FALSE]

CallRecords ==
  [op : {"none", "select", "show", "function"},
   pc : {"idle", "lookup", "discover", "publish", "bind scan", "enumerate"},
   table : Tables \cup {NoTable}, columns : 0 .. MaxVersion, todo : SUBSET Tables,
   explicit : Secrets \cup {NoSecret}, used : Secrets \cup {NoSecret},
   outcome : {"none", "rows", "listed", "not found", "no time travel", "error",
              "internal error"},
   missing : BOOLEAN, raced : BOOLEAN]

TypeOK ==
  /\ ddic \in [Tables -> 0 .. MaxVersion]
  /\ secrets \subseteq Secrets
  /\ attached \in [secret : Secrets \cup {NoSecret}, option : TablesOptions \cup {NoTables},
                   allowed : SUBSET Tables, live : BOOLEAN]
  /\ entries \in [Tables -> 0 .. MaxVersion]
  /\ created_all_entries \in BOOLEAN
  /\ call \in [Sessions -> CallRecords]
  /\ calls \in 0 .. MaxCalls
  /\ events \in 0 .. MaxEvents

Init ==
  /\ ddic = [t \in Tables |-> IF t \in TablesAtFirst THEN 1 ELSE 0]
  /\ secrets = Secrets
  /\ attached = Detached
  /\ entries = NoEntries
  /\ created_all_entries = FALSE
  /\ call = [s \in Sessions |-> Idle]
  /\ calls = 0
  /\ events = 0

-----------------------------------------------------------------------------
(* Mutant: the secret whose scope matches best, whatever name was given.   *)
BestMatch(name) == secrets \cap SapSecrets

(* FromContext: the secrets a connection may be opened with; none is an    *)
(* error.  A name means that secret, of the right type; without a name     *)
(* DuckDB picks the best match of those there are.                         *)
FromContext(name) ==
  IF name # NoSecret
    THEN {name} \cap secrets \cap SapSecrets
    ELSE secrets \cap SapSecrets

(* A call to SAP with secret "name" by session s in the middle of its      *)
(* call: it reaches the system of one secret and does "then" there, or it  *)
(* fails and ends the call with an error.                                  *)
Ended(c, outcome) ==
  [c EXCEPT !.pc = "idle", !.outcome = outcome, !.todo = {}, !.columns = 0]

Become(s, c) == call' = [call EXCEPT ![s] = c]

CallFails(s) ==
  \/ /\ FromContext(attached.secret) = {}
     /\ Become(s, Ended(call[s], "error"))
     /\ UNCHANGED events
  \/ /\ events < MaxEvents
     /\ events' = events + 1
     /\ Become(s, Ended(call[s], "error"))

-----------------------------------------------------------------------------
(* ResolveTablePatterns: the tables of the dictionary the patterns match.  *)
ResolveTablePatterns(patterns) == {t \in UNION patterns : ddic[t] # 0}

(* SapStorageAttach.  A named secret must exist (whatever its type); the   *)
(* patterns are resolved once, over RFC; an error leaves nothing attached. *)
SapStorageAttach(secret, option) ==
  LET allowed == option.names \cup
                   (IF option.patterns = {} THEN {} ELSE ResolveTablePatterns(option.patterns))
  IN  /\ ~ attached.live
      /\ secret # NoSecret => secret \in secrets
      /\ option.patterns # {} => FromContext(secret) # {}
      /\ Cardinality(allowed) <= MAX_ATTACH_TABLE_EXPANSION
      /\ attached' = [secret |-> secret, option |-> option, allowed |-> allowed, live |-> TRUE]
      /\ entries' = NoEntries
      /\ created_all_entries' = FALSE
      /\ UNCHANGED <<outside, call, calls, events>>

(* DETACH.  A call in flight keeps the catalog it uses, which no later one *)
(* sees; the model detaches when there is none.                            *)
Detach ==
  /\ attached.live
  /\ \A s \in Sessions : call[s].pc = "idle"
  /\ attached' = Detached
  /\ entries' = NoEntries
  /\ created_all_entries' = FALSE
  /\ call' = [s \in Sessions |-> Idle]
  /\ UNCHANGED <<outside, calls, events>>

-----------------------------------------------------------------------------
(* A session starts a call on the attachment.                              *)
Starts(s) ==
  /\ attached.live
  /\ call[s].pc = "idle"
  /\ calls < MaxCalls
  /\ calls' = calls + 1
  /\ UNCHANGED <<outside, attached, entries, events>>

(* Mutant: the flag is left as the last enumeration set it.                *)
BeginLookupOnly(s, t, time_travel) ==
  /\ Starts(s)
  /\ UNCHANGED created_all_entries
  /\ Become(s, [Idle EXCEPT !.op = "select", !.table = t, !.missing = ddic[t] = 0,
                            !.pc = IF time_travel THEN "idle" ELSE "lookup",
                            !.outcome = IF time_travel THEN "no time travel" ELSE "none"])

(* SELECT FROM t: TryLookupEntryInternal up to the lookup in the schema.   *)
(* It turns the flag off, without DuckDB's lock, and refuses AT.           *)
BeginLookup(s, t, time_travel) ==
  /\ Starts(s)
  /\ created_all_entries' = FALSE
  /\ Become(s, [Idle EXCEPT !.op = "select", !.table = t, !.missing = ddic[t] = 0,
                            !.pc = IF time_travel THEN "idle" ELSE "lookup",
                            !.outcome = IF time_travel THEN "no time travel" ELSE "none"])

(* The first lines of CreateDefaultEntry: an empty list admits every name. *)
Admitted(t) == attached.allowed = {} \/ t \in attached.allowed

(* The rest of the lookup, in DuckDB's catalog set: an entry, or nothing   *)
(* once the flag is set, or the generator's turn.                          *)
LookupEntry(s) ==
  LET c == call[s]
  IN  /\ c.pc = "lookup"
      /\ \/ /\ entries[c.table] # 0
            /\ Become(s, [c EXCEPT !.pc = "bind scan"])
         \/ /\ entries[c.table] = 0
            /\ created_all_entries \/ ~ Admitted(c.table)
            /\ Become(s, Ended(c, "not found"))
         \/ /\ entries[c.table] = 0
            /\ ~ created_all_entries /\ Admitted(c.table)
            /\ Become(s, [c EXCEPT !.pc = "discover"])
      /\ UNCHANGED <<outside, attached, entries, created_all_entries, calls, events>>

(* Mutant: a table the dictionary does not know is no error.               *)
QuietlyUnknown == TRUE

(* A table the dictionary does not know: with TABLES it was listed, which  *)
(* is worth an error, without it is not found.                             *)
UnknownIsNotFound == attached.allowed = {}

(* CreateDefaultEntry asks SAP for the columns.  No entry for one of the   *)
(* generator's own default entries breaks DuckDB's contract.               *)
DiscoverSchema(s) ==
  LET c == call[s]
      unknown == IF ~ UnknownIsNotFound THEN "error"
                 ELSE IF c.op = "show" THEN "internal error" ELSE "not found"
  IN  /\ c.pc = "discover"
      /\ \/ /\ \E n \in FromContext(attached.secret) :
                 Become(s, IF ddic[c.table] = 0
                             THEN Ended([c EXCEPT !.used = n], unknown)
                             ELSE [c EXCEPT !.used = n, !.pc = "publish",
                                            !.columns = ddic[c.table]])
            /\ UNCHANGED events
         \/ CallFails(s)
      /\ UNCHANGED <<outside, attached, entries, created_all_entries, calls>>

(* Mutant: of two sessions that create an entry the second discovers anew. *)
PublishOrRetry(s) ==
  LET c == call[s]
  IN  /\ c.pc = "publish"
      /\ IF entries[c.table] = 0
           THEN /\ entries' = [entries EXCEPT ![c.table] = c.columns]
                /\ Become(s, [c EXCEPT !.pc = IF c.op = "show" THEN "enumerate" ELSE "bind scan"])
           ELSE /\ Become(s, [c EXCEPT !.pc = "discover"])
                /\ UNCHANGED entries
      /\ UNCHANGED <<outside, attached, created_all_entries, calls, events>>

(* The new entry is added; if another session was first its entry stays.   *)
PublishEntry(s) ==
  LET c == call[s]
  IN  /\ c.pc = "publish"
      /\ entries' = IF entries[c.table] = 0 THEN [entries EXCEPT ![c.table] = c.columns]
                    ELSE entries
      /\ Become(s, [c EXCEPT !.pc = IF c.op = "show" THEN "enumerate" ELSE "bind scan",
                             !.todo = @ \ {c.table}])
      /\ UNCHANGED <<outside, attached, created_all_entries, calls, events>>

(* GetScanFunction: the columns to read are discovered again.              *)
GetScanFunction(s) ==
  LET c == call[s]
  IN  /\ c.pc = "bind scan"
      /\ \/ /\ \E n \in FromContext(attached.secret) :
                 Become(s, IF ddic[c.table] = 0
                             THEN Ended([c EXCEPT !.used = n], "error")
                             ELSE Ended([c EXCEPT !.used = n], "rows"))
            /\ UNCHANGED events
         \/ CallFails(s)
      /\ UNCHANGED <<outside, attached, entries, created_all_entries, calls>>

-----------------------------------------------------------------------------
(* Mutant: only the names TABLES lists itself.                             *)
ExactDefaultEntries == attached.option.names

(* GetDefaultEntries.                                                      *)
GetDefaultEntries == attached.allowed

(* SHOW TABLES: DuckDB creates the default entries, unless it has.         *)
BeginShow(s) ==
  /\ Starts(s)
  /\ UNCHANGED created_all_entries
  /\ Become(s, IF created_all_entries
                 THEN [Idle EXCEPT !.op = "show", !.outcome = "listed"]
                 ELSE [Idle EXCEPT !.op = "show", !.pc = "enumerate",
                                   !.todo = GetDefaultEntries])

(* The next default entry that has none, one that exists already, or the   *)
(* end: the flag is set.  Lookups in flight see it.                        *)
Enumerate(s) ==
  LET c == call[s]
  IN  /\ c.pc = "enumerate"
      /\ \/ /\ c.todo = {}
            /\ created_all_entries' = TRUE
            /\ call' = [r \in Sessions |->
                 IF r = s THEN Ended(c, "listed")
                 ELSE [call[r] EXCEPT !.raced = @ \/ call[r].pc = "lookup"]]
         \/ /\ \E t \in c.todo :
                 Become(s, IF entries[t] # 0 THEN [c EXCEPT !.todo = @ \ {t}]
                           ELSE [c EXCEPT !.pc = "discover", !.table = t])
            /\ UNCHANGED created_all_entries
      /\ UNCHANGED <<outside, attached, entries, calls, events>>

-----------------------------------------------------------------------------
(* SapSecretBind: the attachment's secret, if it has one and the caller    *)
(* named none.                                                             *)
SapSecretBind(explicit) ==
  IF explicit = NoSecret /\ attached.secret # NoSecret THEN attached.secret ELSE explicit

(* A table function called through the catalog, with or without SECRET.    *)
CallFunction(s, explicit) ==
  /\ Starts(s)
  /\ UNCHANGED created_all_entries
  /\ LET c == [Idle EXCEPT !.op = "function", !.explicit = explicit]
         found == FromContext(SapSecretBind(explicit))
     IN  \/ \E n \in found : Become(s, Ended([c EXCEPT !.used = n], "rows"))
         \/ found = {} /\ Become(s, Ended(c, "error"))

-----------------------------------------------------------------------------
(* Outside the sessions: a table is created, changed or dropped in SAP, a  *)
(* secret is dropped or created.                                           *)
TableChanges(t, version) ==
  /\ events < MaxEvents
  /\ version # ddic[t]
  /\ events' = events + 1
  /\ ddic' = [ddic EXCEPT ![t] = version]
  /\ call' = [s \in Sessions |->
       [call[s] EXCEPT !.missing = @ \/ (call[s].pc # "idle" /\ call[s].table = t
                                         /\ version = 0)]]
  /\ UNCHANGED <<secrets, attached, entries, created_all_entries, calls>>

SecretChanges(n) ==
  /\ events < MaxEvents
  /\ events' = events + 1
  /\ secrets' = IF n \in secrets THEN secrets \ {n} ELSE secrets \cup {n}
  /\ UNCHANGED <<ddic, attached, entries, created_all_entries, call, calls>>

Serve(s) ==
  \/ LookupEntry(s)
  \/ DiscoverSchema(s)
  \/ PublishEntry(s)
  \/ GetScanFunction(s)
  \/ Enumerate(s)

Next ==
  \/ \E n \in Secrets \cup {NoSecret}, o \in TablesOptions : SapStorageAttach(n, o)
  \/ Detach
  \/ \E s \in Sessions :
       \/ \E t \in Tables, time_travel \in BOOLEAN : BeginLookup(s, t, time_travel)
       \/ BeginShow(s)
       \/ \E n \in Secrets \cup {NoSecret} : CallFunction(s, n)
       \/ Serve(s)
  \/ \E t \in Tables, v \in 0 .. MaxVersion : TableChanges(t, v)
  \/ \E n \in Secrets : SecretChanges(n)

(* A session in the middle of a call goes on.                              *)
Spec == Init /\ [][Next]_vars /\ \A s \in Sessions : WF_vars(Serve(s))

-----------------------------------------------------------------------------
(* A SELECT that says a table does not exist is right: the table is        *)
(* outside TABLES, or SAP did not have it at some moment of the lookup.    *)
(* Left out is a lookup in the middle of which an enumeration without      *)
(* TABLES ended, which sets the flag again behind the reset.               *)
LookupNeverHides ==
  \A s \in Sessions :
    call[s].outcome = "not found" =>
      \/ call[s].missing
      \/ attached.allowed # {} /\ call[s].table \notin attached.allowed
      \/ attached.allowed = {} /\ call[s].raced

(* With TABLES, the flag that stops DuckDB from asking the generator is    *)
(* only set when every table of the list has its entry: an enumeration     *)
(* that failed half-way is taken up again by the next.                     *)
CreatedAllMeansAll ==
  created_all_entries => \A t \in attached.allowed : entries[t] # 0

(* DuckDB never meets a default entry without an entry: a listed table     *)
(* that SAP does not know is an error of its own.                          *)
NoInternalError == \A s \in Sessions : call[s].outcome # "internal error"

(* What goes through an attachment with a secret goes to the system of     *)
(* that secret, whatever becomes of it, unless the caller names another.   *)
OwnSystem ==
  \A s \in Sessions :
    call[s].used # NoSecret =>
      \/ call[s].explicit # NoSecret /\ call[s].used = call[s].explicit
      \/ call[s].explicit = NoSecret /\ attached.secret \in {NoSecret, call[s].used}

(* Every call on the attachment returns.                                   *)
CatalogCallsReturn == \A s \in Sessions : call[s].pc # "idle" ~> call[s].pc = "idle"
=============================================================================
