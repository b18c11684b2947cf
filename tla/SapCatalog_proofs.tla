-------------------------- MODULE SapCatalog_proofs --------------------------
(***************************************************************************)
(* SapCatalog for any number of sessions, tables and secrets: no table is  *)
(* hidden, no enumeration counts as complete that is not, DuckDB never     *)
(* meets a default entry without an entry, and calls go to the system of   *)
(* the attachment.                                                         *)
(*                                                                         *)
(* The invariant says of a call in flight what it has established so far   *)
(* (CallInv): an enumeration, that every listed table has its entry or is  *)
(* still to do; a lookup, that a table missing in SAP was noticed and that *)
(* the flag is only on behind its back.  It is a predicate of the call and *)
(* of the attachment, the entries, the dictionary and the flag.            *)
(***************************************************************************)
EXTENDS SapCatalog, TLAPS

(* What a call of its kind and stage carries.                              *)
Stage(c) ==
  /\ c.pc \in {"lookup", "bind scan"} => c.op = "select"
  /\ c.pc \in {"discover", "publish"} => c.op \in {"select", "show"}
  /\ c.pc = "enumerate" => c.op = "show"
  /\ c.pc \in {"lookup", "discover", "publish", "bind scan"} => c.table \in Tables
  /\ c.pc = "publish" => c.columns # 0
  /\ c.pc # "idle" => c.explicit = NoSecret /\ c.outcome = "none"

(* An enumeration under way: what it has left to do, and what is done.     *)
Enumerating(c, allowed, held) ==
  /\ c.todo \subseteq allowed
  /\ c.op = "show" /\ c.pc # "idle" =>
       /\ c.pc = "discover" => c.table \in allowed
       /\ \A t \in allowed : t \in c.todo \/ held[t] # 0

(* A lookup under way: why it may end without finding the table.           *)
LookingUp(c, dictionary, all) ==
  /\ c.op = "select" /\ c.pc # "idle" /\ dictionary[c.table] = 0 => c.missing
  /\ c.pc = "lookup" /\ all => c.raced

(* What the call in flight, or the last one, of a session has to show.     *)
Hidden(c, allowed) ==
  c.outcome = "not found" =>
    \/ c.missing
    \/ allowed # {} /\ c.table \notin allowed
    \/ allowed = {} /\ c.raced

Own(c, secret) ==
  c.used # NoSecret =>
    \/ c.explicit # NoSecret /\ c.used = c.explicit
    \/ c.explicit = NoSecret /\ secret \in {NoSecret, c.used}

CallInv(c, to, held, dictionary, all) ==
  /\ Stage(c)
  /\ Enumerating(c, to.allowed, held)
  /\ LookingUp(c, dictionary, all)
  /\ Hidden(c, to.allowed)
  /\ Own(c, to.secret)
  /\ c.outcome # "internal error"

CallsInv == \A s \in Sessions : CallInv(call[s], attached, entries, ddic, created_all_entries)

NothingAttached == ~ attached.live => call = [s \in Sessions |-> Idle]

Inv == TypeOK /\ CreatedAllMeansAll /\ NothingAttached /\ CallsInv

-----------------------------------------------------------------------------
LEMMA Bounds ==
  /\ MaxVersion \in Nat \ {0} /\ MaxCalls \in Nat /\ MaxEvents \in Nat
  /\ 0 \in 0 .. MaxVersion /\ 1 \in 0 .. MaxVersion
  /\ NoSecret \notin Secrets
<1>1. /\ {MAX_ATTACH_TABLE_EXPANSION, MaxVersion, MaxEvents, MaxCalls} \subseteq Nat
      /\ MaxVersion > 0 /\ NoSecret \notin Secrets
  BY CatalogAssumption, Zenon
<1> QED BY <1>1

LEMMA IdleOK ==
  /\ Idle \in CallRecords
  /\ \A to, held, dictionary, all : CallInv(Idle, to, held, dictionary, all)
<1>1. Idle \in CallRecords
  BY Bounds DEF Idle, CallRecords
<1>2. \A to, held, dictionary, all : CallInv(Idle, to, held, dictionary, all)
  BY DEF Idle, CallInv, Stage, Enumerating, LookingUp, Hidden, Own
<1> QED BY <1>1, <1>2

LEMMA InitInv == Init => Inv
<1> SUFFICES ASSUME Init PROVE Inv
  OBVIOUS
<1>1. call \in [Sessions -> CallRecords]
  BY IdleOK DEF Init
<1>2. attached \in [secret : Secrets \cup {NoSecret}, option : TablesOptions \cup {NoTables},
                    allowed : SUBSET Tables, live : BOOLEAN]
  BY DEF Init, Detached
<1>3. ddic \in [Tables -> 0 .. MaxVersion] /\ entries \in [Tables -> 0 .. MaxVersion]
  BY Bounds DEF Init, NoEntries
<1>4. TypeOK
  <2>1. 0 \in 0 .. MaxCalls /\ 0 \in 0 .. MaxEvents
    BY Bounds
  <2> QED BY <1>1, <1>2, <1>3, <2>1 DEF Init, TypeOK
<1>5. CallsInv
  BY IdleOK DEF Init, CallsInv
<1> QED BY <1>4, <1>5 DEF Init, Inv, CreatedAllMeansAll, NothingAttached

-----------------------------------------------------------------------------
(* A call that ends keeps what it has shown.                               *)
LEMMA EndedOK ==
  ASSUME NEW c \in CallRecords, NEW to, NEW held, NEW dictionary, NEW all,
         CallInv(c, to, held, dictionary, all),
         NEW outcome \in {"rows", "listed", "not found", "error"},
         outcome = "not found" =>
           \/ c.missing
           \/ to.allowed # {} /\ c.table \notin to.allowed
           \/ to.allowed = {} /\ c.raced
  PROVE  /\ Ended(c, outcome) \in CallRecords
         /\ CallInv(Ended(c, outcome), to, held, dictionary, all)
<1> DEFINE e == Ended(c, outcome)
<1>1. e \in CallRecords
  BY Bounds DEF Ended, CallRecords
<1>2. /\ e.pc = "idle" /\ e.todo = {} /\ e.outcome = outcome /\ e.used = c.used
      /\ e.explicit = c.explicit /\ e.missing = c.missing /\ e.raced = c.raced
      /\ e.table = c.table
  BY DEF Ended, CallRecords
<1>3. /\ Stage(e) /\ Enumerating(e, to.allowed, held) /\ LookingUp(e, dictionary, all)
      /\ Own(e, to.secret) /\ e.outcome # "internal error"
  BY <1>2 DEF CallInv, Stage, Enumerating, LookingUp, Own
<1>4. Hidden(e, to.allowed)
  BY <1>2 DEF Hidden
<1> QED BY <1>1, <1>3, <1>4 DEF CallInv

(* A step that touches neither the call nor the dictionary, and the        *)
(* entries only to add one, leaves what the call has shown.                *)
LEMMA Others ==
  ASSUME NEW c \in CallRecords, NEW to, NEW dictionary,
         NEW held, NEW held2, NEW all, NEW all2,
         CallInv(c, to, held, dictionary, all),
         to.allowed \subseteq Tables,
         \A t \in Tables : held[t] # 0 => held2[t] # 0,
         all2 => all
  PROVE  CallInv(c, to, held2, dictionary, all2)
BY DEF CallInv, Enumerating, LookingUp

(* What a session's step has to show when it changes no entry but that of  *)
(* its own call and does not turn the flag on.                             *)
LEMMA OneCall ==
  ASSUME Inv, NEW s \in Sessions, NEW c,
         c \in CallRecords, CallInv(c, attached, entries', ddic, created_all_entries'),
         Become(s, c), attached.live, UNCHANGED <<outside, attached>>,
         entries' \in [Tables -> 0 .. MaxVersion], created_all_entries' \in BOOLEAN,
         \A t \in Tables : entries[t] # 0 => entries'[t] # 0,
         created_all_entries' => created_all_entries,
         calls' \in 0 .. MaxCalls, events' \in 0 .. MaxEvents
  PROVE  Inv'
<1>1. call' \in [Sessions -> CallRecords]
  BY DEF Inv, TypeOK, Become
<1>2. TypeOK'
  BY <1>1 DEF Inv, TypeOK, outside
<1>a. attached.allowed \subseteq Tables
  BY DEF Inv, TypeOK
<1>3. CreatedAllMeansAll'
  BY <1>a DEF Inv, CreatedAllMeansAll
<1>4. \A r \in Sessions : CallInv(call'[r], attached', entries', ddic', created_all_entries')
  <2> SUFFICES ASSUME NEW r \in Sessions
               PROVE  CallInv(call'[r], attached, entries', ddic, created_all_entries')
    BY DEF outside
  <2>1. CASE r = s
    BY <2>1 DEF Become, Inv, TypeOK
  <2>2. CASE r # s
    <3>1. call'[r] = call[r] /\ call[r] \in CallRecords
      BY <2>2 DEF Become, Inv, TypeOK
    <3>2. CallInv(call[r], attached, entries, ddic, created_all_entries)
      BY DEF Inv, CallsInv
    <3> QED BY <1>a, <3>1, <3>2, Others
  <2> QED BY <2>1, <2>2
<1>5. NothingAttached'
  BY DEF NothingAttached
<1> QED BY <1>2, <1>3, <1>4, <1>5 DEF Inv, CallsInv

LEMMA BeginsInv ==
  ASSUME Inv, NEW s \in Sessions,
         \/ \E t \in Tables, time_travel \in BOOLEAN : BeginLookup(s, t, time_travel)
         \/ BeginShow(s)
         \/ \E n \in Secrets \cup {NoSecret} : CallFunction(s, n)
  PROVE  Inv'
<1> USE Bounds
<1>1. /\ attached.live /\ UNCHANGED <<outside, attached, entries, events>>
      /\ calls' \in 0 .. MaxCalls /\ events' \in 0 .. MaxEvents
      /\ entries' \in [Tables -> 0 .. MaxVersion]
  <2>1. Starts(s)
    BY DEF BeginLookup, BeginShow, CallFunction
  <2>2. calls \in 0 .. MaxCalls /\ calls' = calls + 1 /\ calls < MaxCalls
    BY <2>1 DEF Starts, Inv, TypeOK
  <2>3. calls' \in 0 .. MaxCalls
    BY <2>2
  <2> QED BY <2>1, <2>3 DEF Starts, Inv, TypeOK
<1>2. attached.allowed \subseteq Tables /\ created_all_entries \in BOOLEAN
  BY DEF Inv, TypeOK
<1>3. CASE \E t \in Tables, time_travel \in BOOLEAN : BeginLookup(s, t, time_travel)
  <2>1. PICK t \in Tables, time_travel \in BOOLEAN : BeginLookup(s, t, time_travel)
    BY <1>3
  <2> DEFINE c == [Idle EXCEPT !.op = "select", !.table = t, !.missing = ddic[t] = 0,
                               !.pc = IF time_travel THEN "idle" ELSE "lookup",
                               !.outcome = IF time_travel THEN "no time travel" ELSE "none"]
  <2>2. c \in CallRecords
    BY DEF Idle, CallRecords
  <2>3. CallInv(c, attached, entries, ddic, FALSE)
    BY DEF Idle, CallInv, Stage, Enumerating, LookingUp, Hidden, Own
  <2> QED BY <1>1, <1>2, <2>1, <2>2, <2>3, OneCall DEF BeginLookup
<1>4. CASE BeginShow(s)
  <2> DEFINE c == IF created_all_entries THEN [Idle EXCEPT !.op = "show", !.outcome = "listed"]
                  ELSE [Idle EXCEPT !.op = "show", !.pc = "enumerate",
                                    !.todo = GetDefaultEntries]
  <2>2. c \in CallRecords
    BY <1>2 DEF Idle, CallRecords, GetDefaultEntries
  <2>3. CallInv(c, attached, entries, ddic, created_all_entries)
    BY DEF Idle, CallInv, Stage, Enumerating, LookingUp, Hidden, Own, GetDefaultEntries
  <2> QED BY <1>1, <1>2, <1>4, <2>2, <2>3, OneCall DEF BeginShow
<1>5. CASE \E n \in Secrets \cup {NoSecret} : CallFunction(s, n)
  <2>1. PICK explicit \in Secrets \cup {NoSecret} : CallFunction(s, explicit)
    BY <1>5
  <2> DEFINE c == [Idle EXCEPT !.op = "function", !.explicit = explicit]
  <2>2. c \in CallRecords /\ [c EXCEPT !.explicit = NoSecret] \in CallRecords
    BY DEF Idle, CallRecords
  <2>3. created_all_entries' = created_all_entries
    BY <2>1 DEF CallFunction
  <2>4. ASSUME NEW n \in FromContext(SapSecretBind(explicit)),
               Become(s, Ended([c EXCEPT !.used = n], "rows"))
        PROVE  Inv'
    <3> DEFINE d == [c EXCEPT !.used = n]
    <3>1. n \in Secrets
      BY CatalogAssumption DEF FromContext, Inv, TypeOK
    <3>2. d \in CallRecords
      BY <3>1 DEF Idle, CallRecords
    <3>3. Own(d, attached.secret)
      BY <2>4, <3>1 DEF Own, Idle, FromContext, SapSecretBind
    <3>4. CallInv(d, attached, entries, ddic, created_all_entries)
      BY <3>3 DEF Idle, CallInv, Stage, Enumerating, LookingUp, Hidden
    <3> QED BY <1>1, <1>2, <2>3, <2>4, <3>2, <3>4, EndedOK, OneCall
  <2>5. ASSUME Become(s, Ended(c, "error"))
        PROVE  Inv'
    <3>1. CallInv(c, attached, entries, ddic, created_all_entries)
      BY DEF Idle, CallInv, Stage, Enumerating, LookingUp, Hidden, Own
    <3> QED BY <1>1, <1>2, <2>2, <2>3, <2>5, <3>1, EndedOK, OneCall
  <2> QED BY <2>1, <2>4, <2>5 DEF CallFunction
<1> QED BY <1>3, <1>4, <1>5

-----------------------------------------------------------------------------
(* What is known of a session in the middle of a call.                     *)
LEMMA InCall ==
  ASSUME Inv, NEW s \in Sessions, call[s].pc # "idle"
  PROVE  /\ call[s] \in CallRecords
         /\ CallInv(call[s], attached, entries, ddic, created_all_entries)
         /\ attached.live /\ attached.allowed \subseteq Tables
         /\ attached.secret \in Secrets \cup {NoSecret}
         /\ entries \in [Tables -> 0 .. MaxVersion] /\ ddic \in [Tables -> 0 .. MaxVersion]
         /\ calls \in 0 .. MaxCalls /\ events \in 0 .. MaxEvents
         /\ secrets \subseteq Secrets /\ created_all_entries \in BOOLEAN
BY DEF Inv, TypeOK, CallsInv, NothingAttached, Idle

(* A call of which only the used secret is new.                            *)
LEMMA UsedOK ==
  ASSUME NEW c \in CallRecords, NEW to, NEW held, NEW dictionary, NEW all,
         CallInv(c, to, held, dictionary, all), c.pc # "idle",
         NEW n \in Secrets, to.secret \in {NoSecret, n}
  PROVE  /\ [c EXCEPT !.used = n] \in CallRecords
         /\ CallInv([c EXCEPT !.used = n], to, held, dictionary, all)
<1> DEFINE d == [c EXCEPT !.used = n]
<1>1. d \in CallRecords
  BY DEF CallRecords
<1>2. /\ d.op = c.op /\ d.pc = c.pc /\ d.table = c.table /\ d.columns = c.columns
      /\ d.todo = c.todo /\ d.explicit = c.explicit /\ d.used = n /\ d.outcome = c.outcome
      /\ d.missing = c.missing /\ d.raced = c.raced
  BY DEF CallRecords
<1>3. /\ Stage(d) /\ Enumerating(d, to.allowed, held) /\ LookingUp(d, dictionary, all)
      /\ Hidden(d, to.allowed) /\ d.outcome # "internal error"
  BY <1>2 DEF CallInv, Stage, Enumerating, LookingUp, Hidden
<1>4. Own(d, to.secret)
  BY <1>2 DEF CallInv, Stage, Own
<1> QED BY <1>1, <1>3, <1>4 DEF CallInv

LEMMA ReachedSecret ==
  ASSUME Inv, NEW n \in FromContext(attached.secret)
  PROVE  n \in Secrets /\ attached.secret \in {NoSecret, n}
BY CatalogAssumption DEF FromContext, Inv, TypeOK

LEMMA FailsInv ==
  ASSUME Inv, NEW s \in Sessions, call[s].pc # "idle", CallFails(s),
         UNCHANGED <<outside, attached, entries, created_all_entries, calls>>
  PROVE  Inv'
<1>1. events' \in 0 .. MaxEvents
  BY Bounds DEF CallFails, Inv, TypeOK
<1>2. /\ Ended(call[s], "error") \in CallRecords
      /\ CallInv(Ended(call[s], "error"), attached, entries, ddic, created_all_entries)
  BY InCall, EndedOK
<1> QED BY <1>1, <1>2, InCall, OneCall DEF CallFails

LEMMA LookupEntryInv ==
  ASSUME Inv, NEW s \in Sessions, LookupEntry(s)
  PROVE  Inv'
<1> DEFINE c == call[s]
<1>1. /\ c.pc = "lookup"
      /\ UNCHANGED <<outside, attached, entries, created_all_entries, calls, events>>
  BY DEF LookupEntry
<1>2. /\ c.op = "select" /\ c.table \in Tables /\ c.explicit = NoSecret
      /\ created_all_entries => c.raced
  BY <1>1, InCall DEF CallInv, Stage, LookingUp
<1>3. ASSUME NEW pc \in {"bind scan", "discover"}, Become(s, [c EXCEPT !.pc = pc])
      PROVE  Inv'
  <2> DEFINE d == [c EXCEPT !.pc = pc]
  <2>1. d \in CallRecords
    BY <1>1, InCall DEF CallRecords
  <2>2. /\ d.op = c.op /\ d.pc = pc /\ d.table = c.table /\ d.columns = c.columns
        /\ d.todo = c.todo /\ d.explicit = c.explicit /\ d.used = c.used
        /\ d.outcome = c.outcome /\ d.missing = c.missing /\ d.raced = c.raced
    BY <1>1, InCall DEF CallRecords
  <2>3. CallInv(d, attached, entries, ddic, created_all_entries)
    BY <1>1, <1>2, <2>2, InCall
    DEF CallInv, Stage, Enumerating, LookingUp, Hidden, Own
  <2> QED BY <1>1, <1>3, <2>1, <2>3, InCall, OneCall
<1>4. ASSUME entries[c.table] = 0, created_all_entries \/ ~ Admitted(c.table),
             Become(s, Ended(c, "not found"))
      PROVE  Inv'
  <2>1. created_all_entries => c.table \notin attached.allowed
    BY <1>4 DEF Inv, CreatedAllMeansAll
  <2>2. \/ attached.allowed # {} /\ c.table \notin attached.allowed
        \/ attached.allowed = {} /\ c.raced
    BY <1>2, <1>4, <2>1 DEF Admitted
  <2>3. /\ Ended(c, "not found") \in CallRecords
        /\ CallInv(Ended(c, "not found"), attached, entries, ddic, created_all_entries)
    BY <1>1, <2>2, InCall, EndedOK
  <2> QED BY <1>1, <1>4, <2>3, InCall, OneCall
<1> QED BY <1>3, <1>4 DEF LookupEntry

LEMMA DiscoverSchemaInv ==
  ASSUME Inv, NEW s \in Sessions, DiscoverSchema(s)
  PROVE  Inv'
<1> DEFINE c == call[s]
<1>1. /\ c.pc = "discover"
      /\ UNCHANGED <<outside, attached, entries, created_all_entries, calls>>
  BY DEF DiscoverSchema
<1>2. /\ c.op \in {"select", "show"} /\ c.table \in Tables
      /\ c.op = "show" => c.table \in attached.allowed
      /\ c.op = "select" /\ ddic[c.table] = 0 => c.missing
  BY <1>1, InCall DEF CallInv, Stage, Enumerating, LookingUp
<1>3. ASSUME NEW n \in FromContext(attached.secret), UNCHANGED events,
             Become(s, IF ddic[c.table] = 0
                         THEN Ended([c EXCEPT !.used = n],
                                    IF ~ UnknownIsNotFound THEN "error"
                                    ELSE IF c.op = "show" THEN "internal error"
                                    ELSE "not found")
                         ELSE [c EXCEPT !.used = n, !.pc = "publish",
                                        !.columns = ddic[c.table]])
      PROVE  Inv'
  <2> DEFINE u == [c EXCEPT !.used = n]
  <2>1. /\ u \in CallRecords
        /\ CallInv(u, attached, entries, ddic, created_all_entries)
    BY <1>1, InCall, UsedOK, ReachedSecret
  <2>2. /\ u.op = c.op /\ u.pc = c.pc /\ u.table = c.table
        /\ u.todo = c.todo /\ u.explicit = c.explicit
        /\ u.outcome = c.outcome /\ u.missing = c.missing /\ u.raced = c.raced
    BY <1>1, InCall DEF CallRecords
  <2>3. CASE ddic[c.table] = 0 /\ ~ UnknownIsNotFound
    BY <1>1, <1>3, <2>1, <2>3, InCall, EndedOK, OneCall
  <2>4. CASE ddic[c.table] = 0 /\ UnknownIsNotFound
    <3>1. c.op = "select"
      BY <1>2, <2>4 DEF UnknownIsNotFound
    <3> QED BY <1>1, <1>2, <1>3, <2>1, <2>2, <2>4, <3>1, InCall, EndedOK, OneCall
  <2>5. CASE ddic[c.table] # 0
    <3> DEFINE d == [c EXCEPT !.used = n, !.pc = "publish", !.columns = ddic[c.table]]
    <3>1. d \in CallRecords
      <4>1. c \in CallRecords /\ ddic[c.table] \in 0 .. MaxVersion
        BY <1>1, <1>2, InCall
      <4>2. n \in Secrets
        BY <1>3, ReachedSecret
      <4> HIDE DEF c
      <4> QED BY <4>1, <4>2 DEF CallRecords
    <3>2. /\ d.op = u.op /\ d.pc = "publish" /\ d.table = u.table
          /\ d.columns = ddic[c.table] /\ d.todo = u.todo /\ d.explicit = u.explicit
          /\ d.used = u.used /\ d.outcome = u.outcome /\ d.missing = u.missing
          /\ d.raced = u.raced
      BY <1>1, InCall DEF CallRecords
    <3>3. CallInv(d, attached, entries, ddic, created_all_entries)
      BY <1>1, <1>2, <2>1, <2>2, <2>5, <3>2
      DEF CallInv, Stage, Enumerating, LookingUp, Hidden, Own
    <3> QED BY <1>1, <1>3, <2>5, <3>1, <3>3, InCall, OneCall
  <2> QED BY <2>3, <2>4, <2>5
<1>4. CASE CallFails(s)
  BY <1>1, <1>4, FailsInv
<1> QED BY <1>3, <1>4 DEF DiscoverSchema

LEMMA GetScanFunctionInv ==
  ASSUME Inv, NEW s \in Sessions, GetScanFunction(s)
  PROVE  Inv'
<1> DEFINE c == call[s]
<1>1. /\ c.pc = "bind scan"
      /\ UNCHANGED <<outside, attached, entries, created_all_entries, calls>>
  BY DEF GetScanFunction
<1>2. ASSUME NEW n \in FromContext(attached.secret), UNCHANGED events,
             NEW outcome \in {"error", "rows"},
             Become(s, Ended([c EXCEPT !.used = n], outcome))
      PROVE  Inv'
  <2>1. /\ [c EXCEPT !.used = n] \in CallRecords
        /\ CallInv([c EXCEPT !.used = n], attached, entries, ddic, created_all_entries)
    BY <1>1, InCall, UsedOK, ReachedSecret
  <2> QED BY <1>1, <1>2, <2>1, InCall, EndedOK, OneCall
<1>3. CASE CallFails(s)
  BY <1>1, <1>3, FailsInv
<1> QED BY <1>2, <1>3 DEF GetScanFunction

-----------------------------------------------------------------------------
LEMMA PublishEntryInv ==
  ASSUME Inv, NEW s \in Sessions, PublishEntry(s)
  PROVE  Inv'
<1> DEFINE c == call[s]
           pc == IF c.op = "show" THEN "enumerate" ELSE "bind scan"
           d == [c EXCEPT !.pc = pc, !.todo = @ \ {c.table}]
<1>1. /\ c.pc = "publish" /\ Become(s, d)
      /\ UNCHANGED <<outside, attached, created_all_entries, calls, events>>
      /\ entries' = IF entries[c.table] = 0 THEN [entries EXCEPT ![c.table] = c.columns]
                    ELSE entries
  BY DEF PublishEntry
<1>2. /\ c.op \in {"select", "show"} /\ c.table \in Tables /\ c.columns # 0
      /\ c.columns \in 0 .. MaxVersion
  BY <1>1, InCall DEF CallInv, Stage, CallRecords
<1>3. /\ entries' \in [Tables -> 0 .. MaxVersion]
      /\ entries'[c.table] # 0
      /\ \A t \in Tables : entries[t] # 0 => entries'[t] # 0
  BY <1>1, <1>2, InCall
<1>4. d \in CallRecords
  <2>1. c \in CallRecords /\ pc \in {"enumerate", "bind scan"}
    BY <1>1, InCall
  <2> HIDE DEF pc, c
  <2> QED BY <2>1 DEF CallRecords
<1>5. /\ d.op = c.op /\ d.pc = (IF c.op = "show" THEN "enumerate" ELSE "bind scan")
      /\ d.table = c.table /\ d.todo = c.todo \ {c.table} /\ d.explicit = c.explicit
      /\ d.used = c.used /\ d.outcome = c.outcome /\ d.missing = c.missing
      /\ d.raced = c.raced
  BY <1>1, InCall DEF CallRecords
<1> HIDE DEF d
<1>6. CallInv(d, attached, entries', ddic, created_all_entries)
  <2>0. /\ CallInv(c, attached, entries, ddic, created_all_entries)
        /\ attached.allowed \subseteq Tables
    BY <1>1, InCall
  <2>1. Enumerating(d, attached.allowed, entries')
    BY <1>1, <1>3, <1>5, <2>0 DEF CallInv, Enumerating
  <2>2. Stage(d)
    BY <1>1, <1>2, <1>5, <2>0 DEF CallInv, Stage
  <2>3. /\ LookingUp(d, ddic, created_all_entries) /\ Hidden(d, attached.allowed)
        /\ Own(d, attached.secret) /\ d.outcome # "internal error"
    BY <1>1, <1>2, <1>5, <2>0 DEF CallInv, LookingUp, Hidden, Own
  <2> QED BY <2>1, <2>2, <2>3 DEF CallInv
<1> QED BY <1>1, <1>3, <1>4, <1>6, InCall, OneCall

(* What is left of an enumeration, and the table it goes to next.          *)
LEMMA LeftToDo ==
  ASSUME NEW c \in CallRecords, NEW rest \in SUBSET Tables
  PROVE  LET d == [c EXCEPT !.todo = rest]
         IN /\ d \in CallRecords
            /\ d.op = c.op /\ d.pc = c.pc /\ d.table = c.table /\ d.todo = rest
            /\ d.explicit = c.explicit /\ d.used = c.used /\ d.outcome = c.outcome
            /\ d.missing = c.missing /\ d.raced = c.raced
BY DEF CallRecords

LEMMA GoesToDiscover ==
  ASSUME NEW c \in CallRecords, NEW t \in Tables
  PROVE  LET d == [c EXCEPT !.pc = "discover", !.table = t]
         IN /\ d \in CallRecords
            /\ d.op = c.op /\ d.pc = "discover" /\ d.table = t /\ d.todo = c.todo
            /\ d.explicit = c.explicit /\ d.used = c.used /\ d.outcome = c.outcome
            /\ d.missing = c.missing /\ d.raced = c.raced
BY DEF CallRecords

(* The end of an enumeration turns the flag on, behind the lookups that    *)
(* are under way.                                                          *)
LEMMA EnumerateInv ==
  ASSUME Inv, NEW s \in Sessions, Enumerate(s)
  PROVE  Inv'
<1> DEFINE c == call[s]
<1>1. /\ c.pc = "enumerate"
      /\ UNCHANGED <<outside, attached, entries, calls, events>>
  BY DEF Enumerate
<1>2. /\ c.op = "show" /\ c.todo \subseteq attached.allowed
      /\ \A t \in attached.allowed : t \in c.todo \/ entries[t] # 0
  BY <1>1, InCall DEF CallInv, Stage, Enumerating
<1>a. c \in CallRecords /\ c.todo \subseteq Tables
  BY <1>1, <1>2, InCall
<1>b. CallInv(c, attached, entries, ddic, created_all_entries)
  BY <1>1, InCall
<1>3. ASSUME NEW t \in c.todo, entries[t] # 0, Become(s, [c EXCEPT !.todo = @ \ {t}]),
             UNCHANGED created_all_entries
      PROVE  Inv'
  <2> DEFINE d == [c EXCEPT !.todo = @ \ {t}]
  <2>0. c.todo \ {t} \in SUBSET Tables
    BY <1>a
  <2>1. d \in CallRecords
    BY <1>a, <2>0, LeftToDo
  <2>2. /\ d.op = c.op /\ d.pc = c.pc /\ d.table = c.table /\ d.todo = c.todo \ {t}
        /\ d.explicit = c.explicit /\ d.used = c.used /\ d.outcome = c.outcome
        /\ d.missing = c.missing /\ d.raced = c.raced
    BY <1>a, <2>0, LeftToDo
  <2> HIDE DEF d
  <2>3. CallInv(d, attached, entries, ddic, created_all_entries)
    <3> HIDE DEF c
    <3> QED BY <1>1, <1>2, <1>3, <2>2, <1>b
        DEF CallInv, Stage, Enumerating, LookingUp, Hidden, Own
  <2> QED BY <1>1, <1>3, <2>1, <2>3, InCall, OneCall DEF d
<1>4. ASSUME NEW t \in c.todo, entries[t] = 0, UNCHANGED created_all_entries,
             Become(s, [c EXCEPT !.pc = "discover", !.table = t])
      PROVE  Inv'
  <2> DEFINE d == [c EXCEPT !.pc = "discover", !.table = t]
  <2>0. t \in Tables
    BY <1>a
  <2>1. d \in CallRecords
    BY <1>a, <2>0, GoesToDiscover
  <2>2. /\ d.op = c.op /\ d.pc = "discover" /\ d.table = t /\ d.todo = c.todo
        /\ d.explicit = c.explicit /\ d.used = c.used /\ d.outcome = c.outcome
        /\ d.missing = c.missing /\ d.raced = c.raced
    BY <1>a, <2>0, GoesToDiscover
  <2> HIDE DEF d
  <2>3. CallInv(d, attached, entries, ddic, created_all_entries)
    <3> HIDE DEF c
    <3> QED BY <1>1, <1>2, <2>0, <2>2, <1>b
        DEF CallInv, Stage, Enumerating, LookingUp, Hidden, Own
  <2> QED BY <1>1, <1>4, <2>1, <2>3, InCall, OneCall DEF d
<1>5. ASSUME c.todo = {}, created_all_entries' = TRUE,
             call' = [r \in Sessions |->
               IF r = s THEN Ended(c, "listed")
               ELSE [call[r] EXCEPT !.raced = @ \/ call[r].pc = "lookup"]]
      PROVE  Inv'
  <2>1. CreatedAllMeansAll'
    BY <1>1, <1>2, <1>5 DEF CreatedAllMeansAll
  <2>2. NothingAttached'
    BY <1>1, InCall DEF NothingAttached
  <2>3. ASSUME NEW r \in Sessions
        PROVE  /\ call'[r] \in CallRecords
               /\ CallInv(call'[r], attached, entries, ddic, TRUE)
    <3>1. /\ call[r] \in CallRecords
          /\ CallInv(call[r], attached, entries, ddic, created_all_entries)
      BY DEF Inv, TypeOK, CallsInv
    <3>2. CASE r = s
      <4>1. /\ Ended(c, "listed") \in CallRecords
            /\ CallInv(Ended(c, "listed"), attached, entries, ddic, created_all_entries)
        BY <3>1, <3>2, EndedOK
      <4>2. Ended(c, "listed").pc = "idle"
        BY <3>1, <3>2 DEF Ended, CallRecords
      <4>3. CallInv(Ended(c, "listed"), attached, entries, ddic, TRUE)
        BY <4>1, <4>2 DEF CallInv, LookingUp
      <4> QED BY <1>5, <3>2, <4>1, <4>3
    <3>3. CASE r # s
      <4> DEFINE o == call[r]
                 d == [o EXCEPT !.raced = o.raced \/ o.pc = "lookup"]
      <4>1. call'[r] = d
        BY <1>5, <3>3
      <4>2. d \in CallRecords
        BY <3>1 DEF CallRecords
      <4>3. /\ d.op = o.op /\ d.pc = o.pc /\ d.table = o.table /\ d.todo = o.todo
            /\ d.columns = o.columns
            /\ d.explicit = o.explicit /\ d.used = o.used /\ d.outcome = o.outcome
            /\ d.missing = o.missing
            /\ o.raced \/ o.pc = "lookup" => d.raced
        BY <3>1 DEF CallRecords
      <4> HIDE DEF d
      <4>4. CallInv(d, attached, entries, ddic, TRUE)
        BY <3>1, <4>3 DEF CallInv, Stage, Enumerating, LookingUp, Hidden, Own
      <4> QED BY <4>1, <4>2, <4>4
    <3> QED BY <3>2, <3>3
  <2>4. call' \in [Sessions -> CallRecords]
    BY <1>5, <2>3
  <2>5. TypeOK'
    BY <1>1, <1>5, <2>4 DEF Inv, TypeOK, outside
  <2>6. CallsInv'
    BY <1>1, <1>5, <2>3 DEF CallsInv, outside
  <2> QED BY <2>1, <2>2, <2>5, <2>6 DEF Inv
<1> QED BY <1>3, <1>4, <1>5 DEF Enumerate

-----------------------------------------------------------------------------
LEMMA NotMissing ==
  ASSUME NEW r \in CallRecords, r.missing = FALSE
  PROVE  [r EXCEPT !.missing = FALSE] = r
BY DEF CallRecords

LEMMA TableChangesInv ==
  ASSUME Inv, NEW t \in Tables, NEW version \in 0 .. MaxVersion, TableChanges(t, version)
  PROVE  Inv'
<1>1. /\ events \in Nat /\ events < MaxEvents /\ events' = events + 1
      /\ ddic' = [ddic EXCEPT ![t] = version]
      /\ call' = [s \in Sessions |->
           [call[s] EXCEPT !.missing = @ \/ (call[s].pc # "idle" /\ call[s].table = t
                                             /\ version = 0)]]
      /\ UNCHANGED <<secrets, attached, entries, created_all_entries, calls>>
  BY Bounds DEF TableChanges, Inv, TypeOK
<1>2. events' \in 0 .. MaxEvents
  BY <1>1, Bounds
<1>3. ASSUME NEW s \in Sessions
      PROVE  /\ call'[s] \in CallRecords
             /\ CallInv(call'[s], attached, entries, ddic', created_all_entries)
             /\ ~ attached.live => call'[s] = Idle
  <2> DEFINE c == call[s]
             missing == c.missing \/ (c.pc # "idle" /\ c.table = t /\ version = 0)
             d == [c EXCEPT !.missing = missing]
  <2>1. /\ c \in CallRecords /\ CallInv(c, attached, entries, ddic, created_all_entries)
        /\ ~ attached.live => c = Idle
    BY DEF Inv, TypeOK, CallsInv, NothingAttached
  <2>2. call'[s] = d
    BY <1>1
  <2>3. d \in CallRecords
    BY <2>1 DEF CallRecords
  <2>4. /\ d.op = c.op /\ d.pc = c.pc /\ d.table = c.table /\ d.todo = c.todo
        /\ d.columns = c.columns
        /\ d.explicit = c.explicit /\ d.used = c.used /\ d.outcome = c.outcome
        /\ d.raced = c.raced /\ d.missing = missing
    BY <2>1 DEF CallRecords
  <2>5. ASSUME ~ attached.live
        PROVE  d = Idle
    <3>1. c = Idle
      BY <2>1, <2>5
    <3>2. c.pc = "idle" /\ c.missing = FALSE
      BY <3>1 DEF Idle
    <3>3. missing = FALSE
      BY <3>2
    <3> HIDE DEF missing
    <3>4. [c EXCEPT !.missing = FALSE] = c
      BY <2>1, <3>2, NotMissing
    <3> QED BY <3>1, <3>3, <3>4
  <2> HIDE DEF d
  <2>6. /\ Stage(d) /\ Enumerating(d, attached.allowed, entries)
        /\ Hidden(d, attached.allowed) /\ Own(d, attached.secret)
        /\ d.outcome # "internal error"
    BY <2>1, <2>4 DEF CallInv, Stage, Enumerating, Hidden, Own
  <2>7. LookingUp(d, ddic', created_all_entries)
    <3>1. c.pc = "lookup" /\ created_all_entries => c.raced
      BY <2>1 DEF CallInv, LookingUp
    <3>2. ASSUME c.op = "select", c.pc # "idle", ddic'[c.table] = 0
          PROVE  missing
      <4>1. c.pc # "enumerate"
        BY <2>1, <3>2 DEF CallInv, Stage
      <4>2. c.table \in Tables
        BY <2>1, <3>2, <4>1 DEF CallInv, Stage, CallRecords
      <4>3. ddic \in [Tables -> 0 .. MaxVersion]
        BY DEF Inv, TypeOK
      <4>4. ddic[c.table] = 0 => c.missing
        BY <2>1, <3>2 DEF CallInv, LookingUp
      <4> QED BY <1>1, <3>2, <4>2, <4>3, <4>4
    <3> QED BY <2>4, <3>1, <3>2 DEF LookingUp
  <2> QED BY <2>2, <2>3, <2>5, <2>6, <2>7 DEF CallInv
<1>4. call' \in [Sessions -> CallRecords]
  BY <1>1, <1>3
<1>5. TypeOK'
  BY <1>1, <1>2, <1>4 DEF Inv, TypeOK
<1>6. CreatedAllMeansAll'
  BY <1>1 DEF Inv, CreatedAllMeansAll
<1>7. NothingAttached'
  BY <1>1, <1>3 DEF NothingAttached
<1>8. CallsInv'
  BY <1>1, <1>3 DEF CallsInv
<1> QED BY <1>5, <1>6, <1>7, <1>8 DEF Inv

(* ATTACH and DETACH begin with, and leave behind, calls that are Idle.    *)
LEMMA NoCalls ==
  ASSUME Inv, UNCHANGED <<outside, calls, events>>,
         call' = [s \in Sessions |-> Idle], entries' = NoEntries, created_all_entries' = FALSE,
         attached' \in [secret : Secrets \cup {NoSecret}, option : TablesOptions \cup {NoTables},
                        allowed : SUBSET Tables, live : BOOLEAN]
  PROVE  Inv'
<1>1. TypeOK'
  BY IdleOK, Bounds DEF Inv, TypeOK, outside, NoEntries
<1>2. CallsInv'
  BY IdleOK DEF CallsInv
<1> QED BY <1>1, <1>2 DEF Inv, CreatedAllMeansAll, NothingAttached

LEMMA AttachInv ==
  ASSUME Inv, NEW secret \in Secrets \cup {NoSecret}, NEW option \in TablesOptions,
         SapStorageAttach(secret, option)
  PROVE  Inv'
<1> DEFINE allowed == option.names \cup
                        (IF option.patterns = {} THEN {}
                         ELSE ResolveTablePatterns(option.patterns))
<1>1. option.names \subseteq Tables /\ UNION option.patterns \subseteq Tables
  BY CatalogAssumption
<1>2. allowed \subseteq Tables
  BY <1>1 DEF ResolveTablePatterns
<1>3. /\ attached' = [secret |-> secret, option |-> option, allowed |-> allowed, live |-> TRUE]
      /\ ~ attached.live /\ entries' = NoEntries /\ created_all_entries' = FALSE
      /\ UNCHANGED <<outside, call, calls, events>>
  BY DEF SapStorageAttach
<1>4. call' = [s \in Sessions |-> Idle]
  BY <1>3 DEF Inv, NothingAttached
<1> HIDE DEF allowed
<1>5. attached' \in [secret : Secrets \cup {NoSecret}, option : TablesOptions \cup {NoTables},
                     allowed : SUBSET Tables, live : BOOLEAN]
  BY <1>2, <1>3
<1> QED BY <1>3, <1>4, <1>5, NoCalls

LEMMA DetachInv == Inv /\ Detach => Inv'
<1> SUFFICES ASSUME Inv, Detach PROVE Inv'
  OBVIOUS
<1>1. Detached \in [secret : Secrets \cup {NoSecret}, option : TablesOptions \cup {NoTables},
                    allowed : SUBSET Tables, live : BOOLEAN]
  BY DEF Detached
<1> QED BY <1>1, NoCalls DEF Detach

LEMMA NextInv == Inv /\ [Next]_vars => Inv'
<1> SUFFICES ASSUME Inv, [Next]_vars PROVE Inv'
  OBVIOUS
<1>1. CASE UNCHANGED vars
  BY <1>1 DEF vars, outside, Inv, TypeOK, CreatedAllMeansAll, NothingAttached, CallsInv
<1>2. CASE \E n \in Secrets \cup {NoSecret}, o \in TablesOptions : SapStorageAttach(n, o)
  BY <1>2, AttachInv
<1>3. CASE Detach
  BY <1>3, DetachInv
<1>4. ASSUME NEW s \in Sessions,
             \/ \E t \in Tables, time_travel \in BOOLEAN : BeginLookup(s, t, time_travel)
             \/ BeginShow(s)
             \/ \E n \in Secrets \cup {NoSecret} : CallFunction(s, n)
      PROVE  Inv'
  BY <1>4, BeginsInv
<1>5. ASSUME NEW s \in Sessions, Serve(s)
      PROVE  Inv'
  BY <1>5, LookupEntryInv, DiscoverSchemaInv, PublishEntryInv, GetScanFunctionInv, EnumerateInv
  DEF Serve
<1>6. CASE \E t \in Tables, v \in 0 .. MaxVersion : TableChanges(t, v)
  BY <1>6, TableChangesInv
<1>7. ASSUME NEW n \in Secrets, SecretChanges(n)
      PROVE  Inv'
  <2>1. events' \in 0 .. MaxEvents
    <3>1. events \in 0 .. MaxEvents /\ events < MaxEvents /\ events' = events + 1
      BY <1>7 DEF SecretChanges, Inv, TypeOK
    <3> QED BY <3>1, Bounds
  <2>2. secrets' \subseteq Secrets
    BY <1>7 DEF SecretChanges, Inv, TypeOK
  <2> QED BY <1>7, <2>1, <2>2
      DEF SecretChanges, Inv, TypeOK, CreatedAllMeansAll, NothingAttached, CallsInv
<1> QED BY <1>1, <1>2, <1>3, <1>4, <1>5, <1>6, <1>7 DEF Next

-----------------------------------------------------------------------------
THEOREM Invariance == Spec => []Inv
<1> QED BY InitInv, NextInv, PTL DEF Spec

(* Every variable of the attachment keeps its type: no entry has columns   *)
(* it was not discovered with.  [SapDefaultGenerator, SapCatalog]          *)
THEOREM TypeCorrect == Spec => []TypeOK
<1>1. Inv => TypeOK
  BY DEF Inv
<1> QED BY <1>1, Invariance, PTL

(* For any number of sessions that look up and enumerate at a time: a      *)
(* table reported as missing was missing, is not listed, or was looked up  *)
(* while an enumeration without TABLES ended.  [TryLookupEntryInternal,    *)
(* CreateDefaultEntry]                                                     *)
THEOREM LookupsNeverHide == Spec => []LookupNeverHides
<1>1. Inv => LookupNeverHides
  BY DEF Inv, CallsInv, CallInv, Hidden, LookupNeverHides
<1> QED BY <1>1, Invariance, PTL

(* The flag that stops DuckDB from asking is set only when every listed    *)
(* table has its entry, however often enumerations failed.                 *)
(* [GetDefaultEntries, CreateDefaultEntry]                                 *)
THEOREM EnumerationsComplete == Spec => []CreatedAllMeansAll
<1>1. Inv => CreatedAllMeansAll
  BY DEF Inv
<1> QED BY <1>1, Invariance, PTL

(* DuckDB never finds a default entry for which the generator has no entry *)
(* and no error.  [CreateDefaultEntry]                                     *)
THEOREM NeverAnInternalError == Spec => []NoInternalError
<1>1. Inv => NoInternalError
  BY DEF Inv, CallsInv, CallInv, NoInternalError
<1> QED BY <1>1, Invariance, PTL

(* Whatever secrets are created and dropped, what goes through an          *)
(* attachment that names a secret reaches that secret's system or fails,   *)
(* unless the caller names another.  [FromContext, SapSecretBind]          *)
THEOREM AlwaysOwnSystem == Spec => []OwnSystem
<1>1. Inv => OwnSystem
  BY DEF Inv, CallsInv, CallInv, Own, OwnSystem
<1> QED BY <1>1, Invariance, PTL
=============================================================================
