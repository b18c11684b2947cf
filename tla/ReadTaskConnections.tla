------------------------- MODULE ReadTaskConnections -------------------------
(***************************************************************************)
(* How a column's batch is read: RfcReadColumnTask::ExecuteNextTableRead-  *)
(* ForColumn with the connection cache of its state machine, the retries   *)
(* of a failed call, and the switch to another read function.              *)
(*                                                                         *)
(* A scan (one RfcReadTableBindData) reads the batches of its columns in   *)
(* rounds: all columns read one batch, are joined, and go on.  A round is  *)
(* run by DuckDB's worker threads; a column's batches may land on          *)
(* different threads.  Connections belong to a column and are named by     *)
(* small numbers; a connection is open until Close or until the last       *)
(* shared_ptr to it is gone.                                               *)
(***************************************************************************)
EXTENDS Integers, FiniteSets

CONSTANTS
  Columns,         \* pairs <<scan, column>>
  StringColumns,   \* those of a string type
  Threads,         \* DuckDB worker threads
  PersistentCaps,  \* values of erpl_rfc_max_persistent_connections
  MaxAttempts,     \* max_attempts (5)
  ReadFunctions,   \* fallback_functions
  Systems,         \* sets of functions with an ET_DATA result table, one per
                   \* kind of SAP system
  FailSets,        \* sets of functions that raise TABLE_WITHOUT_DATA for this
                   \* table when a string column is read, one per kind of system
  Batches,         \* bound: batches per column
  MaxSets          \* bound: SETs of the two settings, together

ASSUME ConnectionAssumption ==
  /\ Columns # {} /\ IsFiniteSet(Columns) /\ StringColumns \subseteq Columns
  /\ "RFC_READ_TABLE" \in ReadFunctions /\ IsFiniteSet(ReadFunctions)
  /\ Systems \subseteq SUBSET ReadFunctions
  /\ PersistentCaps \subseteq Nat /\ MaxSets \in Nat
  /\ {MaxAttempts, Batches} \subseteq Nat \ {0}

VARIABLES
  et_data_functions,       \* the functions of this system with an ET_DATA table
  fail_functions,          \* those that raise TABLE_WITHOUT_DATA
  persistent_connections,  \* the process-wide toggle
  max_persistent,          \* the process-wide cap on a scan's cached connections
  highest_cap,             \* history: the highest value of the cap so far
  toggles, resizes,        \* counters of the bound: SETs of the toggle, of the cap
  read_table_function_user_set,  \* per scan, READ_TABLE_FUNCTION was given
  et_data_switch,          \* per scan, the probe at bind found that
                           \* RFC_READ_TABLE can be asked for ET_DATA
  persistent_slots_used,   \* per scan
  read_table_function,     \* per scan
  open,                    \* per column, the connections that are open
  opened_by,               \* per column and connection, the thread that opened it
  machine,                 \* per column, the state machine's cache
  read,                    \* per column, the locals of the task in flight
  batches                  \* per column, batches read

system   == <<et_data_functions, fail_functions>>
settings == <<persistent_connections, max_persistent, highest_cap, toggles, resizes>>
bound    == <<read_table_function_user_set, et_data_switch>>
shared   == <<persistent_slots_used, read_table_function>>
vars == <<system, settings, bound, shared, open, opened_by, machine, read, batches>>

Scans     == {c[1] : c \in Columns}
ColumnsOf(s) == {c \in Columns : c[1] = s}

(* A column holds at most four connections at a time: the cached one, that *)
(* of the cached function, that of the resident invocation and that of the *)
(* batch in flight.                                                        *)
Conn   == 1 .. 4
NoConn == 0
NoThread == "no thread"
NoFunction == "none"

Idle == [pc |-> "idle", thread |-> NoThread, attempt |-> 0, connection |-> NoConn,
         persistent |-> FALSE, func |-> NoConn, name |-> NoFunction, error |-> "none",
         toggled |-> FALSE, turns |-> 0]

(* The error leaves ExecuteTask, its locals are gone.                      *)
Raised == [Idle EXCEPT !.pc = "raised"]

NewMachine ==
  [cached_connection |-> NoConn, cached_function |-> NoConn,
   cached_function_name |-> NoFunction, cached_thread |-> NoThread,
   decision |-> "UNDECIDED", invocation |-> NoConn]

Machines ==
  [cached_connection : Conn \cup {NoConn}, cached_function : Conn \cup {NoConn},
   cached_function_name : ReadFunctions \cup {NoFunction},
   cached_thread : Threads \cup {NoThread},
   decision : {"UNDECIDED", "APPROVED", "DENIED"},
   invocation : Conn \cup {NoConn}]

Reads ==
  [pc : {"idle", "acquire", "decide", "function", "execute", "close", "caught",
         "fallback", "sleep", "raised", "finished"},
   thread : Threads \cup {NoThread}, attempt : 0 .. MaxAttempts - 1,
   connection : Conn \cup {NoConn}, persistent : BOOLEAN,
   func : Conn \cup {NoConn}, name : ReadFunctions \cup {NoFunction},
   error : {"none", "communication", "no data", "fatal"},
   toggled : BOOLEAN, turns : 0 .. MaxAttempts + 2]

TypeOK ==
  /\ et_data_functions \in Systems /\ fail_functions \in FailSets
  /\ persistent_connections \in BOOLEAN
  /\ max_persistent \in PersistentCaps /\ highest_cap \in PersistentCaps
  /\ max_persistent <= highest_cap
  /\ toggles \in 0 .. MaxSets /\ resizes \in 0 .. MaxSets
  /\ read_table_function_user_set \in [Scans -> BOOLEAN]
  /\ et_data_switch \in [Scans -> BOOLEAN]
  /\ persistent_slots_used \in [Scans -> Nat]
  /\ read_table_function \in [Scans -> ReadFunctions]
  /\ open \in [Columns -> SUBSET Conn]
  /\ opened_by \in [Columns -> [Conn -> Threads \cup {NoThread}]]
  /\ machine \in [Columns -> Machines]
  /\ read \in [Columns -> Reads]
  /\ batches \in [Columns -> 0 .. Batches]

(* The function read is RFC_READ_TABLE unless the user named another.  The *)
(* probe at bind finds no switch where the function has none, or where it  *)
(* fails itself.                                                           *)
Init ==
  /\ et_data_functions \in Systems /\ fail_functions \in FailSets
  /\ persistent_connections \in BOOLEAN
  /\ max_persistent \in PersistentCaps /\ highest_cap = max_persistent
  /\ toggles = 0 /\ resizes = 0
  /\ read_table_function_user_set \in [Scans -> BOOLEAN]
  /\ read_table_function \in [Scans -> ReadFunctions]
  /\ et_data_switch \in [Scans -> BOOLEAN]
  /\ \A s \in Scans :
       /\ read_table_function_user_set[s] \/ read_table_function[s] = "RFC_READ_TABLE"
       /\ et_data_switch[s] => "RFC_READ_TABLE" \in et_data_functions
  /\ persistent_slots_used = [s \in Scans |-> 0]
  /\ open = [c \in Columns |-> {}]
  /\ opened_by = [c \in Columns |-> [k \in Conn |-> NoThread]]
  /\ machine = [c \in Columns |-> NewMachine]
  /\ read = [c \in Columns |-> Idle]
  /\ batches = [c \in Columns |-> 0]

-----------------------------------------------------------------------------
(* The references that keep a connection of a column alive.                *)
Referenced(m, r) ==
  {m.cached_connection, m.cached_function, m.invocation, r.connection, r.func}

Fresh(c) == CHOOSE k \in Conn : k \notin Referenced(machine[c], read[c])

(* Column c goes on with machine m and locals r; "opened" and "closed" are *)
(* the connections it opens and closes.  A connection nothing refers to    *)
(* any more is closed by its destructor.                                   *)
Continue(c, m, r, opened, closed) ==
  LET alive == ((open[c] \cup opened) \ closed) \cap Referenced(m, r)
  IN  /\ machine' = [machine EXCEPT ![c] = m]
      /\ read' = [read EXCEPT ![c] = r]
      /\ open' = [open EXCEPT ![c] = alive]
      /\ opened_by' = [opened_by EXCEPT ![c] =
           [k \in Conn |-> IF k \in opened THEN r.thread
                           ELSE IF k \in alive THEN @[k] ELSE NoThread]]

(* InvalidateCachedConnection: the cache is emptied, its connection closed.*)
Invalidated(m) ==
  [m EXCEPT !.cached_connection = NoConn, !.cached_function = NoConn,
            !.cached_function_name = NoFunction, !.cached_thread = NoThread]

(* The next turn of the retry loop; "turns" is the history of how many     *)
(* there were for this batch, and stays at a bound no finite loop reaches. *)
NextTurn(r) ==
  [r EXCEPT !.pc = "acquire", !.turns = IF @ < MaxAttempts + 2 THEN @ + 1 ELSE @]

(* What the task is about to do raises an error.                           *)
Raises(c, e) ==
  /\ Continue(c, machine[c], [read[c] EXCEPT !.pc = "caught", !.error = e], {}, {})
  /\ UNCHANGED <<system, settings, bound, shared, batches>>

-----------------------------------------------------------------------------
(* A worker starts the next batch of a column; the columns of a scan that  *)
(* has failed get no further task.                                         *)
BeginBatch(c, t) ==
  /\ read[c].pc = "idle"
  /\ batches[c] < Batches
  /\ \A d \in ColumnsOf(c[1]) : batches[d] >= batches[c] /\ read[d].pc # "raised"
  /\ \A d \in Columns : read[d].thread # t
  /\ Continue(c, machine[c], NextTurn([read[c] EXCEPT !.thread = t]), {}, {})
  /\ UNCHANGED <<system, settings, bound, shared, batches>>

(* Mutant: the limit is checked before the slot is counted, off by one.    *)
GreedySlot(used) == used <= max_persistent

(* TryReservePersistentSlot: one of the first to ask, up to the cap.       *)
SlotFree(used) == used < max_persistent

(* Mutant: the cached connection is used whatever thread opened it.        *)
AnyThreadCacheUsable(c) == machine[c].cached_connection \in open[c]

(* The cache holds a live connection this thread opened.                   *)
CacheUsable(c) ==
  /\ machine[c].cached_connection \in open[c]
  /\ machine[c].cached_thread = read[c].thread

(* AcquireConnection: per batch when the toggle is off or the column lost  *)
(* its bid for a slot, else from the cache or opened into the cache.       *)
AcquireConnection(c) ==
  LET m    == machine[c]
      r    == read[c]
      s    == c[1]
      bids == persistent_connections /\ m.decision = "UNDECIDED"
      approved == IF bids THEN max_persistent > 0 /\ SlotFree(persistent_slots_used[s])
                  ELSE m.decision = "APPROVED"
      m1   == IF bids THEN [m EXCEPT !.decision = IF approved THEN "APPROVED" ELSE "DENIED"]
              ELSE m
      k    == Fresh(c)
      held == [r EXCEPT !.pc = "decide", !.connection = k]
  IN  /\ r.pc = "acquire"
      /\ persistent_slots_used' = IF bids /\ max_persistent > 0
                                    THEN [persistent_slots_used EXCEPT ![s] = @ + 1]
                                    ELSE persistent_slots_used
      /\ \/ /\ ~ (persistent_connections /\ approved)
            /\ Continue(c, m1, held, {k}, {})
         \/ /\ persistent_connections /\ approved
            /\ CacheUsable(c)
            /\ Continue(c, m1, [held EXCEPT !.connection = m.cached_connection], {}, {})
         \/ /\ persistent_connections /\ approved
            /\ ~ CacheUsable(c)
            /\ Continue(c, [Invalidated(m1) EXCEPT !.cached_connection = k,
                                                   !.cached_thread = r.thread],
                        held, {k}, {m.cached_connection})
      /\ UNCHANGED <<system, settings, bound, read_table_function, batches>>

(* The logon of AcquireConnection fails.  A bid is already decided, and a  *)
(* stale cache already dropped.                                            *)
AcquireFails(c) ==
  LET m    == machine[c]
      s    == c[1]
      bids == persistent_connections /\ m.decision = "UNDECIDED"
      wins == max_persistent > 0 /\ SlotFree(persistent_slots_used[s])
      m1   == IF bids THEN [m EXCEPT !.decision = IF wins THEN "APPROVED" ELSE "DENIED"]
              ELSE m
      cache == persistent_connections /\ m1.decision = "APPROVED"
  IN  /\ read[c].pc = "acquire"
      /\ ~ (cache /\ CacheUsable(c))
      /\ persistent_slots_used' = IF bids /\ max_persistent > 0
                                    THEN [persistent_slots_used EXCEPT ![s] = @ + 1]
                                    ELSE persistent_slots_used
      /\ \E e \in {"communication", "fatal"} :
           Continue(c, IF cache THEN Invalidated(m1) ELSE m1,
                    [read[c] EXCEPT !.pc = "caught", !.error = e],
                    {}, IF cache THEN {m.cached_connection} ELSE {})
      /\ UNCHANGED <<system, settings, bound, read_table_function, batches>>

(* The toggle and the read function are read, after the connection.  A     *)
(* string column needs RFC_READ_TABLE's ET_DATA, and raises where the bind *)
(* found none.                                                             *)
Decide(c) ==
  LET f == read_table_function[c[1]]
      needs_et_data == f = "RFC_READ_TABLE" /\ c \in StringColumns
      decided == [read[c] EXCEPT
        !.persistent = persistent_connections /\ machine[c].decision = "APPROVED",
        !.name = f]
  IN  /\ read[c].pc = "decide"
      /\ \/ /\ needs_et_data => et_data_switch[c[1]]
            /\ Continue(c, machine[c],
                 [decided EXCEPT !.pc = "function"], {}, {})
         \/ /\ needs_et_data /\ ~ et_data_switch[c[1]]
            /\ Continue(c, machine[c],
                 [decided EXCEPT !.pc = "caught", !.error = "fatal"], {}, {})
      /\ UNCHANGED <<system, settings, bound, shared, batches>>

(* AcquireFunction: a descriptor of the cache or one bound to the batch's  *)
(* connection, which the cache keeps if the toggle is (still) on.          *)
AcquireFunction(c) ==
  LET m == machine[c]
      r == read[c]
      persistent == persistent_connections /\ m.decision = "APPROVED"
      cached == /\ m.cached_function # NoConn
                /\ m.cached_function_name = r.name
                /\ m.cached_connection \in open[c]
      ready(k) == [r EXCEPT !.pc = "execute", !.func = k]
  IN  /\ r.pc = "function"
      /\ \/ persistent /\ cached
              /\ Continue(c, m, ready(m.cached_function), {}, {})
         \/ persistent /\ ~ cached
              /\ Continue(c, [m EXCEPT !.cached_function = r.connection,
                                       !.cached_function_name = r.name],
                          ready(r.connection), {}, {})
         \/ ~ persistent
              /\ Continue(c, m, ready(r.connection), {}, {})
      /\ UNCHANGED <<system, settings, bound, shared, batches>>

(* RfcGetFunctionDesc, the marshalling of the arguments or the call fails, *)
(* retryably or not: nothing bounds how often.  A cached descriptor whose  *)
(* connection was closed meanwhile always fails, as RfcInvoke gets no      *)
(* handle, and not retryably.                                              *)
CallFails(c) ==
  /\ read[c].pc \in {"function", "execute"}
  /\ \E e \in {"communication", "fatal"} :
       /\ read[c].pc = "execute" /\ read[c].func \notin open[c] => e = "fatal"
       /\ Raises(c, e)

(* The function module answers.  The result stays in the invocation, which *)
(* replaces the one of the batch before.                                   *)
Execute(c) ==
  LET r == read[c] IN
  /\ r.pc = "execute"
  /\ r.func \in open[c]
  /\ ~ (r.name \in fail_functions /\ c \in StringColumns)
  /\ Continue(c, [machine[c] EXCEPT !.invocation = r.func],
              [r EXCEPT !.pc = "close"], {}, {})
  /\ UNCHANGED <<system, settings, bound, shared, batches>>

(* It raises TABLE_WITHOUT_DATA, as it does for this table every time.     *)
ExecuteFindsNoData(c) ==
  LET r == read[c] IN
  /\ r.pc = "execute"
  /\ r.func \in open[c]
  /\ r.name \in fail_functions /\ c \in StringColumns
  /\ Raises(c, "no data")

(* ResolveResultTable finds no result of the name it looks for, with the   *)
(* new invocation already in place of the old one.                         *)
ResolveFails(c) == read[c].pc = "close" /\ Raises(c, "fatal")

(* Close of a connection the cache does not own.                           *)
PerBatchClose(r) == IF r.persistent THEN {} ELSE {r.connection}

(* The batch is read.                                                      *)
EndBatch(c) ==
  /\ read[c].pc = "close"
  /\ Continue(c, machine[c], [Idle EXCEPT !.toggled = read[c].toggled], {},
              PerBatchClose(read[c]))
  /\ batches' = [batches EXCEPT ![c] = @ + 1]
  /\ UNCHANGED <<system, settings, bound, shared>>

(* Close reports an error after dropping the handle: the batch, though     *)
(* read, is read again or given up.                                        *)
CloseFails(c) ==
  /\ read[c].pc = "close"
  /\ ~ read[c].persistent
  /\ \E e \in {"communication", "fatal"} :
       Continue(c, machine[c], [read[c] EXCEPT !.pc = "caught", !.error = e],
                {}, {read[c].connection})
  /\ UNCHANGED <<system, settings, bound, shared, batches>>

-----------------------------------------------------------------------------
(* Mutant: the handler keeps the cache, to spare the next logon.           *)
KeepCache(m) == m

DropCache(m) == Invalidated(m)

(* The catch block: the cache is dropped and the batch's connection        *)
(* closed; a communication failure is retried after a delay, a missing     *)
(* result table of a string column tries another function, and everything  *)
(* else is rethrown.                                                       *)
HandleError(c) ==
  LET r == read[c]
      m == machine[c]
      handling == [r EXCEPT !.connection = NoConn, !.func = NoConn, !.error = "none"]
      next == CASE r.error = "communication" -> [handling EXCEPT !.pc = "sleep"]
                [] r.error = "no data"       -> [handling EXCEPT !.pc = "fallback"]
                [] OTHER                     -> Raised
      closed == {m.cached_connection} \ {DropCache(m).cached_connection}
  IN  /\ r.pc = "caught"
      /\ Continue(c, DropCache(m), next, {}, closed \cup PerBatchClose(r))
      /\ UNCHANGED <<system, settings, bound, shared, batches>>

(* Mutant: the function that just failed is not skipped.                   *)
AnyCandidates(s) ==
  {f \in ReadFunctions : /\ ~ read_table_function_user_set[s]
                         /\ f \in et_data_functions}

(* A function the user named is kept.                                      *)
Candidates(s) ==
  {f \in ReadFunctions : /\ ~ read_table_function_user_set[s]
                         /\ f # read_table_function[s]
                         /\ f \in et_data_functions}

(* TrySelectFallbackReadTableFunction, on a connection of its own: the     *)
(* first other function that is found to have an ET_DATA table becomes the *)
(* function of the whole scan.  A candidate whose probe fails is passed    *)
(* over, so that it may be any of them, or none.                           *)
SelectFallback(s) ==
  \E f \in Candidates(s) :
    read_table_function' = [read_table_function EXCEPT ![s] = f]

(* The task goes on at once with the function found, or rethrows.          *)
Fallback(c) ==
  /\ read[c].pc = "fallback"
  /\ \/ /\ SelectFallback(c[1])
        /\ Continue(c, machine[c], NextTurn(read[c]), {}, {})
     \/ /\ Continue(c, machine[c], Raised, {}, {})
        /\ UNCHANGED read_table_function
  /\ UNCHANGED <<system, settings, bound, persistent_slots_used, batches>>

(* The fallback connection cannot be closed: the new error leaves the      *)
(* handler, with the function of the scan switched.  (One that cannot be   *)
(* opened ends like a search that finds nothing.)                          *)
FallbackFails(c) ==
  /\ read[c].pc = "fallback"
  /\ SelectFallback(c[1])
  /\ Continue(c, machine[c], Raised, {}, {})
  /\ UNCHANGED <<system, settings, bound, persistent_slots_used, batches>>

(* The loop condition of the retries.                                      *)
AttemptsLeft(attempts) == attempts < MaxAttempts

(* The delay is over, and the loop condition is evaluated.                 *)
Retry(c) ==
  LET r == [read[c] EXCEPT !.attempt = @ + 1]
  IN  /\ read[c].pc = "sleep"
      /\ Continue(c, machine[c],
                  IF AttemptsLeft(r.attempt) THEN NextTurn(r) ELSE Raised, {}, {})
      /\ UNCHANGED <<system, settings, bound, shared, batches>>

(* The last vector of the last batch was loaded, on whatever thread: the   *)
(* machine finishes and drops its cache and its invocation.                *)
Finish(c) ==
  /\ read[c].pc = "idle"
  /\ batches[c] = Batches
  /\ \A d \in ColumnsOf(c[1]) : batches[d] = Batches
  /\ Continue(c, [Invalidated(machine[c]) EXCEPT !.invocation = NoConn],
              [Idle EXCEPT !.pc = "finished"], {}, {machine[c].cached_connection})
  /\ UNCHANGED <<system, settings, bound, shared, batches>>

(* SET erpl_rfc_persistent_connections, in any session, at any time.       *)
Toggle ==
  /\ toggles + resizes < MaxSets
  /\ toggles' = toggles + 1
  /\ persistent_connections' = ~ persistent_connections
  /\ read' = [c \in Columns |->
       [read[c] EXCEPT !.toggled = @ \/ read[c].pc \notin {"idle", "raised", "finished"}]]
  /\ UNCHANGED <<system, max_persistent, highest_cap, resizes, bound, shared, open,
                 opened_by, machine, batches>>

(* SET erpl_rfc_max_persistent_connections.                                *)
Resize ==
  /\ toggles + resizes < MaxSets
  /\ resizes' = resizes + 1
  /\ max_persistent' \in PersistentCaps \ {max_persistent}
  /\ highest_cap' = IF max_persistent' > highest_cap THEN max_persistent' ELSE highest_cap
  /\ UNCHANGED <<system, persistent_connections, toggles, bound, shared, open,
                 opened_by, machine, read, batches>>

-----------------------------------------------------------------------------
ReadStep(c) ==
  \/ AcquireConnection(c) \/ AcquireFails(c)
  \/ Decide(c)
  \/ AcquireFunction(c) \/ CallFails(c)
  \/ Execute(c) \/ ExecuteFindsNoData(c) \/ ResolveFails(c)
  \/ EndBatch(c) \/ CloseFails(c)
  \/ HandleError(c) \/ Fallback(c) \/ FallbackFails(c) \/ Retry(c)

Next ==
  \/ \E c \in Columns, t \in Threads : BeginBatch(c, t)
  \/ \E c \in Columns : ReadStep(c)
  \/ \E c \in Columns : Finish(c)
  \/ Toggle \/ Resize

Spec == Init /\ [][Next]_vars

-----------------------------------------------------------------------------
(***************************************************************************)
(* What the cache and the retry loop must get right.                       *)
(***************************************************************************)

(* A call runs on a connection that the calling thread itself opened (the  *)
(* SDK allows one thread per handle) and that is open - whatever thread    *)
(* the column's batches land on.  A SET of the toggle while one of the     *)
(* column's calls is under way ends the promise for the column: the three  *)
(* reads of the toggle may then disagree, and a descriptor bound to the    *)
(* connection of that batch may stay in the cache of later ones.           *)
ThreadAffinity ==
  \A c \in Columns :
    read[c].pc = "execute" /\ ~ read[c].toggled =>
      /\ read[c].func \in open[c]
      /\ opened_by[c][read[c].func] = read[c].thread

(* No scan keeps more connections between batches than the cap allowed at  *)
(* some time: a cap that is lowered takes no slot back, but one that is    *)
(* raised while columns bid for slots gives no more than it says.          *)
SlotsRespected ==
  \A s \in Scans :
    Cardinality({c \in ColumnsOf(s) : machine[c].cached_connection \in open[c]})
      <= highest_cap

(* Between batches a column holds at most the connection it caches; one    *)
(* that lost its bid holds none, and neither does one that waits to retry, *)
(* has failed, or has finished.                                            *)
NothingLeftOpen ==
  toggles = 0 =>
    \A c \in Columns :
      CASE read[c].pc = "idle" ->
             IF persistent_connections /\ machine[c].decision = "APPROVED"
               THEN open[c] \subseteq {machine[c].cached_connection}
               ELSE open[c] = {}
        [] read[c].pc \in {"sleep", "fallback", "raised", "finished"} -> open[c] = {}
        [] OTHER -> TRUE

(* The functions a string column of scan s can be switched to and fail     *)
(* with again.                                                             *)
Relapses(s) ==
  {f \in fail_functions \cap et_data_functions : f = "RFC_READ_TABLE" => et_data_switch[s]}

(* The string columns of s may be switched from one function to another    *)
(* and back for ever: a column alone if two functions fail it, and several *)
(* columns, each of which switches the function of all, if one does.       *)
Alternates(s) ==
  /\ ~ read_table_function_user_set[s]
  /\ Cardinality(Relapses(s)) >=
       (IF Cardinality(ColumnsOf(s) \cap StringColumns) > 1 THEN 1 ELSE 2)

(* A batch goes round the retry loop once per attempt, and once more if    *)
(* the read function was switched for it: however often its calls fail and *)
(* whatever the other columns do meanwhile, the switch does not begin the  *)
(* attempts anew - unless the scan Alternates, which no limit ends.        *)
(* ["Could not complete read task after %d attempts."]                     *)
AttemptsAreLimited ==
  \A c \in Columns : ~ Alternates(c[1]) => read[c].turns <= MaxAttempts + 1
=============================================================================
