--------------------- MODULE ReadTaskConnections_proofs ---------------------
(***************************************************************************)
(* Proofs about ReadTaskConnections, for any number of scans, columns and  *)
(* threads: the variables keep their types, no scan caches more            *)
(* connections than it may, no call runs on a connection of another        *)
(* thread, none is left open between batches or after an error, and the    *)
(* retries of a batch end.                                                 *)
(*                                                                         *)
(* The invariant says of one column what its machine, the locals of its    *)
(* task and its open connections have to do with each other (ColumnInv).   *)
(* Every action but the two SETs goes on with one column (Continue), so    *)
(* Goes reduces each of them to ColumnInv of what it goes on with; only    *)
(* AcquireConnection and AcquireFails touch the slots of the scan.         *)
(***************************************************************************)
EXTENDS ReadTaskConnections, FiniteSetTheorems, TLAPS

AtRest == {"idle", "raised", "finished"}
Unbound == {"idle", "acquire", "sleep", "fallback", "raised", "finished"}

(* Machine m, locals r, open connections O and their openers B, under the  *)
(* toggle P; quiet: the toggle was never SET.                              *)
Local(r) == r.pc \in Unbound => r.connection = NoConn /\ r.func = NoConn

Cached(m, O, B) ==
  /\ m.cached_connection \in O => B[m.cached_connection] = m.cached_thread
  /\ m.cached_connection # NoConn => m.decision = "APPROVED"

Bound(r, O, B) ==
  r.pc \in {"decide", "function"} => r.connection \in O /\ B[r.connection] = r.thread

Steady(m, r, O, B, P) ==
  ~ r.toggled /\ r.pc \notin {"raised", "finished"} =>
    /\ m.cached_function # NoConn => m.cached_function = m.cached_connection
    /\ r.pc \in {"decide", "function"} /\ P /\ m.decision = "APPROVED"
         => r.connection = m.cached_connection
    /\ r.pc = "execute" => r.func \in O /\ B[r.func] = r.thread

Quiet(m, r, O, P) ==
  /\ ~ r.toggled
  /\ O \subseteq {m.cached_connection, r.connection}
  /\ ~ (P /\ m.decision = "APPROVED") => m.cached_connection = NoConn
  /\ r.persistent /\ r.connection # NoConn /\ r.pc # "decide"
       => r.connection = m.cached_connection
  /\ r.pc \in {"sleep", "fallback", "raised", "finished"} => O = {}

ColumnInv(m, r, O, B, P, quiet) ==
  /\ Local(r)
  /\ Cached(m, O, B)
  /\ Bound(r, O, B)
  /\ Steady(m, r, O, B, P)
  /\ quiet => Quiet(m, r, O, P)

Approved(s) == {c \in ColumnsOf(s) : machine[c].decision = "APPROVED"}

Slots ==
  \A s \in Scans : /\ Cardinality(Approved(s)) <= highest_cap
                   /\ Cardinality(Approved(s)) <= persistent_slots_used[s]

InBatch == \A c \in Columns : read[c].pc \notin AtRest => batches[c] < Batches

Inv ==
  /\ TypeOK
  /\ InBatch
  /\ Slots
  /\ \A c \in Columns :
       ColumnInv(machine[c], read[c], open[c], opened_by[c], persistent_connections,
                 toggles = 0)

-----------------------------------------------------------------------------
LEMMA Bounds ==
  /\ PersistentCaps \subseteq Nat /\ MaxSets \in Nat
  /\ MaxAttempts \in Nat \ {0} /\ Batches \in Nat \ {0}
  /\ IsFiniteSet(Columns)
  /\ "RFC_READ_TABLE" \in ReadFunctions
BY ConnectionAssumption

LEMMA Caps ==
  ASSUME Inv
  PROVE  max_persistent \in Nat /\ highest_cap \in Nat /\ max_persistent <= highest_cap
BY Bounds DEF Inv, TypeOK

LEMMA Records ==
  /\ Idle \in Reads /\ Raised \in Reads /\ NewMachine \in Machines
  /\ Idle.pc = "idle" /\ Idle.connection = NoConn /\ Idle.func = NoConn
  /\ Idle.thread = NoThread /\ Idle.persistent = FALSE /\ Idle.toggled = FALSE
  /\ Raised.pc = "raised" /\ Raised.connection = NoConn /\ Raised.func = NoConn
  /\ Raised.thread = NoThread /\ Raised.persistent = FALSE /\ Raised.toggled = FALSE
  /\ NewMachine.cached_connection = NoConn /\ NewMachine.cached_function = NoConn
  /\ NewMachine.decision = "UNDECIDED"
<1>1. 0 \in 0 .. MaxAttempts - 1 /\ 0 \in 0 .. MaxAttempts + 2
  BY Bounds
<1>2. Idle \in Reads
  BY <1>1 DEF Idle, Reads
<1>3. Raised \in Reads /\ Raised.pc = "raised"
  BY <1>2 DEF Raised, Reads
<1>4. /\ Idle.pc = "idle" /\ Idle.connection = NoConn /\ Idle.func = NoConn
      /\ Idle.thread = NoThread /\ Idle.persistent = FALSE /\ Idle.toggled = FALSE
  BY DEF Idle
<1>5. /\ Raised.connection = NoConn /\ Raised.func = NoConn
      /\ Raised.thread = NoThread /\ Raised.persistent = FALSE /\ Raised.toggled = FALSE
  BY <1>2, <1>4 DEF Raised, Reads
<1>6. NewMachine \in Machines
  BY DEF NewMachine, Machines
<1>7. /\ NewMachine.cached_connection = NoConn /\ NewMachine.cached_function = NoConn
      /\ NewMachine.decision = "UNDECIDED"
  BY DEF NewMachine
<1> QED BY <1>2, <1>3, <1>4, <1>5, <1>6, <1>7

(* A turn of the loop leaves all but the place and the count of turns.     *)
LEMMA TurnRecord ==
  ASSUME NEW r \in Reads
  PROVE  /\ NextTurn(r) \in Reads /\ NextTurn(r).pc = "acquire"
         /\ NextTurn(r).turns = IF r.turns < MaxAttempts + 2 THEN r.turns + 1 ELSE r.turns
         /\ NextTurn(r).thread = r.thread /\ NextTurn(r).attempt = r.attempt
         /\ NextTurn(r).connection = r.connection /\ NextTurn(r).func = r.func
         /\ NextTurn(r).toggled = r.toggled /\ NextTurn(r).persistent = r.persistent
         /\ NextTurn(r).name = r.name /\ NextTurn(r).error = r.error
<1> DEFINE k == IF r.turns < MaxAttempts + 2 THEN r.turns + 1 ELSE r.turns
<1>1. r.turns \in 0 .. MaxAttempts + 2
  BY DEF Reads
<1>2. k \in 0 .. MaxAttempts + 2
  BY <1>1, Bounds
<1>3. NextTurn(r) = [r EXCEPT !.pc = "acquire", !.turns = k]
  BY DEF NextTurn, Reads
<1> HIDE DEF k
<1>4. /\ NextTurn(r) \in Reads /\ NextTurn(r).pc = "acquire" /\ NextTurn(r).turns = k
      /\ NextTurn(r).thread = r.thread /\ NextTurn(r).attempt = r.attempt
      /\ NextTurn(r).connection = r.connection /\ NextTurn(r).func = r.func
      /\ NextTurn(r).toggled = r.toggled /\ NextTurn(r).persistent = r.persistent
      /\ NextTurn(r).name = r.name /\ NextTurn(r).error = r.error
  BY <1>2, <1>3 DEF Reads
<1> QED BY <1>4 DEF k

LEMMA ScanOf == ASSUME NEW c \in Columns PROVE c[1] \in Scans /\ c \in ColumnsOf(c[1])
BY DEF Scans, ColumnsOf

LEMMA ApprovedFinite ==
  ASSUME NEW s PROVE IsFiniteSet(Approved(s)) /\ Cardinality(Approved(s)) \in Nat
<1>1. Approved(s) \subseteq Columns
  BY DEF Approved, ColumnsOf
<1> QED BY <1>1, Bounds, FS_Subset, FS_CardinalityType

(* The cache and the invocation refer to three connections at most: one of *)
(* the four numbers is free.                                               *)
LEMMA FreshIsFree ==
  ASSUME Inv, NEW c \in Columns, read[c].pc = "acquire"
  PROVE  /\ Fresh(c) \in Conn /\ Fresh(c) # NoConn
         /\ Fresh(c) \notin Referenced(machine[c], read[c])
<1>1. read[c].connection = NoConn /\ read[c].func = NoConn
  BY DEF Inv, ColumnInv, Local, Unbound
<1>2. Referenced(machine[c], read[c]) =
        {machine[c].cached_connection, machine[c].cached_function,
         machine[c].invocation, NoConn}
  BY <1>1 DEF Referenced
<1>3. \E k \in Conn : k \notin Referenced(machine[c], read[c])
  BY <1>2 DEF Conn, NoConn
<1>4. NoConn \notin Conn
  BY DEF Conn, NoConn
<1> QED BY <1>3, <1>4 DEF Fresh

-----------------------------------------------------------------------------
LEMMA InitInv == Init => Inv
<1> SUFFICES ASSUME Init PROVE Inv
  OBVIOUS
<1>1. TypeOK
  <2>1. /\ et_data_functions \in Systems /\ fail_functions \in FailSets
        /\ persistent_connections \in BOOLEAN
        /\ max_persistent \in PersistentCaps /\ highest_cap = max_persistent
        /\ toggles \in 0 .. MaxSets /\ resizes \in 0 .. MaxSets
        /\ max_persistent <= highest_cap
    BY Bounds DEF Init
  <2>2. /\ read_table_function_user_set \in [Scans -> BOOLEAN]
        /\ et_data_switch \in [Scans -> BOOLEAN]
        /\ read_table_function \in [Scans -> ReadFunctions]
        /\ persistent_slots_used \in [Scans -> Nat]
    BY DEF Init
  <2>3. /\ open \in [Columns -> SUBSET Conn]
        /\ opened_by \in [Columns -> [Conn -> Threads \cup {NoThread}]]
        /\ machine \in [Columns -> Machines] /\ read \in [Columns -> Reads]
        /\ batches \in [Columns -> 0 .. Batches]
    BY Bounds, Records DEF Init
  <2> QED BY <2>1, <2>2, <2>3 DEF TypeOK
<1>2. InBatch
  BY Records DEF Init, InBatch, AtRest
<1>3. ASSUME NEW s \in Scans
      PROVE  Cardinality(Approved(s)) <= highest_cap /\ Cardinality(Approved(s)) <= 0
  <2>1. Approved(s) = {}
    BY DEF Init, Approved, ColumnsOf, NewMachine
  <2>2. highest_cap \in Nat
    BY <1>1, Bounds DEF TypeOK
  <2> QED BY <2>1, <2>2, FS_EmptySet
<1>4. Slots
  BY <1>3 DEF Init, Slots
<1>5. ASSUME NEW c \in Columns
      PROVE  ColumnInv(machine[c], read[c], open[c], opened_by[c], persistent_connections,
                       toggles = 0)
  <2>1. machine[c] = NewMachine /\ read[c] = Idle /\ open[c] = {}
    BY DEF Init
  <2> QED BY <2>1, Records DEF ColumnInv, Local, Cached, Bound, Steady, Quiet
<1> QED BY <1>1, <1>2, <1>4, <1>5 DEF Inv

-----------------------------------------------------------------------------
Alive(c, m, r, opened, closed) == ((open[c] \cup opened) \ closed) \cap Referenced(m, r)

Owner(c, m, r, opened, closed) ==
  [k \in Conn |-> IF k \in opened THEN r.thread
                  ELSE IF k \in Alive(c, m, r, opened, closed) THEN opened_by[c][k]
                  ELSE NoThread]

(* One column goes on; the slots are looked after by the caller.           *)
LEMMA Goes ==
  ASSUME Inv,
         NEW c \in Columns, NEW m \in Machines, NEW r \in Reads,
         NEW opened \in SUBSET Conn, NEW closed, Continue(c, m, r, opened, closed),
         UNCHANGED <<system, settings, bound>>,
         read_table_function' \in [Scans -> ReadFunctions],
         persistent_slots_used' \in [Scans -> Nat],
         batches' \in [Columns -> 0 .. Batches],
         \A d \in Columns \ {c} : batches'[d] = batches[d],
         r.pc \notin AtRest => batches'[c] < Batches,
         Slots',
         ColumnInv(m, r, Alive(c, m, r, opened, closed), Owner(c, m, r, opened, closed),
                   persistent_connections, toggles = 0)
  PROVE  Inv'
<1> DEFINE alive == Alive(c, m, r, opened, closed)
           owner == Owner(c, m, r, opened, closed)
<1>1. /\ machine' = [machine EXCEPT ![c] = m]
      /\ read' = [read EXCEPT ![c] = r]
      /\ open' = [open EXCEPT ![c] = alive]
      /\ opened_by' = [opened_by EXCEPT ![c] = owner]
  BY DEF Continue, Alive, Owner
<1>2. /\ machine \in [Columns -> Machines] /\ read \in [Columns -> Reads]
      /\ open \in [Columns -> SUBSET Conn]
      /\ opened_by \in [Columns -> [Conn -> Threads \cup {NoThread}]]
  BY DEF Inv, TypeOK
<1>3. alive \in SUBSET Conn
  BY <1>2 DEF Alive
<1>4. owner \in [Conn -> Threads \cup {NoThread}]
  <2>1. r.thread \in Threads \cup {NoThread}
    BY DEF Reads
  <2> QED BY <1>2, <2>1 DEF Owner
<1> HIDE DEF alive, owner
<1>5. TypeOK'
  <2>1. /\ machine' \in [Columns -> Machines] /\ read' \in [Columns -> Reads]
        /\ open' \in [Columns -> SUBSET Conn]
        /\ opened_by' \in [Columns -> [Conn -> Threads \cup {NoThread}]]
    BY <1>1, <1>2, <1>3, <1>4
  <2> QED BY <2>1 DEF Inv, TypeOK, system, settings, bound
<1>6. InBatch'
  BY <1>1, <1>2 DEF Inv, InBatch
<1>7. ASSUME NEW d \in Columns
      PROVE  ColumnInv(machine'[d], read'[d], open'[d], opened_by'[d],
                       persistent_connections', (toggles = 0)')
  <2>1. CASE d = c
    BY <1>1, <1>2, <2>1 DEF alive, owner, settings
  <2>2. CASE d # c
    BY <1>1, <1>2, <2>2 DEF Inv, settings
  <2> QED BY <2>1, <2>2
<1> QED BY <1>5, <1>6, <1>7 DEF Inv

(* The same, of a step that decides on no slot.                            *)
LEMMA GoesOn ==
  ASSUME Inv,
         NEW c \in Columns, NEW m \in Machines, NEW r \in Reads,
         NEW closed, Continue(c, m, r, {}, closed),
         m.decision = machine[c].decision,
         UNCHANGED <<system, settings, bound, persistent_slots_used, batches>>,
         read_table_function' \in [Scans -> ReadFunctions],
         r.pc \notin AtRest => batches[c] < Batches,
         ColumnInv(m, r, Alive(c, m, r, {}, closed), Owner(c, m, r, {}, closed),
                   persistent_connections, toggles = 0)
  PROVE  Inv'
<1>1. ASSUME NEW d \in Columns PROVE machine'[d].decision = machine[d].decision
  BY DEF Inv, TypeOK, Continue
<1>2. ASSUME NEW s \in Scans PROVE Approved(s)' = Approved(s)
  BY <1>1 DEF Approved, ColumnsOf
<1>3. Slots'
  BY <1>2 DEF Inv, Slots, settings
<1>4. batches' \in [Columns -> 0 .. Batches]
  BY DEF Inv, TypeOK
<1>5. /\ persistent_slots_used' \in [Scans -> Nat]
      /\ \A d \in Columns \ {c} : batches'[d] = batches[d]
      /\ batches'[c] = batches[c]
  BY DEF Inv, TypeOK
<1>6. {} \in SUBSET Conn
  OBVIOUS
<1> QED BY <1>3, <1>4, <1>5, <1>6, Goes

(* A column's connections keep their openers while they are kept.          *)
LEMMA Kept ==
  ASSUME Inv, NEW c \in Columns, NEW m, NEW r, NEW closed
  PROVE  /\ Alive(c, m, r, {}, closed) \subseteq open[c] \ closed
         /\ \A k \in open[c] \ closed :
              k \in Referenced(m, r) => k \in Alive(c, m, r, {}, closed)
         /\ \A k \in Alive(c, m, r, {}, closed) :
              Owner(c, m, r, {}, closed)[k] = opened_by[c][k]
         /\ open[c] \subseteq Conn /\ NoConn \notin open[c]
<1>1. open[c] \subseteq Conn
  BY DEF Inv, TypeOK
<1>2. NoConn \notin Conn
  BY DEF Conn, NoConn
<1> QED BY <1>1, <1>2 DEF Alive, Owner

(* What the invariant says of the column an action goes on with.           *)
LEMMA ColumnNow ==
  ASSUME Inv, NEW c \in Columns
  PROVE  /\ machine[c] \in Machines /\ read[c] \in Reads
         /\ ColumnInv(machine[c], read[c], open[c], opened_by[c], persistent_connections,
                      toggles = 0)
         /\ read[c].pc \notin AtRest => batches[c] < Batches
         /\ batches[c] \in 0 .. Batches
         /\ read_table_function \in [Scans -> ReadFunctions]
BY DEF Inv, TypeOK, InBatch

(* An error is caught where it was raised: nothing of the machine changed. *)
LEMMA CaughtInv ==
  ASSUME Inv, NEW c \in Columns, NEW n \in Reads,
         n.pc = "caught", n.connection = read[c].connection, n.toggled = read[c].toggled,
         read[c].pc \notin AtRest,
         toggles = 0 /\ n.persistent /\ n.connection # NoConn
           => n.connection = machine[c].cached_connection,
         Continue(c, machine[c], n, {}, {}),
         UNCHANGED <<system, settings, bound, shared, batches>>
  PROVE  Inv'
<1> DEFINE m == machine[c]
           O == Alive(c, m, n, {}, {})
           B == Owner(c, m, n, {}, {})
<1>1. ColumnInv(m, read[c], open[c], opened_by[c], persistent_connections, toggles = 0)
  BY ColumnNow
<1>2. O \subseteq open[c] /\ \A k \in O : B[k] = opened_by[c][k]
  BY Kept
<1> HIDE DEF m, O, B
<1>3. ColumnInv(m, n, O, B, persistent_connections, toggles = 0)
  <2>1. Local(n) /\ Bound(n, O, B)
    BY DEF Local, Bound, Unbound
  <2>2. Cached(m, O, B)
    BY <1>1, <1>2 DEF ColumnInv, Cached
  <2>3. Steady(m, n, O, B, persistent_connections)
    BY <1>1 DEF ColumnInv, Steady, AtRest
  <2>4. toggles = 0 => Quiet(m, n, O, persistent_connections)
    BY <1>1, <1>2 DEF ColumnInv, Quiet, m
  <2> QED BY <2>1, <2>2, <2>3, <2>4 DEF ColumnInv
<1>4. m \in Machines /\ read_table_function' \in [Scans -> ReadFunctions] /\ batches[c] < Batches
  BY ColumnNow DEF m, shared
<1> QED BY <1>3, <1>4, GoesOn DEF shared, m, O, B

-----------------------------------------------------------------------------
LEMMA BeginBatchInv ==
  ASSUME Inv, NEW c \in Columns, NEW t \in Threads, BeginBatch(c, t)
  PROVE  Inv'
<1> DEFINE m == machine[c]
           r == read[c]
           on == [r EXCEPT !.thread = t]
           n == NextTurn(on)
           O == Alive(c, m, n, {}, {})
           B == Owner(c, m, n, {}, {})
<1>1. /\ m \in Machines /\ r \in Reads /\ r.pc = "idle" /\ batches[c] < Batches
      /\ ColumnInv(m, r, open[c], opened_by[c], persistent_connections, toggles = 0)
      /\ read_table_function \in [Scans -> ReadFunctions]
  BY ColumnNow DEF BeginBatch
<1>2. O \subseteq open[c] /\ \A k \in O : B[k] = opened_by[c][k]
  BY Kept
<1>3. /\ n \in Reads /\ n.pc = "acquire" /\ n.connection = r.connection
      /\ n.func = r.func /\ n.toggled = r.toggled /\ n.persistent = r.persistent
  <2>1. /\ on \in Reads /\ on.connection = r.connection /\ on.func = r.func
        /\ on.toggled = r.toggled /\ on.persistent = r.persistent
    BY <1>1 DEF Reads
  <2> HIDE DEF on
  <2> QED BY <2>1, TurnRecord
<1>4. Continue(c, m, n, {}, {}) /\ UNCHANGED <<system, settings, bound, shared, batches>>
  BY DEF BeginBatch
<1> HIDE DEF m, r, n, O, B
<1>5. ColumnInv(m, n, O, B, persistent_connections, toggles = 0)
  <2>1. Local(n)
    BY <1>1, <1>3 DEF ColumnInv, Local, Unbound
  <2>2. Cached(m, O, B) /\ Bound(n, O, B)
    BY <1>1, <1>2, <1>3 DEF ColumnInv, Cached, Bound
  <2>3. Steady(m, n, O, B, persistent_connections)
    BY <1>1, <1>3 DEF ColumnInv, Steady
  <2>4. toggles = 0 => Quiet(m, n, O, persistent_connections)
    BY <1>1, <1>2, <1>3 DEF ColumnInv, Quiet
  <2> QED BY <2>1, <2>2, <2>3, <2>4 DEF ColumnInv
<1> QED BY <1>1, <1>3, <1>4, <1>5, GoesOn DEF shared, m, O, B

-----------------------------------------------------------------------------
(* A bid for a slot: the winners of a scan are as many as the cap then     *)
(* says at most, and the count of bids covers them.                        *)
LEMMA Bid ==
  ASSUME Inv, NEW c \in Columns, NEW m \in Machines, NEW r, NEW opened, NEW closed,
         Continue(c, m, r, opened, closed),
         NEW bids \in BOOLEAN, NEW wins \in BOOLEAN,
         bids => machine[c].decision = "UNDECIDED",
         wins <=> max_persistent > 0 /\ SlotFree(persistent_slots_used[c[1]]),
         m.decision = IF bids THEN IF wins THEN "APPROVED" ELSE "DENIED"
                      ELSE machine[c].decision,
         persistent_slots_used' = IF bids /\ max_persistent > 0
           THEN [persistent_slots_used EXCEPT ![c[1]] = @ + 1]
           ELSE persistent_slots_used,
         UNCHANGED settings
  PROVE  Slots' /\ persistent_slots_used' \in [Scans -> Nat]
<1> DEFINE s == c[1]
           used == persistent_slots_used
<1>1. /\ used \in [Scans -> Nat] /\ s \in Scans /\ c \in ColumnsOf(s)
      /\ machine \in [Columns -> Machines] /\ Slots
      /\ machine' = [machine EXCEPT ![c] = m] /\ highest_cap' = highest_cap
  BY ScanOf DEF Inv, TypeOK, Continue, settings
<1>2. used' \in [Scans -> Nat]
  BY <1>1
<1>3. ASSUME NEW z \in Scans, z # s
      PROVE  Approved(z)' = Approved(z) /\ used'[z] = used[z]
  BY <1>1, <1>3 DEF Approved, ColumnsOf
<1>4. CASE bids /\ wins
  <2>1. c \notin Approved(s) /\ Approved(s)' = Approved(s) \cup {c}
    BY <1>1, <1>4 DEF Approved, ColumnsOf
  <2>2. Cardinality(Approved(s)') = Cardinality(Approved(s)) + 1
    BY <2>1, ApprovedFinite, FS_AddElement
  <2>3. used[s] < max_persistent /\ used'[s] = used[s] + 1
    BY <1>1, <1>4 DEF SlotFree
  <2>4. /\ Cardinality(Approved(s)') <= highest_cap
        /\ Cardinality(Approved(s)') <= used'[s]
    BY <1>1, <2>2, <2>3, ApprovedFinite, Caps DEF Slots
  <2> QED BY <1>1, <1>2, <1>3, <2>4 DEF Slots
<1>5. CASE ~ (bids /\ wins)
  <2>1. m.decision = "APPROVED" <=> machine[c].decision = "APPROVED"
    BY <1>5
  <2>2. Approved(s)' = Approved(s)
    BY <1>1, <2>1 DEF Approved, ColumnsOf
  <2>3. used'[s] >= used[s]
    BY <1>1
  <2>4. Cardinality(Approved(s)) <= highest_cap /\ Cardinality(Approved(s)) <= used'[s]
    BY <1>1, <1>2, <2>3, ApprovedFinite, Caps DEF Slots
  <2> QED BY <1>1, <1>2, <1>3, <2>2, <2>4 DEF Slots
<1> QED BY <1>4, <1>5

LEMMA InvalidatedRecord ==
  ASSUME NEW q \in Machines
  PROVE  /\ Invalidated(q) \in Machines /\ Invalidated(q).cached_connection = NoConn
         /\ Invalidated(q).cached_function = NoConn
         /\ Invalidated(q).decision = q.decision
BY DEF Invalidated, Machines

(* AcquireConnection in one of its three ways: m1 is the machine after the *)
(* bid, n the locals it goes on with.                                      *)
LEMMA AcquireConnectionInv ==
  ASSUME Inv, NEW c \in Columns, AcquireConnection(c)
  PROVE  Inv'
<1> DEFINE m == machine[c]
           r == read[c]
           P == persistent_connections
           bids == P /\ m.decision = "UNDECIDED"
           wins == max_persistent > 0 /\ SlotFree(persistent_slots_used[c[1]])
           approved == IF bids THEN wins ELSE m.decision = "APPROVED"
           m1 == IF bids
                   THEN [m EXCEPT !.decision = IF approved THEN "APPROVED" ELSE "DENIED"]
                   ELSE m
           k == Fresh(c)
           held == [r EXCEPT !.pc = "decide", !.connection = k]
           reused == [held EXCEPT !.connection = m.cached_connection]
           m2 == [Invalidated(m1) EXCEPT !.cached_connection = k,
                                         !.cached_thread = r.thread]
<1>1. /\ m \in Machines /\ r \in Reads /\ r.pc = "acquire" /\ P \in BOOLEAN
      /\ ColumnInv(m, r, open[c], opened_by[c], P, toggles = 0)
      /\ read_table_function \in [Scans -> ReadFunctions] /\ batches[c] < Batches
      /\ open[c] \subseteq Conn /\ NoConn \notin open[c]
      /\ batches \in [Columns -> 0 .. Batches]
      /\ UNCHANGED <<system, settings, bound, read_table_function, batches>>
  <2>1. batches \in [Columns -> 0 .. Batches] /\ P \in BOOLEAN
    BY DEF Inv, TypeOK
  <2>2. open[c] \subseteq Conn /\ NoConn \notin open[c]
    BY Kept
  <2> QED BY <2>1, <2>2, ColumnNow DEF AcquireConnection, AtRest
<1>2. /\ r.connection = NoConn /\ r.func = NoConn
  BY <1>1 DEF ColumnInv, Local, Unbound
<1>3. /\ k \in Conn /\ k # NoConn /\ k \notin Referenced(m, r)
      /\ k # m.cached_connection /\ k # m.cached_function
  BY <1>1, FreshIsFree DEF Referenced
<1>4. /\ m1 \in Machines
      /\ m1.cached_connection = m.cached_connection
      /\ m1.cached_function = m.cached_function /\ m1.cached_thread = m.cached_thread
      /\ m1.decision = IF bids THEN IF wins THEN "APPROVED" ELSE "DENIED" ELSE m.decision
  BY <1>1 DEF Machines
<1>5. /\ P => (approved <=> m1.decision = "APPROVED")
      /\ m.decision = "APPROVED" => m1.decision = "APPROVED"
  BY <1>4
<1>6. /\ held \in Reads /\ held.pc = "decide" /\ held.connection = k
      /\ held.thread = r.thread /\ held.toggled = r.toggled
  BY <1>1, <1>3 DEF Reads
<1>7. /\ reused \in Reads /\ reused.pc = "decide"
      /\ reused.connection = m.cached_connection
      /\ reused.thread = r.thread /\ reused.toggled = r.toggled
  BY <1>1, <1>6 DEF Reads, Machines
<1>8. /\ m2 \in Machines /\ m2.cached_connection = k /\ m2.cached_function = NoConn
      /\ m2.cached_thread = r.thread /\ m2.decision = m1.decision
  <2>1. r.thread \in Threads \cup {NoThread}
    BY <1>1 DEF Reads
  <2>2. m2 = [Invalidated(m1) EXCEPT !.cached_connection = k, !.cached_thread = r.thread]
    OBVIOUS
  <2> HIDE DEF m2, m1, k, r
  <2>3. /\ Invalidated(m1) \in Machines /\ Invalidated(m1).cached_function = NoConn
        /\ Invalidated(m1).decision = m1.decision
    BY <1>4, InvalidatedRecord
  <2> QED BY <1>3, <2>1, <2>2, <2>3 DEF Machines
<1>9. persistent_slots_used' = IF bids /\ max_persistent > 0
        THEN [persistent_slots_used EXCEPT ![c[1]] = @ + 1] ELSE persistent_slots_used
  BY DEF AcquireConnection
<1>10. \/ ~ (P /\ approved) /\ Continue(c, m1, held, {k}, {})
       \/ P /\ approved /\ CacheUsable(c) /\ Continue(c, m1, reused, {}, {})
       \/ /\ P /\ approved /\ ~ CacheUsable(c)
          /\ Continue(c, m2, held, {k}, {m.cached_connection})
  BY <1>1 DEF AcquireConnection
<1> HIDE DEF m1, m2, held, reused, k, bids, wins, approved, m, r
<1>11. ASSUME NEW n \in Reads, NEW q \in Machines, NEW opened \in SUBSET Conn, NEW closed,
              n.pc = "decide", q.decision = m1.decision, Continue(c, q, n, opened, closed),
              ColumnInv(q, n, Alive(c, q, n, opened, closed),
                        Owner(c, q, n, opened, closed), P, toggles = 0)
       PROVE  Inv'
  <2>1. Slots' /\ persistent_slots_used' \in [Scans -> Nat]
    <3>1. bids \in BOOLEAN /\ wins \in BOOLEAN
      BY <1>1 DEF bids, wins
    <3>2. bids => machine[c].decision = "UNDECIDED"
      BY DEF bids, m
    <3>3. wins <=> max_persistent > 0 /\ SlotFree(persistent_slots_used[c[1]])
      BY DEF wins
    <3>4. q.decision = IF bids THEN IF wins THEN "APPROVED" ELSE "DENIED"
                       ELSE machine[c].decision
      BY <1>4, <1>11 DEF m
    <3> QED BY <1>1, <1>9, <1>11, <3>1, <3>2, <3>3, <3>4, Bid
  <2>2. UNCHANGED <<system, settings, bound>>
    BY <1>1
  <2>3. /\ batches' \in [Columns -> 0 .. Batches] /\ batches'[c] < Batches
        /\ \A d \in Columns \ {c} : batches'[d] = batches[d]
        /\ read_table_function' \in [Scans -> ReadFunctions]
    BY <1>1
  <2> QED BY <1>11, <2>1, <2>2, <2>3, Goes
<1>12. CASE ~ (P /\ approved) /\ Continue(c, m1, held, {k}, {})
  <2> DEFINE O == Alive(c, m1, held, {k}, {})
             B == Owner(c, m1, held, {k}, {})
  <2>1. /\ O \subseteq open[c] \cup {k} /\ k \in O /\ B[k] = r.thread
        /\ \A j \in O \ {k} : B[j] = opened_by[c][j]
    BY <1>1, <1>3, <1>6 DEF Alive, Owner, Referenced
  <2> HIDE DEF O, B
  <2>2. Local(held) /\ Bound(held, O, B)
    BY <1>6, <2>1 DEF Local, Bound, Unbound
  <2>3. Cached(m1, O, B)
    BY <1>1, <1>3, <1>4, <1>5, <2>1 DEF ColumnInv, Cached
  <2>4. Steady(m1, held, O, B, P)
    BY <1>1, <1>4, <1>5, <1>6, <1>12 DEF ColumnInv, Steady
  <2>5. toggles = 0 => Quiet(m1, held, O, P)
    BY <1>1, <1>2, <1>4, <1>5, <1>6, <2>1 DEF ColumnInv, Quiet
  <2>6. ColumnInv(m1, held, O, B, P, toggles = 0)
    BY <2>2, <2>3, <2>4, <2>5 DEF ColumnInv
  <2>7. {k} \in SUBSET Conn
    BY <1>3
  <2> QED BY <1>4, <1>6, <1>11, <1>12, <2>6, <2>7 DEF O, B
<1>13. CASE P /\ approved /\ CacheUsable(c) /\ Continue(c, m1, reused, {}, {})
  <2> DEFINE O == Alive(c, m1, reused, {}, {})
             B == Owner(c, m1, reused, {}, {})
             cc == m.cached_connection
  <2>1. cc \in open[c] /\ m.cached_thread = r.thread
    BY <1>13 DEF CacheUsable, m, r
  <2>2. O \subseteq open[c] /\ cc \in O /\ \A j \in O : B[j] = opened_by[c][j]
    <3>1. cc \in Referenced(m1, reused)
      BY <1>7 DEF Referenced
    <3> QED BY <2>1, <3>1, Kept DEF O, B
  <2> HIDE DEF O, B
  <2>3. Cached(m1, O, B)
    BY <1>1, <1>4, <1>5, <2>2 DEF ColumnInv, Cached
  <2>4. opened_by[c][cc] = r.thread
    BY <1>1, <2>1 DEF ColumnInv, Cached
  <2>5. Local(reused) /\ Bound(reused, O, B)
    BY <1>7, <2>2, <2>4 DEF Local, Bound, Unbound
  <2>6. Steady(m1, reused, O, B, P)
    BY <1>1, <1>4, <1>7 DEF ColumnInv, Steady
  <2>7. toggles = 0 => Quiet(m1, reused, O, P)
    BY <1>1, <1>2, <1>4, <1>5, <1>7, <1>13, <2>2 DEF ColumnInv, Quiet
  <2>8. ColumnInv(m1, reused, O, B, P, toggles = 0)
    BY <2>3, <2>5, <2>6, <2>7 DEF ColumnInv
  <2> QED BY <1>4, <1>7, <1>11, <1>13, <2>8 DEF O, B
<1>14. CASE P /\ approved /\ Continue(c, m2, held, {k}, {m.cached_connection})
  <2> DEFINE cc == m.cached_connection
             O == Alive(c, m2, held, {k}, {cc})
             B == Owner(c, m2, held, {k}, {cc})
  <2>1. /\ O \subseteq (open[c] \ {cc}) \cup {k} /\ k \in O /\ B[k] = r.thread
    BY <1>1, <1>3, <1>6 DEF Alive, Owner, Referenced
  <2> HIDE DEF O, B
  <2>2. Local(held) /\ Bound(held, O, B)
    BY <1>6, <2>1 DEF Local, Bound, Unbound
  <2>3. Cached(m2, O, B)
    BY <1>5, <1>8, <1>14, <2>1 DEF Cached
  <2>4. Steady(m2, held, O, B, P)
    BY <1>6, <1>8 DEF Steady
  <2>5. toggles = 0 => Quiet(m2, held, O, P)
    BY <1>1, <1>2, <1>5, <1>6, <1>8, <1>14, <2>1 DEF ColumnInv, Quiet
  <2>6. ColumnInv(m2, held, O, B, P, toggles = 0)
    BY <2>2, <2>3, <2>4, <2>5 DEF ColumnInv
  <2>7. {k} \in SUBSET Conn
    BY <1>3
  <2> QED BY <1>6, <1>8, <1>11, <1>14, <2>6, <2>7 DEF O, B
<1> QED BY <1>10, <1>12, <1>13, <1>14

LEMMA AcquireFailsInv ==
  ASSUME Inv, NEW c \in Columns, AcquireFails(c)
  PROVE  Inv'
<1> DEFINE m == machine[c]
           r == read[c]
           P == persistent_connections
           bids == P /\ m.decision = "UNDECIDED"
           wins == max_persistent > 0 /\ SlotFree(persistent_slots_used[c[1]])
           m1 == IF bids THEN [m EXCEPT !.decision = IF wins THEN "APPROVED" ELSE "DENIED"]
                 ELSE m
           cache == P /\ m1.decision = "APPROVED"
           q == IF cache THEN Invalidated(m1) ELSE m1
           closed == IF cache THEN {m.cached_connection} ELSE {}
<1>1. /\ m \in Machines /\ r \in Reads /\ r.pc = "acquire" /\ P \in BOOLEAN
      /\ ColumnInv(m, r, open[c], opened_by[c], P, toggles = 0)
      /\ batches[c] < Batches /\ read_table_function \in [Scans -> ReadFunctions]
      /\ batches \in [Columns -> 0 .. Batches] /\ NoConn \notin open[c]
      /\ UNCHANGED <<system, settings, bound, read_table_function, batches>>
  <2>1. batches \in [Columns -> 0 .. Batches] /\ P \in BOOLEAN
    BY DEF Inv, TypeOK
  <2>2. NoConn \notin open[c]
    BY Kept
  <2> QED BY <2>1, <2>2, ColumnNow DEF AcquireFails, AtRest
<1>2. /\ r.connection = NoConn /\ r.func = NoConn
  BY <1>1 DEF ColumnInv, Local, Unbound
<1>3. /\ m1 \in Machines
      /\ m1.cached_connection = m.cached_connection
      /\ m1.cached_function = m.cached_function /\ m1.cached_thread = m.cached_thread
      /\ m1.decision = IF bids THEN IF wins THEN "APPROVED" ELSE "DENIED" ELSE m.decision
      /\ m.decision = "APPROVED" => m1.decision = "APPROVED"
  BY <1>1 DEF Machines
<1>4. PICK e \in {"communication", "fatal"} :
        Continue(c, q, [r EXCEPT !.pc = "caught", !.error = e], {}, closed)
  BY DEF AcquireFails
<1> DEFINE n == [r EXCEPT !.pc = "caught", !.error = e]
           O == Alive(c, q, n, {}, closed)
           B == Owner(c, q, n, {}, closed)
<1>5. /\ n \in Reads /\ n.pc = "caught" /\ n.connection = NoConn /\ n.toggled = r.toggled
  BY <1>1, <1>2 DEF Reads
<1>6. persistent_slots_used' = IF bids /\ max_persistent > 0
        THEN [persistent_slots_used EXCEPT ![c[1]] = @ + 1] ELSE persistent_slots_used
  BY DEF AcquireFails
<1>7. Continue(c, q, n, {}, closed)
  BY <1>4
<1>8. O \subseteq open[c] \ closed /\ \A j \in O : B[j] = opened_by[c][j]
  BY Kept
<1>9. /\ q \in Machines /\ q.decision = m1.decision
      /\ cache => q.cached_connection = NoConn /\ q.cached_function = NoConn
      /\ ~ cache => q = m1
  <2> HIDE DEF m1
  <2> QED BY <1>3, InvalidatedRecord
<1> HIDE DEF m, r, bids, wins, m1, q, n, O, B
<1>10. Slots' /\ persistent_slots_used' \in [Scans -> Nat]
  <2>1. bids \in BOOLEAN /\ wins \in BOOLEAN
    BY <1>1 DEF bids, wins
  <2>2. bids => machine[c].decision = "UNDECIDED"
    BY DEF bids, m
  <2>3. wins <=> max_persistent > 0 /\ SlotFree(persistent_slots_used[c[1]])
    BY DEF wins
  <2>4. q.decision = IF bids THEN IF wins THEN "APPROVED" ELSE "DENIED"
                     ELSE machine[c].decision
    BY <1>3, <1>9 DEF m
  <2> QED BY <1>1, <1>6, <1>7, <1>9, <2>1, <2>2, <2>3, <2>4, Bid
<1>11. ColumnInv(q, n, O, B, P, toggles = 0)
  <2>1. Local(n) /\ Bound(n, O, B)
    BY <1>5 DEF Local, Bound, Unbound
  <2>2. Cached(q, O, B)
    BY <1>1, <1>3, <1>8, <1>9 DEF ColumnInv, Cached, cache
  <2>3. Steady(q, n, O, B, P)
    BY <1>1, <1>3, <1>5, <1>9 DEF ColumnInv, Steady
  <2>4. toggles = 0 => Quiet(q, n, O, P)
    <3> SUFFICES ASSUME toggles = 0 PROVE Quiet(q, n, O, P)
      OBVIOUS
    <3>1. Quiet(m, r, open[c], P)
      BY <1>1 DEF ColumnInv
    <3>2. CASE cache
      BY <1>1, <1>2, <1>3, <1>5, <1>8, <1>9, <3>1, <3>2 DEF Quiet
    <3>3. CASE ~ cache
      <4>1. q.cached_connection = m.cached_connection /\ m.cached_connection = NoConn
        BY <1>3, <1>9, <3>1, <3>3 DEF Quiet
      <4> QED BY <1>2, <1>5, <1>8, <3>1, <4>1 DEF Quiet
    <3> QED BY <3>2, <3>3
  <2> QED BY <2>1, <2>2, <2>3, <2>4 DEF ColumnInv
<1>12. /\ batches' \in [Columns -> 0 .. Batches] /\ batches'[c] < Batches
       /\ \A d \in Columns \ {c} : batches'[d] = batches[d]
       /\ read_table_function' \in [Scans -> ReadFunctions]
       /\ UNCHANGED <<system, settings, bound>>
  BY <1>1
<1>13. {} \in SUBSET Conn
  OBVIOUS
<1> QED BY <1>1, <1>5, <1>7, <1>9, <1>10, <1>11, <1>12, <1>13, Goes DEF O, B

-----------------------------------------------------------------------------
LEMMA DecideInv ==
  ASSUME Inv, NEW c \in Columns, Decide(c)
  PROVE  Inv'
<1> DEFINE m == machine[c]
           r == read[c]
           P == persistent_connections
           keeps == P /\ m.decision = "APPROVED"
           decided == [r EXCEPT !.persistent = keeps, !.name = read_table_function[c[1]]]
           ready == [decided EXCEPT !.pc = "function"]
           failed == [decided EXCEPT !.pc = "caught", !.error = "fatal"]
<1>1. /\ m \in Machines /\ r \in Reads /\ r.pc = "decide" /\ P \in BOOLEAN
      /\ ColumnInv(m, r, open[c], opened_by[c], P, toggles = 0)
      /\ batches[c] < Batches /\ read_table_function \in [Scans -> ReadFunctions]
      /\ UNCHANGED <<system, settings, bound, shared, batches>>
  <2>1. P \in BOOLEAN
    BY DEF Inv, TypeOK
  <2> QED BY <2>1, ColumnNow DEF Decide, AtRest
<1>2. keeps \in BOOLEAN /\ read_table_function[c[1]] \in ReadFunctions
  BY <1>1, ScanOf
<1> HIDE DEF keeps
<1>3. /\ decided \in Reads /\ decided.connection = r.connection /\ decided.func = r.func
      /\ decided.thread = r.thread
      /\ decided.toggled = r.toggled /\ decided.persistent = keeps
  BY <1>1, <1>2 DEF Reads
<1> HIDE DEF decided
<1>4. /\ failed \in Reads /\ failed.pc = "caught" /\ failed.connection = r.connection
      /\ failed.toggled = r.toggled /\ failed.persistent = keeps
  BY <1>3 DEF Reads
<1>5. /\ ready \in Reads /\ ready.pc = "function" /\ ready.connection = r.connection
      /\ ready.thread = r.thread /\ ready.toggled = r.toggled
      /\ ready.persistent = keeps
  BY <1>3 DEF Reads
<1>6. Continue(c, m, ready, {}, {}) \/ Continue(c, m, failed, {}, {})
  BY DEF Decide, decided, keeps
<1>7. Bound(r, open[c], opened_by[c]) /\ r.connection \in open[c]
      /\ opened_by[c][r.connection] = r.thread
  BY <1>1 DEF ColumnInv, Bound
<1>8. toggles = 0 /\ keeps /\ r.connection # NoConn => r.connection = m.cached_connection
  BY <1>1 DEF ColumnInv, Steady, Quiet, keeps
<1> HIDE DEF ready, failed
<1>9. ASSUME Continue(c, m, ready, {}, {}) PROVE Inv'
  <2> DEFINE O == Alive(c, m, ready, {}, {})
             B == Owner(c, m, ready, {}, {})
  <2>1. O \subseteq open[c] /\ (\A j \in O : B[j] = opened_by[c][j]) /\ r.connection \in O
    <3>1. r.connection \in Referenced(m, ready)
      BY <1>5 DEF Referenced
    <3> QED BY <1>7, <3>1, Kept
  <2> HIDE DEF O, B
  <2>2. Local(ready) /\ Bound(ready, O, B)
    BY <1>5, <1>7, <2>1 DEF Local, Bound, Unbound
  <2>3. Cached(m, O, B)
    BY <1>1, <2>1 DEF ColumnInv, Cached
  <2>4. Steady(m, ready, O, B, P)
    BY <1>1, <1>5 DEF ColumnInv, Steady
  <2>5. toggles = 0 => Quiet(m, ready, O, P)
    BY <1>1, <1>5, <1>8, <2>1 DEF ColumnInv, Quiet
  <2>6. ColumnInv(m, ready, O, B, P, toggles = 0)
    BY <2>2, <2>3, <2>4, <2>5 DEF ColumnInv
  <2> QED BY <1>1, <1>5, <1>9, <2>6, GoesOn DEF shared, O, B
<1>10. ASSUME Continue(c, m, failed, {}, {}) PROVE Inv'
  <2>1. UNCHANGED <<system, settings, bound, shared, batches>>
    BY <1>1
  <2> QED BY <1>1, <1>4, <1>8, <1>10, <2>1, CaughtInv DEF AtRest
<1> QED BY <1>6, <1>9, <1>10

LEMMA AcquireFunctionInv ==
  ASSUME Inv, NEW c \in Columns, AcquireFunction(c)
  PROVE  Inv'
<1> DEFINE m == machine[c]
           r == read[c]
           P == persistent_connections
           keeps == P /\ m.decision = "APPROVED"
           cached == /\ m.cached_function # NoConn
                     /\ m.cached_function_name = r.name
                     /\ m.cached_connection \in open[c]
           ready(k) == [r EXCEPT !.pc = "execute", !.func = k]
           cache == [m EXCEPT !.cached_function = r.connection,
                              !.cached_function_name = r.name]
<1>1. /\ m \in Machines /\ r \in Reads /\ r.pc = "function"
      /\ ColumnInv(m, r, open[c], opened_by[c], P, toggles = 0)
      /\ batches[c] < Batches /\ read_table_function \in [Scans -> ReadFunctions]
      /\ UNCHANGED <<system, settings, bound, shared, batches>>
  BY ColumnNow DEF AcquireFunction, AtRest
<1>2. /\ r.connection \in open[c] /\ opened_by[c][r.connection] = r.thread
      /\ open[c] \subseteq Conn /\ NoConn \notin open[c]
  BY <1>1, Kept DEF ColumnInv, Bound
<1>3. /\ cache \in Machines /\ cache.cached_connection = m.cached_connection
      /\ cache.cached_thread = m.cached_thread /\ cache.decision = m.decision
      /\ cache.cached_function = r.connection
  BY <1>1 DEF Machines, Reads
<1>4. ASSUME NEW k \in Conn \cup {NoConn}
      PROVE  /\ ready(k) \in Reads /\ ready(k).pc = "execute" /\ ready(k).func = k
             /\ ready(k).connection = r.connection /\ ready(k).thread = r.thread
             /\ ready(k).toggled = r.toggled /\ ready(k).persistent = r.persistent
  BY <1>1 DEF Reads
<1>5. \/ keeps /\ cached /\ Continue(c, m, ready(m.cached_function), {}, {})
      \/ keeps /\ Continue(c, cache, ready(r.connection), {}, {})
      \/ ~ keeps /\ Continue(c, m, ready(r.connection), {}, {})
  BY DEF AcquireFunction
<1> HIDE DEF ready, cache
<1>6. ASSUME NEW q \in {m, cache}, NEW k \in Conn, Continue(c, q, ready(k), {}, {}),
             k \in open[c],
             ~ r.toggled => /\ opened_by[c][k] = r.thread
                            /\ q.cached_function # NoConn
                                 => q.cached_function = q.cached_connection
      PROVE  Inv'
  <2> DEFINE n == ready(k)
             O == Alive(c, q, n, {}, {})
             B == Owner(c, q, n, {}, {})
  <2>1. /\ n \in Reads /\ n.pc = "execute" /\ n.func = k
        /\ n.connection = r.connection /\ n.thread = r.thread
        /\ n.toggled = r.toggled /\ n.persistent = r.persistent
    BY <1>4
  <2>2. /\ q \in Machines /\ q.cached_connection = m.cached_connection
        /\ q.cached_thread = m.cached_thread /\ q.decision = m.decision
    BY <1>1, <1>3
  <2>3. O \subseteq open[c] /\ (\A j \in O : B[j] = opened_by[c][j]) /\ k \in O
    <3>1. k \in Referenced(q, n)
      BY <2>1 DEF Referenced
    <3> QED BY <1>6, <3>1, Kept
  <2> HIDE DEF n, O, B
  <2>4. Local(n) /\ Bound(n, O, B)
    BY <2>1 DEF Local, Bound, Unbound
  <2>5. Cached(q, O, B)
    BY <1>1, <2>2, <2>3 DEF ColumnInv, Cached
  <2>6. Steady(q, n, O, B, P)
    BY <1>6, <2>1, <2>3 DEF Steady
  <2>7. toggles = 0 => Quiet(q, n, O, P)
    BY <1>1, <2>1, <2>2, <2>3 DEF ColumnInv, Quiet
  <2>8. ColumnInv(q, n, O, B, P, toggles = 0)
    BY <2>4, <2>5, <2>6, <2>7 DEF ColumnInv
  <2>9. Continue(c, q, n, {}, {})
    BY <1>6 DEF n
  <2> QED BY <1>1, <2>1, <2>2, <2>8, <2>9, GoesOn DEF shared, O, B
<1>7. ~ r.toggled => (m.cached_function # NoConn => m.cached_function = m.cached_connection)
  BY <1>1 DEF ColumnInv, Steady
<1>8. ~ r.toggled /\ keeps => r.connection = m.cached_connection
  BY <1>1 DEF ColumnInv, Steady
<1>9. CASE keeps /\ cached /\ Continue(c, m, ready(m.cached_function), {}, {})
  <2>1. CASE m.cached_function \in open[c]
    BY <1>2, <1>6, <1>7, <1>8, <1>9, <2>1
  <2>2. CASE m.cached_function \notin open[c]
    <3> DEFINE n == ready(m.cached_function)
               O == Alive(c, m, n, {}, {})
               B == Owner(c, m, n, {}, {})
    <3>1. m.cached_function \in Conn \cup {NoConn}
      BY <1>1 DEF Machines
    <3>2. /\ n \in Reads /\ n.pc = "execute" /\ n.connection = r.connection
          /\ n.toggled = r.toggled /\ n.persistent = r.persistent
      BY <1>4, <3>1
    <3>3. r.toggled
      BY <1>7, <1>9, <2>2
    <3>4. O \subseteq open[c] /\ \A j \in O : B[j] = opened_by[c][j]
      BY Kept
    <3> HIDE DEF n, O, B
    <3>5. Cached(m, O, B)
      BY <1>1, <3>4 DEF ColumnInv, Cached
    <3>6. toggles # 0
      BY <1>1, <3>3 DEF ColumnInv, Quiet
    <3>7. ColumnInv(m, n, O, B, P, toggles = 0)
      BY <3>2, <3>3, <3>5, <3>6 DEF ColumnInv, Local, Bound, Unbound, Steady
    <3>8. Continue(c, m, n, {}, {})
      BY <1>9 DEF n
    <3> QED BY <1>1, <3>2, <3>7, <3>8, GoesOn DEF shared, O, B
  <2> QED BY <2>1, <2>2
<1>10. CASE keeps /\ Continue(c, cache, ready(r.connection), {}, {})
  BY <1>2, <1>3, <1>6, <1>8, <1>10
<1>11. CASE Continue(c, m, ready(r.connection), {}, {})
  BY <1>2, <1>6, <1>7, <1>11
<1> QED BY <1>5, <1>9, <1>10, <1>11

-----------------------------------------------------------------------------
(* The failures of a call.                                                 *)
LEMMA RaisesInv ==
  ASSUME Inv, NEW c \in Columns, NEW e \in {"communication", "no data", "fatal"},
         read[c].pc \in {"function", "execute", "close"},
         Continue(c, machine[c], [read[c] EXCEPT !.pc = "caught", !.error = e], {}, {}),
         UNCHANGED <<system, settings, bound, shared, batches>>
  PROVE  Inv'
<1> DEFINE n == [read[c] EXCEPT !.pc = "caught", !.error = e]
<1>1. /\ read[c] \in Reads
      /\ ColumnInv(machine[c], read[c], open[c], opened_by[c], persistent_connections,
                   toggles = 0)
  BY ColumnNow
<1>2. /\ n \in Reads /\ n.pc = "caught" /\ n.connection = read[c].connection
      /\ n.toggled = read[c].toggled /\ n.persistent = read[c].persistent
  BY <1>1 DEF Reads
<1>3. toggles = 0 /\ n.persistent /\ n.connection # NoConn
        => n.connection = machine[c].cached_connection
  BY <1>1, <1>2 DEF ColumnInv, Quiet
<1>4. Continue(c, machine[c], n, {}, {})
  OBVIOUS
<1> HIDE DEF n
<1> QED BY <1>2, <1>3, <1>4, CaughtInv DEF AtRest

LEMMA CallInv ==
  ASSUME Inv, NEW c \in Columns,
         CallFails(c) \/ ExecuteFindsNoData(c) \/ ResolveFails(c)
  PROVE  Inv'
<1>1. /\ read[c].pc \in {"function", "execute", "close"}
      /\ \E e \in {"communication", "no data", "fatal"} : Raises(c, e)
  BY DEF CallFails, ExecuteFindsNoData, ResolveFails
<1> QED BY <1>1, RaisesInv DEF Raises

LEMMA ExecuteInv ==
  ASSUME Inv, NEW c \in Columns, Execute(c)
  PROVE  Inv'
<1> DEFINE m == machine[c]
           r == read[c]
           P == persistent_connections
           q == [m EXCEPT !.invocation = r.func]
           n == [r EXCEPT !.pc = "close"]
           O == Alive(c, q, n, {}, {})
           B == Owner(c, q, n, {}, {})
<1>1. /\ m \in Machines /\ r \in Reads /\ r.pc = "execute"
      /\ ColumnInv(m, r, open[c], opened_by[c], P, toggles = 0)
      /\ batches[c] < Batches /\ read_table_function \in [Scans -> ReadFunctions]
      /\ UNCHANGED <<system, settings, bound, shared, batches>>
      /\ Continue(c, q, n, {}, {})
  BY ColumnNow DEF Execute, AtRest
<1>2. /\ q \in Machines /\ q.cached_connection = m.cached_connection
      /\ q.cached_thread = m.cached_thread /\ q.decision = m.decision
      /\ q.cached_function = m.cached_function
  BY <1>1 DEF Machines, Reads
<1>3. /\ n \in Reads /\ n.pc = "close" /\ n.connection = r.connection
      /\ n.toggled = r.toggled /\ n.persistent = r.persistent
  BY <1>1 DEF Reads
<1>4. O \subseteq open[c] /\ \A j \in O : B[j] = opened_by[c][j]
  BY Kept
<1> HIDE DEF m, r, q, n, O, B
<1>5. ColumnInv(q, n, O, B, P, toggles = 0)
  <2>1. Local(n) /\ Bound(n, O, B)
    BY <1>3 DEF Local, Bound, Unbound
  <2>2. Cached(q, O, B)
    BY <1>1, <1>2, <1>4 DEF ColumnInv, Cached
  <2>3. Steady(q, n, O, B, P)
    BY <1>1, <1>2, <1>3 DEF ColumnInv, Steady
  <2>4. toggles = 0 => Quiet(q, n, O, P)
    BY <1>1, <1>2, <1>3, <1>4 DEF ColumnInv, Quiet
  <2> QED BY <2>1, <2>2, <2>3, <2>4 DEF ColumnInv
<1> QED BY <1>1, <1>2, <1>3, <1>5, GoesOn DEF shared, m, O, B

-----------------------------------------------------------------------------
LEMMA EndBatchInv ==
  ASSUME Inv, NEW c \in Columns, EndBatch(c)
  PROVE  Inv'
<1> DEFINE m == machine[c]
           r == read[c]
           P == persistent_connections
           n == [Idle EXCEPT !.toggled = r.toggled]
           closed == PerBatchClose(r)
           O == Alive(c, m, n, {}, closed)
           B == Owner(c, m, n, {}, closed)
<1>1. /\ m \in Machines /\ r \in Reads /\ r.pc = "close"
      /\ ColumnInv(m, r, open[c], opened_by[c], P, toggles = 0)
      /\ batches[c] < Batches /\ read_table_function \in [Scans -> ReadFunctions]
      /\ batches \in [Columns -> 0 .. Batches]
      /\ persistent_slots_used \in [Scans -> Nat]
      /\ batches' = [batches EXCEPT ![c] = @ + 1]
      /\ UNCHANGED <<system, settings, bound, shared>>
      /\ Continue(c, m, n, {}, closed)
  <2>1. batches \in [Columns -> 0 .. Batches] /\ persistent_slots_used \in [Scans -> Nat]
    BY DEF Inv, TypeOK
  <2> QED BY <2>1, ColumnNow DEF EndBatch, AtRest
<1>2. /\ n \in Reads /\ n.pc = "idle" /\ n.connection = NoConn /\ n.func = NoConn
      /\ n.toggled = r.toggled /\ n.persistent = FALSE
  <2>1. r.toggled \in BOOLEAN
    BY <1>1 DEF Reads
  <2> HIDE DEF r
  <2> QED BY <2>1, Records DEF Reads
<1>3. /\ O \subseteq open[c] \ closed /\ \A j \in O : B[j] = opened_by[c][j]
      /\ NoConn \notin open[c]
  BY Kept
<1> HIDE DEF m, r, n, O, B
<1>4. ColumnInv(m, n, O, B, P, toggles = 0)
  <2>1. Local(n) /\ Bound(n, O, B)
    BY <1>2 DEF Local, Bound, Unbound
  <2>2. Cached(m, O, B)
    BY <1>1, <1>3 DEF ColumnInv, Cached
  <2>3. Steady(m, n, O, B, P)
    BY <1>1, <1>2 DEF ColumnInv, Steady
  <2>4. toggles = 0 => Quiet(m, n, O, P)
    <3> SUFFICES ASSUME toggles = 0 PROVE Quiet(m, n, O, P)
      OBVIOUS
    <3>1. Quiet(m, r, open[c], P)
      BY <1>1 DEF ColumnInv
    <3>2. O \subseteq {m.cached_connection}
      BY <1>1, <1>3, <3>1 DEF Quiet, PerBatchClose
    <3> QED BY <1>2, <3>1, <3>2 DEF Quiet
  <2> QED BY <2>1, <2>2, <2>3, <2>4 DEF ColumnInv
<1>5. ASSUME NEW d \in Columns PROVE machine'[d].decision = machine[d].decision
  BY <1>1 DEF Inv, TypeOK, Continue, m
<1>6. ASSUME NEW s \in Scans PROVE Approved(s)' = Approved(s)
  BY <1>5 DEF Approved, ColumnsOf
<1>7. Slots'
  BY <1>1, <1>6 DEF Inv, Slots, shared, settings
<1>8. /\ batches' \in [Columns -> 0 .. Batches]
      /\ \A d \in Columns \ {c} : batches'[d] = batches[d]
  BY <1>1, Bounds
<1>9. {} \in SUBSET Conn /\ n.pc \in AtRest
  BY <1>2 DEF AtRest
<1>10. /\ UNCHANGED <<system, settings, bound>>
       /\ read_table_function' \in [Scans -> ReadFunctions]
       /\ persistent_slots_used' \in [Scans -> Nat]
  BY <1>1 DEF shared
<1> QED BY <1>1, <1>2, <1>4, <1>7, <1>8, <1>9, <1>10, Goes DEF O, B

LEMMA CloseFailsInv ==
  ASSUME Inv, NEW c \in Columns, CloseFails(c)
  PROVE  Inv'
<1> DEFINE m == machine[c]
           r == read[c]
           P == persistent_connections
<1>1. /\ m \in Machines /\ r \in Reads /\ r.pc = "close" /\ ~ r.persistent
      /\ ColumnInv(m, r, open[c], opened_by[c], P, toggles = 0)
      /\ batches[c] < Batches /\ read_table_function \in [Scans -> ReadFunctions]
      /\ UNCHANGED <<system, settings, bound, shared, batches>>
  BY ColumnNow DEF CloseFails, AtRest
<1>2. PICK e \in {"communication", "fatal"} :
        Continue(c, m, [r EXCEPT !.pc = "caught", !.error = e], {}, {r.connection})
  BY DEF CloseFails
<1> DEFINE n == [r EXCEPT !.pc = "caught", !.error = e]
           closed == {r.connection}
           O == Alive(c, m, n, {}, closed)
           B == Owner(c, m, n, {}, closed)
<1>3. /\ n \in Reads /\ n.pc = "caught" /\ n.connection = r.connection
      /\ n.toggled = r.toggled /\ n.persistent = r.persistent
  BY <1>1 DEF Reads
<1>4. O \subseteq open[c] /\ \A j \in O : B[j] = opened_by[c][j]
  BY Kept
<1>5. Continue(c, m, n, {}, closed)
  BY <1>2
<1> HIDE DEF m, r, n, O, B
<1>6. ColumnInv(m, n, O, B, P, toggles = 0)
  <2>1. Local(n) /\ Bound(n, O, B)
    BY <1>3 DEF Local, Bound, Unbound
  <2>2. Cached(m, O, B)
    BY <1>1, <1>4 DEF ColumnInv, Cached
  <2>3. Steady(m, n, O, B, P)
    BY <1>1, <1>3 DEF ColumnInv, Steady
  <2>4. toggles = 0 => Quiet(m, n, O, P)
    BY <1>1, <1>3, <1>4 DEF ColumnInv, Quiet
  <2> QED BY <2>1, <2>2, <2>3, <2>4 DEF ColumnInv
<1> QED BY <1>1, <1>3, <1>5, <1>6, GoesOn DEF shared, m, O, B

-----------------------------------------------------------------------------
(* A step that leaves the column without a connection of the batch: its    *)
(* machine is q, what is open is what the cache of q refers to.            *)
LEMMA UnboundInv ==
  ASSUME Inv, NEW c \in Columns, NEW q \in Machines, NEW n \in Reads, NEW closed,
         n.pc \in Unbound, n.connection = NoConn, n.func = NoConn,
         read[c].pc \notin {"raised", "finished"},
         n.pc \in {"raised", "finished"} \/ n.toggled = read[c].toggled,
         n.toggled => read[c].toggled,
         q = machine[c] \/ (q.cached_connection = NoConn /\ q.cached_function = NoConn),
         q.decision = machine[c].decision,
         toggles = 0 => Alive(c, q, n, {}, closed)
                          \subseteq IF n.pc \in {"idle", "acquire"}
                                      THEN {q.cached_connection} ELSE {},
         Continue(c, q, n, {}, closed),
         UNCHANGED <<system, settings, bound, persistent_slots_used, batches>>,
         read_table_function' \in [Scans -> ReadFunctions],
         n.pc \notin AtRest => batches[c] < Batches
  PROVE  Inv'
<1> DEFINE m == machine[c]
           P == persistent_connections
           O == Alive(c, q, n, {}, closed)
           B == Owner(c, q, n, {}, closed)
<1>1. /\ m \in Machines /\ read[c] \in Reads
      /\ ColumnInv(m, read[c], open[c], opened_by[c], P, toggles = 0)
  BY ColumnNow
<1>2. /\ O \subseteq open[c] /\ \A j \in O : B[j] = opened_by[c][j]
      /\ NoConn \notin open[c]
  BY Kept
<1> HIDE DEF O, B
<1>3. Local(n) /\ Bound(n, O, B)
  BY DEF Local, Bound, Unbound
<1>4. Cached(q, O, B)
  <2>1. CASE q = m
    BY <1>1, <1>2, <2>1 DEF ColumnInv, Cached
  <2>2. CASE q.cached_connection = NoConn
    BY <1>2, <2>2 DEF Cached
  <2> QED BY <2>1, <2>2 DEF m
<1>5. Steady(q, n, O, B, P)
  <2>1. CASE q = m
    BY <1>1, <2>1 DEF ColumnInv, Steady, Unbound
  <2>2. CASE q.cached_function = NoConn
    BY <2>2 DEF Steady, Unbound
  <2> QED BY <2>1, <2>2 DEF m
<1>6. toggles = 0 => Quiet(q, n, O, P)
  <2> SUFFICES ASSUME toggles = 0 PROVE Quiet(q, n, O, P)
    OBVIOUS
  <2>1. Quiet(m, read[c], open[c], P)
    BY <1>1 DEF ColumnInv
  <2>2. /\ O \subseteq {q.cached_connection}
        /\ n.pc \in {"sleep", "fallback", "raised", "finished"} => O = {}
    BY DEF O
  <2>3. ~ n.toggled
    BY <2>1 DEF Quiet
  <2>4. ~ (P /\ q.decision = "APPROVED") => q.cached_connection = NoConn
    BY <2>1 DEF Quiet
  <2> QED BY <2>2, <2>3, <2>4 DEF Quiet
<1>7. ColumnInv(q, n, O, B, P, toggles = 0)
  BY <1>3, <1>4, <1>5, <1>6 DEF ColumnInv
<1> QED BY <1>7, GoesOn DEF O, B

LEMMA HandleErrorInv ==
  ASSUME Inv, NEW c \in Columns, HandleError(c)
  PROVE  Inv'
<1> DEFINE m == machine[c]
           r == read[c]
           q == Invalidated(m)
           handling == [r EXCEPT !.connection = NoConn, !.func = NoConn, !.error = "none"]
           n == CASE r.error = "communication" -> [handling EXCEPT !.pc = "sleep"]
                  [] r.error = "no data"       -> [handling EXCEPT !.pc = "fallback"]
                  [] OTHER                     -> Raised
           dropped == {m.cached_connection} \ {q.cached_connection}
           closed == dropped \cup PerBatchClose(r)
<1>1. /\ m \in Machines /\ r \in Reads /\ r.pc = "caught"
      /\ ColumnInv(m, r, open[c], opened_by[c], persistent_connections, toggles = 0)
      /\ batches[c] < Batches /\ read_table_function \in [Scans -> ReadFunctions]
      /\ UNCHANGED <<system, settings, bound, shared, batches>>
      /\ Continue(c, q, n, {}, closed)
  BY ColumnNow DEF HandleError, AtRest, DropCache
<1>2. /\ q \in Machines /\ q.cached_connection = NoConn /\ q.cached_function = NoConn
      /\ q.decision = m.decision
  BY <1>1, InvalidatedRecord
<1>3. /\ handling \in Reads /\ handling.connection = NoConn /\ handling.func = NoConn
      /\ handling.toggled = r.toggled
  BY <1>1 DEF Reads
<1>4. ASSUME NEW pc \in {"sleep", "fallback"}, NEW k, k = [handling EXCEPT !.pc = pc]
      PROVE  /\ k \in Reads /\ k.pc = pc /\ k.connection = NoConn /\ k.func = NoConn
             /\ k.toggled = r.toggled
  <2> HIDE DEF handling
  <2> QED BY <1>3, <1>4 DEF Reads
<1>5. /\ n \in Reads /\ n.pc \in {"sleep", "fallback", "raised"}
      /\ n.connection = NoConn /\ n.func = NoConn
      /\ n.pc = "raised" \/ n.toggled = r.toggled
      /\ n.toggled => r.toggled
  <2>1. CASE n = [handling EXCEPT !.pc = "sleep"]
    BY <1>4, <2>1
  <2>2. CASE n = [handling EXCEPT !.pc = "fallback"]
    BY <1>4, <2>2
  <2>3. CASE n = Raised
    BY <2>3, Records
  <2>4. \/ n = [handling EXCEPT !.pc = "sleep"] \/ n = [handling EXCEPT !.pc = "fallback"]
        \/ n = Raised
    <3> HIDE DEF handling
    <3> QED OBVIOUS
  <2> HIDE DEF n
  <2> QED BY <2>1, <2>2, <2>3, <2>4
<1>6. toggles = 0 => Alive(c, q, n, {}, closed) = {}
  <2> SUFFICES ASSUME toggles = 0 PROVE Alive(c, q, n, {}, closed) = {}
    OBVIOUS
  <2>1. Quiet(m, r, open[c], persistent_connections)
    BY <1>1 DEF ColumnInv
  <2>2. NoConn \notin open[c] /\ Alive(c, q, n, {}, closed) \subseteq open[c] \ closed
    <3> HIDE DEF closed, n, q
    <3> QED BY Kept
  <2>3. m.cached_connection # NoConn => m.cached_connection \in closed
    BY <1>2
  <2>4. r.connection # NoConn => r.connection \in closed
    BY <1>1, <2>1, <2>3 DEF Quiet, PerBatchClose
  <2> HIDE DEF closed, n, q, m, r
  <2> QED BY <2>1, <2>2, <2>3, <2>4 DEF Quiet
<1>7. Continue(c, q, n, {}, closed)
  BY <1>1
<1> HIDE DEF q, n, closed
<1> QED BY <1>1, <1>2, <1>5, <1>6, <1>7, UnboundInv DEF shared, Unbound

(* After an error, or between batches: nothing changes of the machine.     *)
LEMMA RestInv ==
  ASSUME Inv, NEW c \in Columns, NEW n \in Reads,
         read[c].pc \in {"sleep", "fallback"},
         n.pc \in {"acquire", "raised"},
         n.connection = NoConn, n.func = NoConn,
         n.pc = "raised" \/ n.toggled = read[c].toggled, n.toggled => read[c].toggled,
         Continue(c, machine[c], n, {}, {}),
         UNCHANGED <<system, settings, bound, persistent_slots_used, batches>>,
         read_table_function' \in [Scans -> ReadFunctions]
  PROVE  Inv'
<1>1. /\ machine[c] \in Machines /\ batches[c] < Batches
      /\ ColumnInv(machine[c], read[c], open[c], opened_by[c], persistent_connections,
                   toggles = 0)
  BY ColumnNow DEF AtRest
<1>2. toggles = 0 => open[c] = {}
  BY <1>1 DEF ColumnInv, Quiet
<1>3. toggles = 0 => Alive(c, machine[c], n, {}, {}) = {}
  BY <1>2, Kept
<1>4. n.pc \in Unbound
  BY DEF Unbound
<1> QED BY <1>1, <1>3, <1>4, UnboundInv

LEMMA SelectFallbackType ==
  ASSUME Inv, NEW s \in Scans, SelectFallback(s) \/ UNCHANGED read_table_function
  PROVE  read_table_function' \in [Scans -> ReadFunctions]
<1>1. read_table_function \in [Scans -> ReadFunctions]
  BY DEF Inv, TypeOK
<1>2. CASE SelectFallback(s)
  <2>1. PICK f \in Candidates(s) :
          read_table_function' = [read_table_function EXCEPT ![s] = f]
    BY <1>2 DEF SelectFallback
  <2>2. f \in ReadFunctions
    BY <2>1 DEF Candidates
  <2> QED BY <1>1, <2>1, <2>2
<1> QED BY <1>1, <1>2

LEMMA FallbackInv ==
  ASSUME Inv, NEW c \in Columns, Fallback(c)
  PROVE  Inv'
<1> DEFINE n == NextTurn(read[c])
<1>1. /\ read[c] \in Reads /\ read[c].pc = "fallback"
      /\ ColumnInv(machine[c], read[c], open[c], opened_by[c], persistent_connections,
                   toggles = 0)
      /\ UNCHANGED <<system, settings, bound, persistent_slots_used, batches>>
  BY ColumnNow DEF Fallback
<1>2. read[c].connection = NoConn /\ read[c].func = NoConn
  BY <1>1 DEF ColumnInv, Local, Unbound
<1>3. /\ n \in Reads /\ n.pc = "acquire" /\ n.connection = NoConn /\ n.func = NoConn
      /\ n.toggled = read[c].toggled
  BY <1>1, <1>2, TurnRecord
<1>4. \/ SelectFallback(c[1]) /\ Continue(c, machine[c], n, {}, {})
      \/ Continue(c, machine[c], Raised, {}, {}) /\ UNCHANGED read_table_function
  BY DEF Fallback
<1>5. read_table_function' \in [Scans -> ReadFunctions]
  BY <1>4, ScanOf, SelectFallbackType
<1> HIDE DEF n
<1> QED BY <1>1, <1>3, <1>4, <1>5, Records, RestInv

LEMMA FallbackFailsInv ==
  ASSUME Inv, NEW c \in Columns, FallbackFails(c)
  PROVE  Inv'
<1>1. read_table_function' \in [Scans -> ReadFunctions]
  BY ScanOf, SelectFallbackType DEF FallbackFails
<1> QED BY <1>1, Records, RestInv DEF FallbackFails

LEMMA RetryInv ==
  ASSUME Inv, NEW c \in Columns, Retry(c)
  PROVE  Inv'
<1> DEFINE r == read[c]
           again == [r EXCEPT !.attempt = @ + 1]
           n == NextTurn(again)
<1>1. /\ r \in Reads /\ r.pc = "sleep"
      /\ ColumnInv(machine[c], r, open[c], opened_by[c], persistent_connections,
                   toggles = 0)
      /\ read_table_function \in [Scans -> ReadFunctions]
      /\ UNCHANGED <<system, settings, bound, shared, batches>>
      /\ Continue(c, machine[c], IF AttemptsLeft(again.attempt) THEN n ELSE Raised, {}, {})
  BY ColumnNow DEF Retry
<1>2. r.connection = NoConn /\ r.func = NoConn
  BY <1>1 DEF ColumnInv, Local, Unbound
<1>3. CASE AttemptsLeft(again.attempt)
  <2>1. again.attempt = r.attempt + 1 /\ r.attempt \in 0 .. MaxAttempts - 1
    BY <1>1 DEF Reads
  <2>2. r.attempt + 1 \in 0 .. MaxAttempts - 1
    BY <1>3, <2>1, Bounds DEF AttemptsLeft
  <2>3. /\ again \in Reads /\ again.connection = NoConn /\ again.func = NoConn
        /\ again.toggled = r.toggled
    BY <1>1, <1>2, <2>2 DEF Reads
  <2>4. /\ n \in Reads /\ n.pc = "acquire" /\ n.connection = NoConn /\ n.func = NoConn
        /\ n.toggled = r.toggled
    <3> HIDE DEF again
    <3> QED BY <2>3, TurnRecord
  <2>5. Continue(c, machine[c], n, {}, {})
    BY <1>1, <1>3
  <2> HIDE DEF n
  <2> QED BY <1>1, <2>4, <2>5, RestInv DEF shared
<1>4. CASE ~ AttemptsLeft(again.attempt)
  BY <1>1, <1>4, Records, RestInv DEF shared
<1> QED BY <1>3, <1>4

-----------------------------------------------------------------------------
LEMMA FinishInv ==
  ASSUME Inv, NEW c \in Columns, Finish(c)
  PROVE  Inv'
<1> DEFINE m == machine[c]
           r == read[c]
           q == [Invalidated(m) EXCEPT !.invocation = NoConn]
           n == [Idle EXCEPT !.pc = "finished"]
           closed == {m.cached_connection}
<1>1. /\ m \in Machines /\ r \in Reads /\ r.pc = "idle"
      /\ ColumnInv(m, r, open[c], opened_by[c], persistent_connections, toggles = 0)
      /\ read_table_function \in [Scans -> ReadFunctions]
      /\ UNCHANGED <<system, settings, bound, shared, batches>>
      /\ Continue(c, q, n, {}, closed)
  BY ColumnNow DEF Finish
<1>2. /\ Invalidated(m) \in Machines /\ Invalidated(m).cached_connection = NoConn
      /\ Invalidated(m).cached_function = NoConn
      /\ Invalidated(m).decision = m.decision
  BY <1>1, InvalidatedRecord
<1>3. /\ q \in Machines /\ q.cached_connection = NoConn /\ q.cached_function = NoConn
      /\ q.decision = m.decision
  BY <1>2 DEF Machines
<1>4. /\ n \in Reads /\ n.pc = "finished" /\ n.connection = NoConn /\ n.func = NoConn
      /\ n.toggled = FALSE
  BY Records DEF Reads
<1>5. toggles = 0 => Alive(c, q, n, {}, closed) = {}
  <2> SUFFICES ASSUME toggles = 0 PROVE Alive(c, q, n, {}, closed) = {}
    OBVIOUS
  <2>1. Quiet(m, r, open[c], persistent_connections) /\ r.connection = NoConn
    BY <1>1 DEF ColumnInv, Local, Unbound
  <2>2. NoConn \notin open[c] /\ Alive(c, q, n, {}, closed) \subseteq open[c] \ closed
    BY Kept
  <2> HIDE DEF q, n, m, r
  <2> QED BY <2>1, <2>2 DEF Quiet
<1> HIDE DEF q, n, closed
<1> QED BY <1>1, <1>3, <1>4, <1>5, UnboundInv DEF shared, Unbound, AtRest

(* A task under way is marked; the others hold nothing the toggle decides  *)
(* about.                                                                  *)
LEMMA ToggleInv ==
  ASSUME Inv, Toggle
  PROVE  Inv'
<1>1. /\ toggles' = toggles + 1 /\ persistent_connections' \in BOOLEAN
      /\ read' = [c \in Columns |->
           [read[c] EXCEPT !.toggled = @ \/ read[c].pc \notin AtRest]]
      /\ UNCHANGED <<system, max_persistent, highest_cap, resizes, bound, shared, open,
                     opened_by, machine, batches>>
  BY DEF Toggle, Inv, TypeOK, AtRest
<1>2. toggles' \in 0 .. MaxSets /\ toggles' # 0
  BY <1>1, Bounds DEF Toggle, Inv, TypeOK
<1>3. ASSUME NEW c \in Columns
      PROVE  /\ read'[c] \in Reads /\ read'[c].pc = read[c].pc
             /\ read'[c].connection = read[c].connection /\ read'[c].func = read[c].func
             /\ read'[c].thread = read[c].thread
             /\ read'[c].toggled <=> read[c].toggled \/ read[c].pc \notin AtRest
  <2> DEFINE r == read[c]
             marked == r.toggled \/ r.pc \notin AtRest
  <2>1. r \in Reads /\ marked \in BOOLEAN
    BY ColumnNow DEF Reads
  <2>2. read'[c] = [r EXCEPT !.toggled = marked]
    BY <1>1
  <2> HIDE DEF marked
  <2>3. /\ read'[c] \in Reads /\ read'[c].pc = r.pc /\ read'[c].connection = r.connection
        /\ read'[c].func = r.func /\ read'[c].thread = r.thread
        /\ read'[c].toggled = marked
    BY <2>1, <2>2 DEF Reads
  <2> QED BY <2>3 DEF marked
<1>4. read' \in [Columns -> Reads]
  BY <1>1, <1>3
<1>5. TypeOK'
  BY <1>1, <1>2, <1>4 DEF Inv, TypeOK, system, bound, shared
<1>6. InBatch'
  BY <1>1, <1>3 DEF Inv, InBatch
<1>7. ASSUME NEW s \in Scans PROVE Approved(s)' = Approved(s)
  BY <1>1 DEF Approved, ColumnsOf
<1>8. Slots'
  BY <1>1, <1>7 DEF Inv, Slots, shared
<1>9. ASSUME NEW c \in Columns
      PROVE  ColumnInv(machine'[c], read'[c], open'[c], opened_by'[c],
                       persistent_connections', (toggles = 0)')
  <2>1. ColumnInv(machine[c], read[c], open[c], opened_by[c], persistent_connections,
                  toggles = 0)
    BY ColumnNow
  <2>2. Local(read'[c])
    BY <1>3, <2>1 DEF ColumnInv, Local
  <2>3. Cached(machine[c], open[c], opened_by[c]) /\ Bound(read'[c], open[c], opened_by[c])
    BY <1>3, <2>1 DEF ColumnInv, Bound
  <2>4. Steady(machine[c], read'[c], open[c], opened_by[c], persistent_connections')
    BY <1>3, <2>1 DEF ColumnInv, Steady, AtRest
  <2> QED BY <1>1, <1>2, <2>2, <2>3, <2>4 DEF ColumnInv
<1> QED BY <1>5, <1>6, <1>8, <1>9 DEF Inv

(* A new cap changes no column, and the highest one only grows.            *)
LEMMA ResizeInv ==
  ASSUME Inv, Resize
  PROVE  Inv'
<1>1. /\ resizes' = resizes + 1 /\ max_persistent' \in PersistentCaps
      /\ highest_cap' = IF max_persistent' > highest_cap THEN max_persistent' ELSE highest_cap
      /\ UNCHANGED <<system, persistent_connections, toggles, bound, shared, open,
                     opened_by, machine, read, batches>>
  BY DEF Resize
<1>2. resizes' \in 0 .. MaxSets
  BY <1>1, Bounds DEF Resize, Inv, TypeOK
<1>3. /\ highest_cap' \in PersistentCaps /\ max_persistent' <= highest_cap'
      /\ highest_cap <= highest_cap' /\ highest_cap' \in Nat /\ highest_cap \in Nat
  BY <1>1, Bounds DEF Inv, TypeOK
<1>4. TypeOK'
  BY <1>1, <1>2, <1>3 DEF Inv, TypeOK, system, bound, shared
<1>5. ASSUME NEW s \in Scans
      PROVE  /\ Cardinality(Approved(s)') <= highest_cap'
             /\ Cardinality(Approved(s)') <= persistent_slots_used'[s]
  <2>1. Approved(s)' = Approved(s)
    BY <1>1 DEF Approved, ColumnsOf
  <2> QED BY <1>1, <1>3, <2>1, ApprovedFinite DEF Inv, Slots, shared
<1>6. Slots'
  BY <1>5 DEF Slots
<1>7. InBatch'
  BY <1>1 DEF Inv, InBatch
<1> QED BY <1>1, <1>4, <1>6, <1>7 DEF Inv

-----------------------------------------------------------------------------
LEMMA NextInv == Inv /\ [Next]_vars => Inv'
<1> SUFFICES ASSUME Inv, [Next]_vars PROVE Inv'
  OBVIOUS
<1>1. CASE UNCHANGED vars
  BY <1>1 DEF vars, system, settings, bound, shared, Inv, TypeOK, InBatch, Slots, Approved, ColumnsOf
<1>2. ASSUME NEW c \in Columns, NEW t \in Threads, BeginBatch(c, t) PROVE Inv'
  BY <1>2, BeginBatchInv
<1>3. ASSUME NEW c \in Columns, ReadStep(c) PROVE Inv'
  BY <1>3, AcquireConnectionInv, AcquireFailsInv, DecideInv, AcquireFunctionInv, CallInv,
     ExecuteInv, EndBatchInv, CloseFailsInv, HandleErrorInv, FallbackInv,
     FallbackFailsInv, RetryInv DEF ReadStep
<1>4. ASSUME NEW c \in Columns, Finish(c) PROVE Inv'
  BY <1>4, FinishInv
<1>5. CASE Toggle
  BY <1>5, ToggleInv
<1>6. CASE Resize
  BY <1>6, ResizeInv
<1> QED BY <1>1, <1>2, <1>3, <1>4, <1>5, <1>6 DEF Next

(* The types, the slots and the rules of every column are invariant.       *)
THEOREM Invariance == Spec => []Inv
BY InitInv, NextInv, PTL DEF Spec

(* The variables keep their types: in particular four names are enough for *)
(* the connections a column holds at a time, and no read is begun once its *)
(* attempts are used up.                                                   *)
THEOREM TypeCorrect == Spec => []TypeOK
<1>1. Inv => TypeOK
  BY DEF Inv
<1> QED BY <1>1, Invariance, PTL

(* A call runs on a connection the calling thread opened itself, on        *)
(* whatever thread the batches of the column land.                         *)
THEOREM AlwaysThreadAffine == Spec => []ThreadAffinity
<1>1. Inv => ThreadAffinity
  BY DEF Inv, ColumnInv, Steady, ThreadAffinity
<1> QED BY <1>1, Invariance, PTL

(* No scan caches more connections than the highest cap so far, however    *)
(* many of its columns ask for a slot and however the cap is changed.      *)
THEOREM SlotsAlwaysRespected == Spec => []SlotsRespected
<1>1. ASSUME Inv PROVE SlotsRespected
  <2> SUFFICES ASSUME NEW s \in Scans
               PROVE  Cardinality({c \in ColumnsOf(s) :
                        machine[c].cached_connection \in open[c]}) <= highest_cap
    BY DEF SlotsRespected
  <2> DEFINE held == {c \in ColumnsOf(s) : machine[c].cached_connection \in open[c]}
  <2>1. ASSUME NEW c \in held PROVE c \in Approved(s)
    <3>1. c \in Columns /\ c \in ColumnsOf(s) /\ machine[c].cached_connection \in open[c]
      BY DEF ColumnsOf
    <3>2. NoConn \notin open[c]
      BY <1>1, <3>1, Kept
    <3>3. Cached(machine[c], open[c], opened_by[c])
      BY <1>1, <3>1 DEF Inv, ColumnInv
    <3> QED BY <3>1, <3>2, <3>3 DEF Cached, Approved
  <2>2. held \subseteq Approved(s)
    BY <2>1
  <2>3. Cardinality(held) \in Nat /\ Cardinality(held) <= Cardinality(Approved(s))
    BY <2>2, ApprovedFinite, FS_Subset, FS_CardinalityType
  <2>4. Cardinality(Approved(s)) <= highest_cap /\ Cardinality(Approved(s)) \in Nat
    BY <1>1, ApprovedFinite DEF Inv, Slots
  <2>5. Cardinality(held) <= highest_cap
    <3> HIDE DEF held
    <3> QED BY <1>1, <2>3, <2>4, Caps
  <2> QED BY <2>5
<1> QED BY <1>1, Invariance, PTL

(* Without a SET of the toggle: between batches only the cached connection *)
(* is open, and none after an error or at the end.                         *)
THEOREM NothingEverLeftOpen == Spec => []NothingLeftOpen
<1>1. ASSUME Inv PROVE NothingLeftOpen
  <2> SUFFICES ASSUME toggles = 0, NEW c \in Columns
      PROVE  /\ read[c].pc = "idle" =>
                  IF persistent_connections /\ machine[c].decision = "APPROVED"
                    THEN open[c] \subseteq {machine[c].cached_connection}
                    ELSE open[c] = {}
             /\ read[c].pc \in {"sleep", "fallback", "raised", "finished"} => open[c] = {}
    BY DEF NothingLeftOpen
  <2>1. /\ Quiet(machine[c], read[c], open[c], persistent_connections)
        /\ Local(read[c]) /\ NoConn \notin open[c]
    BY <1>1, Kept DEF Inv, ColumnInv
  <2> QED BY <2>1 DEF Quiet, Local, Unbound
<1> QED BY <1>1, Invariance, PTL
-----------------------------------------------------------------------------
(***************************************************************************)
(* The turns of the retry loop: one per attempt, and one more for a string *)
(* column that is alone in its scan and whose function was switched.  The  *)
(* function switched to does not fail, so there is no second switch.       *)
(***************************************************************************)
NoData(r) == r.pc = "fallback" \/ (r.pc = "caught" /\ r.error = "no data")
Asked(r) == r.pc \in {"function", "execute"} \/ NoData(r)

Strings(s) == ColumnsOf(s) \cap StringColumns
Lone(s) == Cardinality(Strings(s)) <= 1

(* The function a call was made with, or failed with.                      *)
AskedInv(c, r) ==
  /\ NoData(r) => c \in StringColumns /\ r.name \in fail_functions
  /\ Asked(r) /\ c \in StringColumns /\ ~ read_table_function_user_set[c[1]] =>
       /\ r.name \in et_data_functions
       /\ r.name = "RFC_READ_TABLE" => et_data_switch[c[1]]
       /\ Lone(c[1]) => r.name = read_table_function[c[1]]

Switched(c) ==
  /\ c \in StringColumns /\ ~ read_table_function_user_set[c[1]] /\ Lone(c[1])
  /\ read_table_function[c[1]] \notin Relapses(c[1])

TurnsInv(c, r) ==
  /\ r.pc \in AtRest => r.turns = 0 /\ r.attempt = 0
  /\ r.pc \notin AtRest /\ ~ Alternates(c[1]) =>
       \/ r.turns = r.attempt + 1
       \/ r.turns = r.attempt + 2 /\ Switched(c)

(* The functions a scan can have without the user's choice.                *)
FunctionsInv ==
  \A s \in Scans :
    /\ et_data_switch[s] => "RFC_READ_TABLE" \in et_data_functions
    /\ \/ read_table_function_user_set[s]
       \/ read_table_function[s] \in et_data_functions \cup {"RFC_READ_TABLE"}

Turns ==
  /\ FunctionsInv
  /\ \A c \in Columns : AskedInv(c, read[c]) /\ TurnsInv(c, read[c])

LEMMA StringsFinite ==
  ASSUME NEW s
  PROVE  /\ IsFiniteSet(Strings(s)) /\ Cardinality(Strings(s)) \in Nat
         /\ \A c, d \in Strings(s) : Lone(s) => c = d
<1>1. IsFiniteSet(Strings(s)) /\ Cardinality(Strings(s)) \in Nat
  <2>1. Strings(s) \subseteq Columns
    BY DEF Strings, ColumnsOf
  <2> QED BY <2>1, Bounds, FS_Subset, FS_CardinalityType
<1>2. ASSUME NEW c \in Strings(s), NEW d \in Strings(s), Lone(s), c # d
      PROVE  FALSE
  <2>1. {c, d} \subseteq Strings(s)
    BY <1>2
  <2>2. Cardinality({c, d}) <= Cardinality(Strings(s))
    BY <1>1, <2>1, FS_Subset
  <2>3. IsFiniteSet({d}) /\ Cardinality({d}) = 1
    BY FS_Singleton
  <2>4. Cardinality({c} \cup {d}) = 2
    BY <1>2, <2>3, FS_AddElement
  <2>5. {c} \cup {d} = {c, d}
    OBVIOUS
  <2> QED BY <1>1, <1>2, <2>2, <2>4, <2>5 DEF Lone
<1> QED BY <1>1, <1>2

(* A scan that does not alternate, and one of whose string columns was     *)
(* failed by a function it can be switched to: no other function fails it. *)
LEMMA OneRelapse ==
  ASSUME Inv, NEW s \in Scans, ~ Alternates(s), ~ read_table_function_user_set[s],
         NEW f \in Relapses(s)
  PROVE  Lone(s) /\ \A g \in Relapses(s) : g = f
<1>1. Relapses(s) \subseteq ReadFunctions /\ IsFiniteSet(ReadFunctions)
  BY ConnectionAssumption DEF Inv, TypeOK, Relapses
<1>2. IsFiniteSet(Relapses(s)) /\ Cardinality(Relapses(s)) \in Nat
  BY <1>1, FS_Subset, FS_CardinalityType
<1>3. Cardinality(Relapses(s)) >= 1
  <2>1. {f} \subseteq Relapses(s)
    OBVIOUS
  <2>2. Cardinality({f}) <= Cardinality(Relapses(s))
    BY <1>2, <2>1, FS_Subset
  <2>3. Cardinality({f}) = 1
    BY FS_Singleton
  <2> QED BY <2>2, <2>3
<1>4. Cardinality(Relapses(s)) < 2 /\ Lone(s)
  <2> DEFINE failing == Cardinality(Relapses(s))
             strings == Cardinality(Strings(s))
  <2>1. ~ (failing >= (IF strings > 1 THEN 1 ELSE 2))
    BY DEF Alternates, Strings
  <2>2. failing \in Nat /\ strings \in Nat /\ failing >= 1
    BY <1>2, <1>3, StringsFinite
  <2> HIDE DEF failing, strings
  <2>3. failing < 2 /\ strings <= 1
    BY <2>1, <2>2
  <2> QED BY <2>3 DEF failing, strings, Lone
<1>5. ASSUME NEW g \in Relapses(s), g # f PROVE FALSE
  <2>1. {g} \cup {f} \subseteq Relapses(s)
    BY <1>5
  <2>2. Cardinality({g} \cup {f}) <= Cardinality(Relapses(s))
    BY <1>2, <2>1, FS_Subset
  <2>3. IsFiniteSet({f}) /\ Cardinality({f}) = 1
    BY FS_Singleton
  <2>4. Cardinality({g} \cup {f}) = 2
    BY <1>5, <2>3, FS_AddElement
  <2> QED BY <1>2, <1>4, <2>2, <2>4
<1> QED BY <1>4, <1>5

LEMMA InitTurns == Init => Turns
<1> SUFFICES ASSUME Init PROVE Turns
  OBVIOUS
<1>1. FunctionsInv
  BY DEF Init, FunctionsInv
<1>2. ASSUME NEW c \in Columns PROVE AskedInv(c, read[c]) /\ TurnsInv(c, read[c])
  <2>1. read[c].pc = "idle" /\ read[c].turns = 0 /\ read[c].attempt = 0
    BY <1>2 DEF Init, Idle
  <2> QED BY <2>1 DEF AskedInv, TurnsInv, Asked, NoData, AtRest
<1> QED BY <1>1, <1>2 DEF Turns

(* What a step leaves of the rules when the functions stay.                *)
LEMMA FunctionsStay ==
  ASSUME Turns, UNCHANGED <<system, bound, read_table_function>>,
         \A c \in Columns : AskedInv(c, read'[c]) /\ TurnsInv(c, read'[c])
  PROVE  Turns'
<1>1. ASSUME NEW s PROVE Relapses(s)' = Relapses(s)
  BY DEF Relapses, system, bound
<1>2. ASSUME NEW s PROVE Alternates(s)' = Alternates(s)
  BY <1>1 DEF Alternates, bound, ColumnsOf
<1>3. FunctionsInv'
  BY DEF Turns, FunctionsInv, system, bound
<1>4. ASSUME NEW c \in Columns PROVE AskedInv(c, read[c])' /\ TurnsInv(c, read[c])'
  <2>1. AskedInv(c, read[c])'
    BY DEF AskedInv, system, bound, Lone, Strings, ColumnsOf
  <2>2. Switched(c)' = Switched(c)
    BY <1>1 DEF Switched, bound, Lone, Strings, ColumnsOf
  <2>3. TurnsInv(c, read[c])'
    BY <1>2, <2>2 DEF TurnsInv
  <2> QED BY <2>1, <2>3
<1> QED BY <1>3, <1>4 DEF Turns

(* One column goes on with r, the functions stay.                          *)
LEMMA TurnsOn ==
  ASSUME Inv, Turns, NEW c \in Columns, NEW r,
         read' = [read EXCEPT ![c] = r],
         UNCHANGED <<system, bound, read_table_function>>,
         AskedInv(c, r), TurnsInv(c, r)
  PROVE  Turns'
<1>1. read \in [Columns -> Reads]
  BY DEF Inv, TypeOK
<1>2. ASSUME NEW d \in Columns PROVE AskedInv(d, read'[d]) /\ TurnsInv(d, read'[d])
  BY <1>1 DEF Turns
<1> QED BY <1>2, FunctionsStay

(* ... within a turn, from what asks a function to what does not raise     *)
(* "no data" unless it did.                                                *)
LEMMA WithinTurn ==
  ASSUME Inv, Turns, NEW c \in Columns, NEW r,
         read' = [read EXCEPT ![c] = r],
         UNCHANGED <<system, bound, read_table_function>>,
         read[c].pc \notin AtRest, r.pc \notin AtRest,
         r.turns = read[c].turns, r.attempt = read[c].attempt,
         Asked(r) => Asked(read[c]) /\ r.name = read[c].name,
         NoData(r) => NoData(read[c])
  PROVE  Turns'
<1>1. NoData(r) => r.name = read[c].name
  BY DEF Asked
<1>2. AskedInv(c, read[c]) /\ TurnsInv(c, read[c])
  BY DEF Turns
<1>3. AskedInv(c, r)
  BY <1>1, <1>2 DEF AskedInv
<1>4. TurnsInv(c, r)
  BY <1>2 DEF TurnsInv
<1> QED BY <1>3, <1>4, TurnsOn

(* ... to rest.                                                            *)
LEMMA ToRest ==
  ASSUME Inv, Turns, NEW c \in Columns, NEW r,
         read' = [read EXCEPT ![c] = r],
         UNCHANGED <<system, bound, read_table_function>>,
         r.pc \in AtRest, r.turns = 0, r.attempt = 0
  PROVE  Turns'
<1>1. AskedInv(c, r) /\ TurnsInv(c, r)
  BY DEF AskedInv, TurnsInv, Asked, NoData, AtRest
<1> QED BY <1>1, TurnsOn

LEMMA Rest ==
  Idle.turns = 0 /\ Idle.attempt = 0 /\ Raised.turns = 0 /\ Raised.attempt = 0
BY DEF Idle, Raised

LEMMA BeginBatchTurns ==
  ASSUME Inv, Turns, NEW c \in Columns, NEW t \in Threads, BeginBatch(c, t)
  PROVE  Turns'
<1> DEFINE on == [read[c] EXCEPT !.thread = t]
           n == NextTurn(on)
<1>1. /\ read[c] \in Reads /\ read[c].pc = "idle" /\ read[c].attempt = 0
      /\ TurnsInv(c, read[c])
  BY ColumnNow DEF BeginBatch, Turns, TurnsInv, AtRest
<1>2. on \in Reads /\ on.turns = read[c].turns /\ on.attempt = read[c].attempt
  BY <1>1 DEF Reads
<1>3. read' = [read EXCEPT ![c] = n] /\ UNCHANGED <<system, bound, read_table_function>>
  BY DEF BeginBatch, Continue, shared
<1> HIDE DEF on
<1>4. n.pc = "acquire" /\ n.turns = n.attempt + 1
  BY <1>1, <1>2, TurnRecord, Bounds DEF TurnsInv, AtRest
<1> HIDE DEF n
<1>5. AskedInv(c, n) /\ TurnsInv(c, n)
  BY <1>4 DEF AskedInv, TurnsInv, Asked, NoData, AtRest
<1> QED BY <1>3, <1>5, TurnsOn

LEMMA AcquireTurns ==
  ASSUME Inv, Turns, NEW c \in Columns, AcquireConnection(c) \/ AcquireFails(c)
  PROVE  Turns'
<1>1. read[c] \in Reads /\ read[c].pc = "acquire"
  BY ColumnNow DEF AcquireConnection, AcquireFails
<1>2. UNCHANGED <<system, bound, read_table_function>>
  BY DEF AcquireConnection, AcquireFails
<1>3. PICK r : /\ read' = [read EXCEPT ![c] = r]
               /\ \/ \E k : r = [read[c] EXCEPT !.pc = "decide", !.connection = k]
                  \/ \E e \in {"communication", "fatal"} :
                       r = [read[c] EXCEPT !.pc = "caught", !.error = e]
  <2>1. CASE AcquireConnection(c)
    <3> DEFINE held == [read[c] EXCEPT !.pc = "decide", !.connection = Fresh(c)]
               cached == [held EXCEPT !.connection = machine[c].cached_connection]
    <3>1. \/ read' = [read EXCEPT ![c] = held]
          \/ read' = [read EXCEPT ![c] = cached]
      BY <2>1 DEF AcquireConnection, Continue
    <3>2. cached = [read[c] EXCEPT !.pc = "decide", !.connection = machine[c].cached_connection]
      BY <1>1 DEF Reads
    <3> QED BY <3>1, <3>2
  <2>2. CASE AcquireFails(c)
    BY <2>2 DEF AcquireFails, Continue
  <2> QED BY <2>1, <2>2
<1>4. /\ r.pc \notin AtRest /\ ~ Asked(r) /\ ~ NoData(r)
      /\ r.turns = read[c].turns /\ r.attempt = read[c].attempt
  BY <1>1, <1>3 DEF Reads, AtRest, Asked, NoData
<1> QED BY <1>1, <1>2, <1>3, <1>4, WithinTurn DEF AtRest

LEMMA DecideTurns ==
  ASSUME Inv, Turns, NEW c \in Columns, Decide(c)
  PROVE  Turns'
<1> DEFINE f == read_table_function[c[1]]
           P == persistent_connections /\ machine[c].decision = "APPROVED"
           on == [read[c] EXCEPT !.persistent = P, !.name = f]
           called == [on EXCEPT !.pc = "function"]
           refused == [on EXCEPT !.pc = "caught", !.error = "fatal"]
           needs == f = "RFC_READ_TABLE" /\ c \in StringColumns
<1>1. /\ read[c] \in Reads /\ read[c].pc = "decide"
      /\ UNCHANGED <<system, bound, read_table_function>>
      /\ TurnsInv(c, read[c]) /\ c[1] \in Scans
  BY ColumnNow, ScanOf DEF Decide, Turns, shared
<1>2. \/ (needs => et_data_switch[c[1]]) /\ read' = [read EXCEPT ![c] = called]
      \/ read' = [read EXCEPT ![c] = refused]
  BY DEF Decide, Continue
<1>3. /\ called.pc = "function" /\ called.name = f
      /\ called.turns = read[c].turns /\ called.attempt = read[c].attempt
      /\ refused.pc = "caught" /\ refused.error = "fatal"
      /\ refused.turns = read[c].turns /\ refused.attempt = read[c].attempt
  BY <1>1 DEF Reads
<1> HIDE DEF on, called, refused
<1>4. CASE read' = [read EXCEPT ![c] = refused]
  <2>1. refused.pc \notin AtRest /\ ~ Asked(refused) /\ ~ NoData(refused)
    BY <1>3 DEF AtRest, Asked, NoData
  <2> QED BY <1>1, <1>3, <1>4, <2>1, WithinTurn DEF AtRest
<1>5. CASE (needs => et_data_switch[c[1]]) /\ read' = [read EXCEPT ![c] = called]
  <2>1. AskedInv(c, called)
    <3>1. /\ et_data_switch[c[1]] => "RFC_READ_TABLE" \in et_data_functions
          /\ \/ read_table_function_user_set[c[1]]
             \/ f \in et_data_functions \cup {"RFC_READ_TABLE"}
      BY <1>1 DEF Turns, FunctionsInv
    <3>2. ~ NoData(called)
      BY <1>3 DEF NoData
    <3> QED BY <1>3, <1>5, <3>1, <3>2 DEF AskedInv
  <2>2. TurnsInv(c, called)
    BY <1>1, <1>3 DEF TurnsInv, AtRest
  <2> QED BY <1>1, <1>5, <2>1, <2>2, TurnsOn
<1> QED BY <1>2, <1>4, <1>5

(* The steps of a call within its turn.                                    *)
LEMMA CallTurns ==
  ASSUME Inv, Turns, NEW c \in Columns,
         \/ AcquireFunction(c) \/ CallFails(c) \/ Execute(c)
         \/ ResolveFails(c) \/ CloseFails(c)
  PROVE  Turns'
<1>1. /\ read[c] \in Reads /\ read[c].pc \in {"function", "execute", "close"}
      /\ UNCHANGED <<system, bound, read_table_function>>
  BY ColumnNow DEF AcquireFunction, CallFails, Execute, ResolveFails,
     CloseFails, Raises, shared
<1>2. PICK r : /\ read' = [read EXCEPT ![c] = r]
               /\ \/ read[c].pc = "function" /\ \E k : r = [read[c] EXCEPT !.pc = "execute", !.func = k]
                  \/ r = [read[c] EXCEPT !.pc = "close"]
                  \/ \E e \in {"communication", "fatal"} :
                       r = [read[c] EXCEPT !.pc = "caught", !.error = e]
  <2>1. CASE AcquireFunction(c)
    BY <2>1 DEF AcquireFunction, Continue
  <2>2. CASE Execute(c)
    BY <2>2 DEF Execute, Continue
  <2>3. CASE CallFails(c) \/ ResolveFails(c)
    BY <2>3 DEF CallFails, ResolveFails, Raises, Continue
  <2>4. CASE CloseFails(c)
    BY <2>4 DEF CloseFails, Continue
  <2> QED BY <2>1, <2>2, <2>3, <2>4
<1>3. /\ r.pc \notin AtRest /\ ~ NoData(r) /\ r.name = read[c].name
      /\ Asked(r) => Asked(read[c])
      /\ r.turns = read[c].turns /\ r.attempt = read[c].attempt
  BY <1>1, <1>2 DEF Reads, AtRest, Asked, NoData
<1> QED BY <1>1, <1>2, <1>3, WithinTurn DEF AtRest

LEMMA NoDataTurns ==
  ASSUME Inv, Turns, NEW c \in Columns, ExecuteFindsNoData(c)
  PROVE  Turns'
<1> DEFINE r == [read[c] EXCEPT !.pc = "caught", !.error = "no data"]
<1>1. /\ read[c] \in Reads /\ read[c].pc = "execute"
      /\ read[c].name \in fail_functions /\ c \in StringColumns
      /\ UNCHANGED <<system, bound, read_table_function>>
      /\ read' = [read EXCEPT ![c] = r]
      /\ AskedInv(c, read[c]) /\ TurnsInv(c, read[c])
  BY ColumnNow DEF ExecuteFindsNoData, Raises, Continue, Turns, shared
<1>2. /\ r.pc = "caught" /\ r.name = read[c].name
      /\ r.turns = read[c].turns /\ r.attempt = read[c].attempt
  BY <1>1 DEF Reads
<1> HIDE DEF r
<1>3. AskedInv(c, r)
  BY <1>1, <1>2 DEF AskedInv, Asked
<1>4. TurnsInv(c, r)
  BY <1>1, <1>2 DEF TurnsInv, AtRest
<1> QED BY <1>1, <1>3, <1>4, TurnsOn

LEMMA EndTurns ==
  ASSUME Inv, Turns, NEW c \in Columns, EndBatch(c) \/ Finish(c)
  PROVE  Turns'
<1>1. UNCHANGED <<system, bound, read_table_function>>
  BY DEF EndBatch, Finish, shared
<1>2. PICK r : /\ read' = [read EXCEPT ![c] = r]
               /\ r.pc \in AtRest /\ r.turns = 0 /\ r.attempt = 0
  <2>1. CASE EndBatch(c)
    <3> DEFINE r == [Idle EXCEPT !.toggled = read[c].toggled]
    <3>1. r.pc \in AtRest /\ r.turns = 0 /\ r.attempt = 0
      BY DEF Idle, AtRest
    <3> QED BY <2>1, <3>1 DEF EndBatch, Continue
  <2>2. CASE Finish(c)
    <3> DEFINE r == [Idle EXCEPT !.pc = "finished"]
    <3>1. r.pc \in AtRest /\ r.turns = 0 /\ r.attempt = 0
      BY DEF Idle, AtRest
    <3> QED BY <2>2, <3>1 DEF Finish, Continue
  <2> QED BY <2>1, <2>2
<1> QED BY <1>1, <1>2, ToRest

LEMMA HandleErrorTurns ==
  ASSUME Inv, Turns, NEW c \in Columns, HandleError(c)
  PROVE  Turns'
<1> DEFINE handling == [read[c] EXCEPT !.connection = NoConn, !.func = NoConn,
                                       !.error = "none"]
           sleeps == [handling EXCEPT !.pc = "sleep"]
           searches == [handling EXCEPT !.pc = "fallback"]
<1>1. /\ read[c] \in Reads /\ read[c].pc = "caught"
      /\ UNCHANGED <<system, bound, read_table_function>>
  BY ColumnNow DEF HandleError, shared
<1>2. \/ read' = [read EXCEPT ![c] = sleeps]
      \/ read[c].error = "no data" /\ read' = [read EXCEPT ![c] = searches]
      \/ read' = [read EXCEPT ![c] = Raised]
  BY DEF HandleError, Continue
<1>3. /\ sleeps.pc = "sleep" /\ searches.pc = "fallback"
      /\ sleeps.turns = read[c].turns /\ sleeps.attempt = read[c].attempt
      /\ searches.turns = read[c].turns /\ searches.attempt = read[c].attempt
      /\ searches.name = read[c].name
  BY <1>1 DEF Reads
<1> HIDE DEF handling, sleeps, searches
<1>4. sleeps.pc \notin AtRest /\ ~ Asked(sleeps) /\ ~ NoData(sleeps)
  BY <1>3 DEF AtRest, Asked, NoData
<1>5. CASE read' = [read EXCEPT ![c] = sleeps]
  BY <1>1, <1>3, <1>4, <1>5, WithinTurn DEF AtRest
<1>6. CASE read[c].error = "no data" /\ read' = [read EXCEPT ![c] = searches]
  <2>1. NoData(read[c]) /\ Asked(read[c]) /\ searches.pc \notin AtRest
    BY <1>1, <1>3, <1>6 DEF NoData, Asked, AtRest
  <2> QED BY <1>1, <1>3, <1>6, <2>1, WithinTurn DEF AtRest
<1>7. CASE read' = [read EXCEPT ![c] = Raised]
  BY <1>1, <1>7, Rest, Records, ToRest DEF AtRest
<1> QED BY <1>2, <1>5, <1>6, <1>7

LEMMA RetryTurns ==
  ASSUME Inv, Turns, NEW c \in Columns, Retry(c)
  PROVE  Turns'
<1> DEFINE again == [read[c] EXCEPT !.attempt = @ + 1]
           n == NextTurn(again)
<1>1. /\ read[c] \in Reads /\ read[c].pc = "sleep" /\ TurnsInv(c, read[c])
      /\ UNCHANGED <<system, bound, read_table_function>>
      /\ read' = [read EXCEPT ![c] = IF AttemptsLeft(again.attempt) THEN n ELSE Raised]
  BY ColumnNow DEF Retry, Continue, Turns, shared
<1>2. CASE AttemptsLeft(again.attempt)
  <2>1. /\ again.attempt = read[c].attempt + 1 /\ read[c].attempt \in 0 .. MaxAttempts - 1
        /\ again.turns = read[c].turns
    BY <1>1 DEF Reads
  <2>2. again.attempt < MaxAttempts /\ again.attempt \in 0 .. MaxAttempts - 1
    BY <1>2, <2>1, Bounds DEF AttemptsLeft
  <2>3. again \in Reads
    <3> DEFINE k == read[c].attempt + 1
    <3>1. k \in 0 .. MaxAttempts - 1
      BY <2>1, <2>2
    <3>2. again = [read[c] EXCEPT !.attempt = k]
      BY <1>1 DEF Reads
    <3> HIDE DEF k
    <3> QED BY <1>1, <3>1, <3>2 DEF Reads
  <2> HIDE DEF again
  <2>4. /\ n.pc = "acquire" /\ n.attempt = read[c].attempt + 1
        /\ n.turns = IF read[c].turns < MaxAttempts + 2 THEN read[c].turns + 1
                      ELSE read[c].turns
    BY <2>1, <2>3, TurnRecord
  <2> HIDE DEF n
  <2>5. TurnsInv(c, n)
    BY <1>1, <2>1, <2>2, <2>4, Bounds DEF TurnsInv, AtRest
  <2>6. AskedInv(c, n)
    BY <2>4 DEF AskedInv, Asked, NoData
  <2> QED BY <1>1, <1>2, <2>5, <2>6, TurnsOn
<1>3. CASE ~ AttemptsLeft(again.attempt)
  BY <1>1, <1>3, Rest, Records, ToRest DEF AtRest
<1> QED BY <1>2, <1>3

(* The function of the scan is switched: no other string column of a scan  *)
(* that does not alternate is there to notice, and none fails again.       *)
LEMMA FallbackTurns ==
  ASSUME Inv, Turns, NEW c \in Columns, Fallback(c) \/ FallbackFails(c)
  PROVE  Turns'
<1> DEFINE s == c[1]
           n == NextTurn(read[c])
<1>1. /\ read[c] \in Reads /\ read[c].pc = "fallback" /\ s \in Scans
      /\ UNCHANGED <<system, bound>>
      /\ AskedInv(c, read[c]) /\ TurnsInv(c, read[c])
      /\ read_table_function \in [Scans -> ReadFunctions]
      /\ read \in [Columns -> Reads]
  BY ColumnNow, ScanOf DEF Fallback, FallbackFails, Turns, Inv, TypeOK
<1>2. \/ UNCHANGED read_table_function /\ read' = [read EXCEPT ![c] = Raised]
      \/ SelectFallback(s) /\ (read' = [read EXCEPT ![c] = n] \/ read' = [read EXCEPT ![c] = Raised])
  BY DEF Fallback, FallbackFails, Continue
<1>3. /\ n.pc = "acquire" /\ n.attempt = read[c].attempt
      /\ n.turns = IF read[c].turns < MaxAttempts + 2 THEN read[c].turns + 1
                    ELSE read[c].turns
  BY <1>1, TurnRecord
<1>4. CASE UNCHANGED read_table_function /\ read' = [read EXCEPT ![c] = Raised]
  BY <1>1, <1>4, Rest, Records, ToRest DEF AtRest
<1>5. ASSUME SelectFallback(s),
             read' = [read EXCEPT ![c] = n] \/ read' = [read EXCEPT ![c] = Raised]
      PROVE  Turns'
  <2>1. PICK g \in Candidates(s) :
          read_table_function' = [read_table_function EXCEPT ![s] = g]
    BY <1>5 DEF SelectFallback
  <2>2. /\ g \in et_data_functions /\ g # read_table_function[s]
        /\ ~ read_table_function_user_set[s]
    BY <2>1 DEF Candidates
  <2>3. /\ read_table_function'[s] = g
        /\ \A z \in Scans : z # s => read_table_function'[z] = read_table_function[z]
    BY <1>1, <2>1
  <2>4. FunctionsInv'
    BY <1>1, <2>2, <2>3 DEF Turns, FunctionsInv, system, bound
  <2>5. ASSUME NEW z PROVE Relapses(z)' = Relapses(z) /\ Alternates(z)' = Alternates(z)
    <3>1. Relapses(z)' = Relapses(z)
      BY <1>1 DEF Relapses, system, bound
    <3> QED BY <1>1, <3>1 DEF Alternates, bound, ColumnsOf
  <2>6. /\ NoData(read[c]) /\ Asked(read[c]) /\ c \in StringColumns
        /\ read[c].name \in Relapses(s)
        /\ Lone(s) => read[c].name = read_table_function[s]
    <3>1. NoData(read[c]) /\ Asked(read[c])
      <4>1. read[c].pc = "fallback"
        BY <1>1
      <4> QED BY <4>1 DEF NoData, Asked
    <3>2. /\ c \in StringColumns /\ read[c].name \in fail_functions \cap et_data_functions
          /\ read[c].name = "RFC_READ_TABLE" => et_data_switch[s]
          /\ Lone(s) => read[c].name = read_table_function[s]
      BY <1>1, <2>2, <3>1 DEF AskedInv
    <3>3. read[c].name \in Relapses(s)
      BY <3>2 DEF Relapses
    <3> QED BY <3>1, <3>2, <3>3
  <2>7. ~ Alternates(s) => Lone(s) /\ g \notin Relapses(s)
    BY <1>1, <2>2, <2>6, OneRelapse
  <2>8. ASSUME NEW d \in Columns, d # c PROVE AskedInv(d, read[d])' /\ TurnsInv(d, read[d])'
    <3>1. read'[d] = read[d] /\ d[1] \in Scans
      BY <1>1, <1>5, <2>8, ScanOf
    <3>2. AskedInv(d, read[d]) /\ TurnsInv(d, read[d])
      BY DEF Turns
    <3>3. d[1] = s /\ d \in StringColumns => ~ Lone(s)
      BY <2>6, <2>8, StringsFinite, ScanOf DEF Strings
    <3>4. d \in StringColumns /\ Lone(d[1]) => read_table_function'[d[1]] = read_table_function[d[1]]
      BY <2>3, <3>1, <3>3
    <3>5. AskedInv(d, read[d])'
      BY <1>1, <3>1, <3>2, <3>4
      DEF AskedInv, system, bound, Lone, Strings, ColumnsOf
    <3>6. Switched(d) => Switched(d)'
      BY <1>1, <2>5, <3>4 DEF Switched, bound, Lone, Strings, ColumnsOf
    <3>7. TurnsInv(d, read[d])'
      BY <2>5, <3>1, <3>2, <3>6 DEF TurnsInv
    <3> QED BY <3>5, <3>7
  <2>9. AskedInv(c, read[c])' /\ TurnsInv(c, read[c])'
    <3>1. CASE read' = [read EXCEPT ![c] = Raised]
      <4>1. read'[c] = Raised
        BY <1>1, <3>1
      <4> QED BY <4>1, Rest, Records DEF AskedInv, TurnsInv, Asked, NoData, AtRest
    <3>2. CASE read' = [read EXCEPT ![c] = n]
      <4>1. read'[c] = n
        BY <1>1, <3>2
      <4> HIDE DEF n
      <4>2. AskedInv(c, read[c])'
        BY <1>3, <4>1 DEF AskedInv, Asked, NoData
      <4>3. ASSUME ~ Alternates(s)
            PROVE  Switched(c)' /\ n.turns = n.attempt + 2
        <5>1. read[c].name = read_table_function[s] /\ read[c].name \in Relapses(s)
          BY <2>6, <2>7, <4>3
        <5>2. read[c].turns = read[c].attempt + 1
          BY <1>1, <4>3, <5>1 DEF TurnsInv, Switched, AtRest
        <5>3. read[c].attempt \in 0 .. MaxAttempts - 1
          BY <1>1 DEF Reads
        <5>4. n.turns = n.attempt + 2
          BY <1>3, <5>2, <5>3, Bounds
        <5>5. Switched(c)'
          BY <1>1, <2>2, <2>3, <2>5, <2>6, <2>7, <4>3
          DEF Switched, bound, Lone, Strings, ColumnsOf
        <5> QED BY <5>4, <5>5
      <4>4. TurnsInv(c, read[c])'
        BY <1>3, <2>5, <4>1, <4>3 DEF TurnsInv, AtRest
      <4> QED BY <4>2, <4>4
    <3> QED BY <1>5, <3>1, <3>2
  <2> QED BY <2>4, <2>8, <2>9 DEF Turns
<1> QED BY <1>2, <1>4, <1>5

LEMMA ToggleTurns ==
  ASSUME Inv, Turns, Toggle
  PROVE  Turns'
<1>1. UNCHANGED <<system, bound, read_table_function>>
  BY DEF Toggle, shared
<1>2. ASSUME NEW c \in Columns PROVE AskedInv(c, read'[c]) /\ TurnsInv(c, read'[c])
  <2>1. read[c] \in Reads /\ AskedInv(c, read[c]) /\ TurnsInv(c, read[c])
    BY ColumnNow DEF Turns
  <2>2. PICK b \in BOOLEAN : read'[c] = [read[c] EXCEPT !.toggled = b]
    BY <2>1 DEF Toggle, Reads
  <2>3. /\ read'[c].pc = read[c].pc /\ read'[c].error = read[c].error
        /\ read'[c].name = read[c].name /\ read'[c].turns = read[c].turns
        /\ read'[c].attempt = read[c].attempt
    BY <2>1, <2>2 DEF Reads
  <2> QED BY <2>1, <2>3 DEF AskedInv, TurnsInv, Asked, NoData
<1> QED BY <1>1, <1>2, FunctionsStay

LEMMA NextTurns == Inv /\ Turns /\ [Next]_vars => Turns'
<1> SUFFICES ASSUME Inv, Turns, [Next]_vars PROVE Turns'
  OBVIOUS
<1>1. ASSUME UNCHANGED <<system, bound, read_table_function, read>> PROVE Turns'
  BY <1>1, FunctionsStay DEF Turns
<1>2. CASE UNCHANGED vars \/ Resize
  BY <1>1, <1>2 DEF vars, Resize, shared
<1>3. ASSUME NEW c \in Columns, NEW t \in Threads, BeginBatch(c, t) PROVE Turns'
  BY <1>3, BeginBatchTurns
<1>4. ASSUME NEW c \in Columns, ReadStep(c) PROVE Turns'
  BY <1>4, AcquireTurns, DecideTurns, CallTurns, NoDataTurns, EndTurns, HandleErrorTurns,
     FallbackTurns, RetryTurns DEF ReadStep
<1>5. ASSUME NEW c \in Columns, Finish(c) PROVE Turns'
  BY <1>5, EndTurns
<1>6. CASE Toggle
  BY <1>6, ToggleTurns
<1> QED BY <1>2, <1>3, <1>4, <1>5, <1>6 DEF Next

(* However often the calls of a batch fail, whatever the other columns do  *)
(* and whichever functions fail for the table: a batch goes round the loop *)
(* once per attempt and once more for a switch of the function, unless the *)
(* scan is one that two failing functions hand to and fro.                 *)
THEOREM AttemptsAlwaysLimited == Spec => []AttemptsAreLimited
<1>1. ASSUME Inv, Turns PROVE AttemptsAreLimited
  <2> SUFFICES ASSUME NEW c \in Columns, ~ Alternates(c[1])
               PROVE  read[c].turns <= MaxAttempts + 1
    BY DEF AttemptsAreLimited
  <2>1. read[c] \in Reads /\ TurnsInv(c, read[c])
    BY <1>1, ColumnNow DEF Turns
  <2>2. read[c].attempt \in 0 .. MaxAttempts - 1
    BY <2>1 DEF Reads
  <2> QED BY <2>1, <2>2, Bounds DEF TurnsInv
<1>2. Spec => []Turns
  BY InitTurns, NextTurns, Invariance, PTL DEF Spec
<1> QED BY <1>1, <1>2, Invariance, PTL
=============================================================================
