------------------------ MODULE ReadTableScan_proofs ------------------------
(***************************************************************************)
(* ReadTableScan for every vector size, number of columns, table size,     *)
(* MAX_ROWS, thread cap and row budget: the variables stay of their types, *)
(* and every call a column makes has a legal ROWSKIPS.                     *)
(*                                                                         *)
(* Neither is inductive.  What has to be carried along is the accounting   *)
(* of the resident batch: its rows are those already handed out in full    *)
(* vectors plus those pending, and a batch that is not the last ends at an *)
(* offset the next ROWCOUNT divides.  The one exception is a machine that  *)
(* clipped an over-fetched batch at MAX_ROWS: it is Stuck with rows        *)
(* pending, and never reads again.                                         *)
(***************************************************************************)
EXTENDS ReadTableScan, FiniteSetTheorems, TLAPS

Stuck(m, lim) == lim > 0 /\ m.total_rows = lim /\ m.pending_records > 0

MachineInv(m, lim) ==
  /\ m \in StateMachine
  /\ lim > 0 => m.total_rows <= lim
  /\ m.current_state \in {"INIT", "EXTRACT_FROM_SAP"} =>
       m.pending_records = 0 /\ m.total_rows % m.desired_batch_size = 0
  /\ m.current_state \in {"LOAD_TO_DUCKDB", "FINAL_LOAD_TO_DUCKDB"} =>
       Stuck(m, lim) \/ m.current_batch_rows = BatchStart(m) + m.pending_records
  /\ m.current_state = "LOAD_TO_DUCKDB" =>
       Stuck(m, lim) \/ (m.total_rows + m.pending_records) % m.desired_batch_size = 0

Inv == TypeOK /\ \A c \in Cols : MachineInv(sm[c], limit)

-----------------------------------------------------------------------------
(* Arithmetic.                                                             *)

LEMMA ModAdd ==
  ASSUME NEW n \in Nat, NEW d \in Nat \ {0}, n % d = 0
  PROVE  (n + d) % d = 0
<1> DEFINE q == n \div d
           q2 == (n + d) \div d
           r == (n + d) % d
<1>1. q \in Int /\ q2 \in Int /\ r \in 0 .. d - 1
  BY SMT
<1>2. n = d * q
  BY SMT
<1>3. n + d = d * q2 + r
  BY SMT
<1>4. d * (q + 1 - q2) = r
  <2> HIDE DEF q, q2, r
  <2> QED BY <1>1, <1>2, <1>3, SMT
<1>5. q + 1 - q2 = 0
  <2> DEFINE z == q + 1 - q2
  <2>1. z \in Int /\ d * z = r
    BY <1>1, <1>4
  <2> HIDE DEF z, q, q2, r
  <2>2. ~ z >= 1
    BY <1>1, <2>1, SMT
  <2>3. ~ z <= -1
    BY <1>1, <2>1, SMT
  <2> QED BY <2>1, <2>2, <2>3, SMT DEF z
<1>6. r = 0
  <2> HIDE DEF q, q2, r
  <2> QED BY <1>1, <1>4, <1>5, SMT
<1> QED BY <1>6

LEMMA WarmUpSizesPositive == WarmUpSizes \subseteq Nat \ {0}
BY VectorSizeAssumption, SMT DEF WarmUpSizes

LEMMA MaxBatchSizeInWarmUpSizes == MAX_BATCH_SIZE \in WarmUpSizes
BY VectorSizeAssumption, SMT DEF MAX_BATCH_SIZE, WarmUpSizes

(* The budget never lowers the cap below one vector: there is always a     *)
(* warm-up size that fits, and so a largest one.                           *)
LEMMA CapInWarmUpSizes ==
  ASSUME NEW n \in Nat, NEW b \in Nat
  PROVE  LET cap == MaxBatchSizeForColumnCount(n, b) IN
         /\ cap \in WarmUpSizes
         /\ n > 1 /\ b # 0 => cap = STANDARD_VECTOR_SIZE \/ cap <= b \div n
<1> DEFINE V == STANDARD_VECTOR_SIZE
           Fits(c) == c = V \/ c <= b \div n
           Cap(c) == Fits(c) /\ \A e \in WarmUpSizes : Fits(e) => e <= c
<1>1. CASE n <= 1 \/ b = 0
  BY <1>1, MaxBatchSizeInWarmUpSizes DEF MaxBatchSizeForColumnCount
<1>2. CASE ~ (n <= 1 \/ b = 0)
  <2>1. b \div n \in Int
    BY <1>2, SMT
  <2>2. V \in Nat \ {0}
    BY VectorSizeAssumption
  <2>3. WarmUpSizes = {V, 2 * V, 4 * V, 8 * V, 16 * V}
    BY <2>2, SMT DEF WarmUpSizes
  <2>4. \E c \in WarmUpSizes : Cap(c)
    <3> DEFINE p == b \div n
    <3> HIDE DEF p
    <3>1. p \in Int
      BY <2>1 DEF p
    <3>2. \E c \in {V, 2 * V, 4 * V, 8 * V, 16 * V} :
            /\ c = V \/ c <= p
            /\ \A e \in {V, 2 * V, 4 * V, 8 * V, 16 * V} : (e = V \/ e <= p) => e <= c
      <4>1. CASE 16 * V <= p BY <2>2, <3>1, <4>1, SMT
      <4>2. CASE 8 * V <= p /\ p < 16 * V BY <2>2, <3>1, <4>2, SMT
      <4>3. CASE 4 * V <= p /\ p < 8 * V BY <2>2, <3>1, <4>3, SMT
      <4>4. CASE 2 * V <= p /\ p < 4 * V BY <2>2, <3>1, <4>4, SMT
      <4>5. CASE p < 2 * V BY <2>2, <3>1, <4>5, SMT
      <4> QED BY <2>2, <3>1, <4>1, <4>2, <4>3, <4>4, <4>5, SMT
    <3> QED BY <2>3, <3>2 DEF p
  <2>5. MaxBatchSizeForColumnCount(n, b) = CHOOSE c \in WarmUpSizes : Cap(c)
    BY <1>2 DEF MaxBatchSizeForColumnCount
  <2>6. LET cap == MaxBatchSizeForColumnCount(n, b) IN cap \in WarmUpSizes /\ Cap(cap)
    <3> HIDE DEF Cap
    <3> QED BY <2>4, <2>5
  <2> QED BY <2>6
<1> QED BY <1>1, <1>2

-----------------------------------------------------------------------------
(* The steps of one machine.                                               *)

LEMMA NewStateMachineInv ==
  ASSUME NEW lim \in Nat
  PROVE  MachineInv(NewStateMachine(lim), lim)
<1> DEFINE d == IF 0 < lim /\ lim <= MAX_BATCH_SIZE THEN lim ELSE STANDARD_VECTOR_SIZE
<1>1. d \in Nat \ {0} /\ 0 % d = 0
  BY VectorSizeAssumption, SMT DEF MAX_BATCH_SIZE
<1> HIDE DEF d
<1>2. NewStateMachine(lim) =
        [ current_state |-> "INIT", desired_batch_size |-> d, pending_records |-> 0,
          cardinality |-> 0, duck_count |-> 0, total_rows |-> 0,
          current_batch_rows |-> 0, skip |-> 0, first |-> 0 ]
  BY DEF NewStateMachine, d
<1> QED BY <1>1, <1>2, SMT DEF MachineInv, StateMachine, ReadTableStates

LEMMA StartedInv ==
  ASSUME NEW m, NEW lim \in Nat, MachineInv(m, lim)
  PROVE  MachineInv(Started(m), lim)
<1> DEFINE x == Started(m)
           s == IF m.current_state = "INIT" THEN "EXTRACT_FROM_SAP" ELSE m.current_state
<1>1. m \in StateMachine
  BY DEF MachineInv
<1>2. x = [m EXCEPT !.cardinality = 0, !.current_state = s]
  BY <1>1 DEF Started, StateMachine
<1>3. s \in ReadTableStates
  BY <1>1 DEF StateMachine, ReadTableStates
<1> HIDE DEF x, s
<1>4. /\ x \in StateMachine /\ x.current_state = s
      /\ x.desired_batch_size = m.desired_batch_size
      /\ x.pending_records = m.pending_records /\ x.total_rows = m.total_rows
      /\ x.current_batch_rows = m.current_batch_rows /\ x.duck_count = m.duck_count
  BY <1>1, <1>2, <1>3 DEF StateMachine
<1>5. BatchStart(x) = BatchStart(m) /\ (Stuck(x, lim) <=> Stuck(m, lim))
  BY <1>4 DEF BatchStart, Stuck
<1>6. /\ s \in {"INIT", "EXTRACT_FROM_SAP"} => m.current_state \in {"INIT", "EXTRACT_FROM_SAP"}
      /\ s \in {"LOAD_TO_DUCKDB", "FINAL_LOAD_TO_DUCKDB"} => s = m.current_state
  BY DEF s
<1> QED BY <1>4, <1>5, <1>6 DEF MachineInv, x

(* What a call may ask for: a full batch or, where that would pass         *)
(* MAX_ROWS, a smaller rest that divides the offset.                       *)
LEMMA RowCountLegal ==
  ASSUME NEW m, NEW lim \in Nat, MachineInv(m, lim), m.current_state = "EXTRACT_FROM_SAP"
  PROVE  /\ RowCount(m, lim) \in Nat \ {0}
         /\ RowCount(m, lim) <= m.desired_batch_size
         /\ RowSkips(m) % RowCount(m, lim) = 0
<1> DEFINE d == m.desired_batch_size
           t == m.total_rows
<1>1. d \in Nat \ {0} /\ t \in Nat /\ t % d = 0
  BY DEF MachineInv, StateMachine
<1> HIDE DEF d, t
<1>2. RowCount(m, lim) = TrimmedActualBatchSize(d, t, lim) /\ RowSkips(m) = t
  BY DEF RowCount, RowSkips, d, t
<1>3. /\ RowCount(m, lim) \in Nat \ {0}
      /\ RowCount(m, lim) <= d
      /\ RowSkips(m) % RowCount(m, lim) = 0
  <2>1. CASE RowCount(m, lim) = d
    BY <1>1, <1>2, <2>1
  <2>2. CASE RowCount(m, lim) # d
    BY <1>1, <1>2, <2>2, SMT DEF TrimmedActualBatchSize
  <2> QED BY <2>1, <2>2
<1> QED BY <1>3 DEF d

LEMMA NextDesiredBatchSizeDivides ==
  ASSUME NEW d \in Nat \ {0}, NEW total \in Nat, NEW cap \in Nat \ {0}, total % d = 0
  PROVE  /\ NextDesiredBatchSize(d, total, cap) \in Nat \ {0}
         /\ total % NextDesiredBatchSize(d, total, cap) = 0
BY SMT DEF NextDesiredBatchSize, Smaller

LEMMA ExtractedInv ==
  ASSUME NEW m, NEW lim \in Nat, MachineInv(m, lim), m.current_state = "EXTRACT_FROM_SAP",
         NEW cap \in Nat \ {0}, NEW n \in Nat, n <= RowCount(m, lim)
  PROVE  MachineInv(Extracted(m, lim, cap, n), lim)
<1> DEFINE d == m.desired_batch_size
           t == m.total_rows
           e == IF lim = 0 THEN NextDesiredBatchSize(d, t + n, cap) ELSE d
           s == IF LastBatch(m, lim, n) THEN "FINAL_LOAD_TO_DUCKDB" ELSE "LOAD_TO_DUCKDB"
           x == Extracted(m, lim, cap, n)
<1>1. /\ m \in StateMachine /\ d \in Nat \ {0} /\ t \in Nat /\ t % d = 0
      /\ m.pending_records = 0 /\ (lim > 0 => t <= lim)
  BY DEF MachineInv, StateMachine
<1>2. n <= d
  BY RowCountLegal, <1>1, SMT
<1>3. s = "LOAD_TO_DUCKDB" => n = d
  BY <1>1, <1>2, SMT DEF LastBatch
<1>4. s = "LOAD_TO_DUCKDB" => (t + n) % d = 0
  BY <1>1, <1>3, ModAdd
<1>5. e \in Nat \ {0}
  BY <1>1, SMT DEF NextDesiredBatchSize, Smaller
<1>6. s = "LOAD_TO_DUCKDB" => (t + n) % e = 0
  <2> SUFFICES ASSUME s = "LOAD_TO_DUCKDB" PROVE (t + n) % e = 0
    OBVIOUS
  <2>1. t + n \in Nat
    BY <1>1
  <2> QED BY <1>1, <1>4, <2>1, NextDesiredBatchSizeDivides
<1> HIDE DEF s, e
<1>0. m.pending_records + n = n
  BY <1>1
<1>7. x = [m EXCEPT !.duck_count = 0, !.pending_records = n, !.current_batch_rows = n,
                    !.skip = t, !.current_state = s, !.desired_batch_size = e]
  BY <1>0, <1>1 DEF Extracted, RowSkips, StateMachine, s, e
<1>8. s \in {"LOAD_TO_DUCKDB", "FINAL_LOAD_TO_DUCKDB"}
  BY DEF s
<1> HIDE DEF x
<1>9. /\ x \in StateMachine /\ x.current_state = s /\ x.total_rows = t
      /\ x.pending_records = n /\ x.current_batch_rows = n /\ x.duck_count = 0
      /\ x.desired_batch_size = e
  BY <1>1, <1>5, <1>7, <1>8 DEF StateMachine, ReadTableStates
<1>10. BatchStart(x) = 0
  BY <1>9, VectorSizeAssumption, SMT DEF BatchStart
<1> QED BY <1>1, <1>6, <1>8, <1>9, <1>10 DEF MachineInv, x

(* A vector holds no more rows than are pending, and never takes the       *)
(* column past MAX_ROWS; if it is clipped the machine is left Stuck.       *)
LEMMA LoadNextBatchBounds ==
  ASSUME NEW m, NEW lim \in Nat, MachineInv(m, lim),
         m.current_state \in {"LOAD_TO_DUCKDB", "FINAL_LOAD_TO_DUCKDB"}
  PROVE  LET rows == LoadNextBatch(m, lim) IN
         /\ rows \in 0 .. STANDARD_VECTOR_SIZE
         /\ rows <= m.pending_records
         /\ lim > 0 => m.total_rows + rows <= lim
         /\ \/ Stuck(m, lim) /\ rows = 0
            \/ /\ lim > 0 /\ m.total_rows + rows = lim
               /\ rows < m.pending_records
            \/ /\ m.current_batch_rows = BatchStart(m) + m.pending_records
               /\ rows = Smaller(STANDARD_VECTOR_SIZE, m.pending_records)
<1> DEFINE V == STANDARD_VECTOR_SIZE
           b == BatchStart(m)
           p == m.pending_records
           t == m.total_rows
           n == m.current_batch_rows
<1>1. /\ V \in Nat \ {0} /\ p \in Nat /\ t \in Nat /\ n \in Nat
      /\ (lim > 0 => t <= lim)
      /\ Stuck(m, lim) \/ n = b + p
  BY VectorSizeAssumption DEF MachineInv, StateMachine
<1>2. b \in Nat
  BY VectorSizeAssumption, SMT DEF BatchStart, MachineInv, StateMachine
<1> HIDE DEF b
<1> QED BY <1>1, <1>2, SMT DEF LoadNextBatch, Smaller, Stuck, b

LEMMA LoadedInv ==
  ASSUME NEW m, NEW lim \in Nat, MachineInv(m, lim),
         m.current_state \in {"LOAD_TO_DUCKDB", "FINAL_LOAD_TO_DUCKDB"}
  PROVE  MachineInv(Loaded(m, lim), lim)
<1> DEFINE V == STANDARD_VECTOR_SIZE
           r == LoadNextBatch(m, lim)
           p == m.pending_records
           t == m.total_rows
           x == Loaded(m, lim)
<1>1. /\ V \in Nat \ {0} /\ m \in StateMachine /\ p \in Nat /\ t \in Nat
      /\ m.duck_count \in Nat /\ m.current_batch_rows \in Nat /\ m.skip \in Nat
      /\ m.desired_batch_size \in Nat \ {0}
  BY VectorSizeAssumption DEF MachineInv, StateMachine
<1>2. /\ r \in Nat /\ r <= p /\ r <= V
      /\ lim > 0 => t + r <= lim
      /\ \/ Stuck(m, lim) /\ r = 0
         \/ lim > 0 /\ t + r = lim /\ r < p
         \/ m.current_batch_rows = BatchStart(m) + p /\ r = Smaller(V, p)
  BY LoadNextBatchBounds, VectorSizeAssumption, SMT
<1>3. BatchStart(m) \in Nat /\ (m.duck_count + 1) * V = BatchStart(m) + V
  BY <1>1, SMT DEF BatchStart
<1>4. m.current_state = "LOAD_TO_DUCKDB" =>
        Stuck(m, lim) \/ (t + p) % m.desired_batch_size = 0
  BY DEF MachineInv
<1> DEFINE s == IF p - r # 0 THEN m.current_state
                ELSE IF m.current_state = "FINAL_LOAD_TO_DUCKDB"
                  THEN "FINISHED" ELSE "EXTRACT_FROM_SAP"
           n == IF p - r = 0 /\ m.current_state = "FINAL_LOAD_TO_DUCKDB"
                  THEN 0 ELSE m.current_batch_rows
<1> HIDE DEF r
<1>5. x = [m EXCEPT !.cardinality = r, !.first = m.skip + BatchStart(m),
                    !.duck_count = m.duck_count + 1, !.pending_records = p - r,
                    !.total_rows = t + r, !.current_batch_rows = n, !.current_state = s]
  BY <1>1 DEF Loaded, StateMachine, r
<1>6. s \in ReadTableStates /\ n \in Nat
  BY <1>1 DEF ReadTableStates
<1> HIDE DEF x, s, n
<1>7. /\ x \in StateMachine /\ x.current_state = s /\ x.total_rows = t + r
      /\ x.pending_records = p - r /\ x.current_batch_rows = n
      /\ x.duck_count = m.duck_count + 1
      /\ x.desired_batch_size = m.desired_batch_size
  <2>1. p - r \in Nat /\ t + r \in Nat /\ m.duck_count + 1 \in Nat
        /\ m.skip + BatchStart(m) \in Nat
    BY <1>1, <1>2, <1>3, SMT
  <2> QED BY <1>1, <1>2, <1>5, <1>6, <2>1 DEF StateMachine
<1>8. BatchStart(x) = BatchStart(m) + V
  BY <1>3, <1>7 DEF BatchStart
<1>9. lim > 0 => x.total_rows <= lim
  BY <1>2, <1>7
<1>10. CASE p - r = 0
  <2>1. ~ Stuck(m, lim) \/ r # 0
    BY <1>1, <1>2, <1>10, SMT DEF Stuck
  <2>2. r = p
    BY <1>1, <1>2, <1>10, SMT
  <2>3. s = "EXTRACT_FROM_SAP" => ~ Stuck(m, lim) /\ (t + r) % m.desired_batch_size = 0
    BY <1>2, <1>4, <1>10, <2>1, <2>2, SMT DEF s, Stuck
  <2>4. s \in {"EXTRACT_FROM_SAP", "FINISHED"}
    BY <1>10 DEF s
  <2> QED BY <1>7, <1>9, <1>10, <2>3, <2>4 DEF MachineInv, x
<1>11. CASE p - r # 0
  <2>1. s = m.current_state /\ n = m.current_batch_rows
    BY <1>11 DEF s, n
  <2>2. x.pending_records > 0
    BY <1>1, <1>2, <1>7, <1>11, SMT
  <2>3. Stuck(x, lim) \/ n = BatchStart(x) + (p - r)
    BY <1>1, <1>2, <1>3, <1>7, <1>8, <1>11, <2>1, <2>2, SMT DEF Stuck, Smaller
  <2>4. Stuck(m, lim) => Stuck(x, lim)
    BY <1>1, <1>2, <1>7, <2>2, SMT DEF Stuck
  <2>5. (t + r) + (p - r) = t + p
    BY <1>1, <1>2, SMT
  <2> QED BY <1>4, <1>7, <1>9, <2>1, <2>3, <2>4, <2>5 DEF MachineInv, x
<1> QED BY <1>10, <1>11

-----------------------------------------------------------------------------
(* The scan.                                                               *)

LEMMA ServerRowsBounds ==
  ASSUME NEW skip \in Nat, NEW count \in Nat, nrows \in Nat
  PROVE  ServerRows(skip, count) \in Nat /\ ServerRows(skip, count) <= count
BY SMT DEF ServerRows, Smaller

LEMMA InitInv == Init => Inv
<1> SUFFICES ASSUME Init PROVE Inv
  OBVIOUS
<1>1. <<nrows, limit>> \in Scans /\ limit \in Nat
  <2>1. PICK s \in Scans : nrows = s[1] /\ limit = s[2]
    BY DEF Init
  <2> QED BY <2>1, ScanAssumption
<1>2. \A c \in Cols : sm[c] = NewStateMachine(limit)
  BY DEF Init
<1>3. \A c \in Cols : MachineInv(sm[c], limit)
  BY <1>1, <1>2, NewStateMachineInv
<1>4. sm \in [Cols -> StateMachine]
  <2>1. NewStateMachine(limit) \in StateMachine
    BY <1>1, NewStateMachineInv DEF MachineInv
  <2> QED BY <2>1 DEF Init
<1>5. 0 \in 0 .. NCols
  BY ScanAssumption
<1>6. chunk \in Chunk
  BY DEF Init, Chunk
<1>7. effective_max_batch_size \in WarmUpSizes
  BY MaxBatchSizeInWarmUpSizes DEF Init
<1> QED BY <1>1, <1>3, <1>4, <1>5, <1>6, <1>7 DEF Inv, TypeOK, Init, TaskStates, Phases

(* A task changes its own machine only, to one that is again well formed.  *)
LEMMA MachinesInv ==
  ASSUME NEW c \in Cols, NEW x, sm \in [Cols -> StateMachine],
         \A e \in Cols : MachineInv(sm[e], limit),
         MachineInv(x, limit), sm' = [sm EXCEPT ![c] = x], limit' = limit
  PROVE  sm' \in [Cols -> StateMachine] /\ \A e \in Cols : MachineInv(sm[e], limit)'
<1>1. x \in StateMachine
  BY DEF MachineInv
<1>2. ASSUME NEW e \in Cols PROVE MachineInv(sm'[e], limit')
  BY <1>2
<1> QED BY <1>1, <1>2

LEMMA NextInv == Inv /\ [Next]_vars => Inv'
<1> SUFFICES ASSUME Inv, [Next]_vars PROVE Inv'
  OBVIOUS
<1> USE DEF Inv, setting
<1>0. /\ nrows \in Nat /\ limit \in Nat /\ NCols \in Nat /\ budget \in Nat
      /\ max_threads \in Nat /\ sm \in [Cols -> StateMachine]
  BY ScanAssumption DEF TypeOK
<1>1. CASE BeginStep
  <2>1. effective_max_batch_size' \in WarmUpSizes
    BY <1>0, <1>1, CapInWarmUpSizes DEF BeginStep
  <2>2. task' \in [Cols -> TaskStates]
    BY <1>1 DEF BeginStep, Scheduled, TypeOK, TaskStates
  <2>3. group_start' \in 0 .. NCols
    <3>1. group_start' = 0
      BY <1>1 DEF BeginStep
    <3> QED BY <1>0, <3>1
  <2> QED BY <1>1, <2>1, <2>2, <2>3 DEF BeginStep, TypeOK, parameters, output, Phases
<1>2. CASE NextGroup
  <2>1. task' \in [Cols -> TaskStates]
    BY <1>2 DEF NextGroup, Scheduled, TypeOK, TaskStates
  <2>2. group_start' \in 0 .. NCols
    BY <1>0, <1>2, SMT DEF NextGroup, TypeOK, LastGroup, GroupSize
  <2> QED BY <1>2, <2>1, <2>2 DEF NextGroup, TypeOK, parameters, output
<1>3. CASE StepRaises
  BY <1>3 DEF StepRaises, TypeOK, parameters, output, Phases
<1>4. CASE EndStep
  <2>1. 1 \in Cols
    BY ScanAssumption DEF Cols
  <2>2. \A c \in Cols : sm[c].cardinality \in Nat /\ sm[c].first \in Nat
    BY <1>0 DEF StateMachine
  <2>3. task' \in [Cols -> TaskStates]
    BY <1>4 DEF EndStep, TaskStates
  <2>4. delivered' \in Nat /\ chunk' \in Chunk
    <3>1. CASE UNCHANGED output
      BY <3>1 DEF TypeOK, output
    <3>2. CASE ~ UNCHANGED output
      <4>1. /\ delivered' = delivered + sm[1].cardinality
            /\ chunk' = [c \in Cols |-> [from |-> sm[c].first, rows |-> sm[c].cardinality]]
        BY <1>4, <3>2 DEF EndStep
      <4>2. delivered' \in Nat
        BY <2>1, <2>2, <4>1 DEF TypeOK
      <4> QED BY <2>2, <4>1, <4>2 DEF Chunk
    <3> QED BY <3>1, <3>2
  <2>5. phase' \in Phases
    BY <1>4 DEF EndStep, Phases
  <2> QED BY <1>4, <2>3, <2>4, <2>5 DEF EndStep, TypeOK, parameters
<1>5. CASE ReturnEmpty
  BY <1>5 DEF ReturnEmpty, TypeOK, parameters, output, Phases
<1>6. ASSUME NEW c \in Cols, StartTask(c) PROVE Inv'
  <2>1. MachineInv(Started(sm[c]), limit)
    BY <1>0, StartedInv
  <2>2. limit' = limit /\ sm' = [sm EXCEPT ![c] = Started(sm[c])]
    BY <1>6 DEF StartTask, parameters
  <2>3. sm' \in [Cols -> StateMachine] /\ \A e \in Cols : MachineInv(sm[e], limit)'
    BY <1>0, <2>1, <2>2, MachinesInv
  <2> QED BY <1>6, <2>3 DEF StartTask, TypeOK, TaskStates, parameters, output
<1>7. ASSUME NEW c \in Cols, SkipTask(c) PROVE Inv'
  BY <1>7 DEF SkipTask, TypeOK, TaskStates, parameters, output
<1>8. ASSUME NEW c \in Cols, ReadBatch(c) PROVE Inv'
  <2> DEFINE n == ServerRows(RowSkips(sm[c]), RowCount(sm[c], limit))
             x == Extracted(sm[c], limit, effective_max_batch_size, n)
  <2>1. sm[c].current_state = "EXTRACT_FROM_SAP"
    BY <1>8 DEF ReadBatch
  <2>2. RowCount(sm[c], limit) \in Nat /\ RowSkips(sm[c]) \in Nat
    BY <1>0, <2>1, RowCountLegal DEF RowSkips, StateMachine
  <2>3. n \in Nat /\ n <= RowCount(sm[c], limit)
    BY <1>0, <2>2, ServerRowsBounds
  <2>4. effective_max_batch_size \in Nat \ {0}
    BY WarmUpSizesPositive DEF TypeOK
  <2> HIDE DEF n
  <2>5. MachineInv(x, limit)
    BY <1>0, <2>1, <2>3, <2>4, ExtractedInv
  <2>6. limit' = limit /\ sm' = [sm EXCEPT ![c] = x]
    BY <1>8 DEF ReadBatch, parameters, n
  <2> HIDE DEF x
  <2>7. sm' \in [Cols -> StateMachine] /\ \A e \in Cols : MachineInv(sm[e], limit)'
    BY <1>0, <2>5, <2>6, MachinesInv
  <2> QED BY <1>8, <2>7 DEF ReadBatch, TypeOK, parameters, output
<1>9. ASSUME NEW c \in Cols, TaskRaises(c) PROVE Inv'
  BY <1>9 DEF TaskRaises, TypeOK, TaskStates, parameters, output
<1>10. ASSUME NEW c \in Cols, LoadVector(c) PROVE Inv'
  <2>1. MachineInv(Loaded(sm[c], limit), limit)
    BY <1>0, <1>10, LoadedInv DEF LoadVector
  <2>2. limit' = limit /\ sm' = [sm EXCEPT ![c] = Loaded(sm[c], limit)]
    BY <1>10 DEF LoadVector, parameters
  <2>3. sm' \in [Cols -> StateMachine] /\ \A e \in Cols : MachineInv(sm[e], limit)'
    BY <1>0, <2>1, <2>2, MachinesInv
  <2> QED BY <1>10, <2>3 DEF LoadVector, TypeOK, TaskStates, parameters, output
<1>11. CASE SetBudget
  BY <1>11 DEF SetBudget, TypeOK, parameters, output
<1>12. CASE UNCHANGED vars
  BY <1>12 DEF vars, TypeOK, parameters, output
<1> QED
  BY <1>1, <1>2, <1>3, <1>4, <1>5, <1>6, <1>7, <1>8, <1>9, <1>10, <1>11, <1>12
  DEF Next, Step, Task

(* TypeOK and the batch accounting of every machine are invariant: whatever*)
(* the interleaving of the tasks, the SETs of the budget and the errors.   *)
THEOREM Invariance == Spec => []Inv
BY InitInv, NextInv, PTL DEF Spec

(* The variables stay of their types: no count of a machine ever goes      *)
(* below zero (they are unsigned in the code), whatever the table, the     *)
(* MAX_ROWS, the number of columns and the changes of the budget.          *)
THEOREM TypeCorrect == Spec => []TypeOK
<1>1. Inv => TypeOK
  BY DEF Inv
<1> QED BY <1>1, Invariance, PTL

(* Every RFC_READ_TABLE call of every scan has a ROWCOUNT above zero and a *)
(* ROWSKIPS that is a multiple of it, the rule the function module         *)
(* enforces.                                                               *)
THEOREM RowSkipsAlwaysLegal == Spec => []LegalRowSkips
<1>1. Inv => LegalRowSkips
  <2> SUFFICES ASSUME Inv, NEW c \in Cols, sm[c].current_state = "EXTRACT_FROM_SAP"
               PROVE  /\ RowCount(sm[c], limit) > 0
                      /\ RowSkips(sm[c]) % RowCount(sm[c], limit) = 0
    BY DEF LegalRowSkips
  <2>1. limit \in Nat /\ MachineInv(sm[c], limit)
    BY ScanAssumption DEF Inv, TypeOK
  <2> QED BY <2>1, RowCountLegal
<1> QED BY <1>1, Invariance, PTL
-----------------------------------------------------------------------------
(***************************************************************************)
(* ReadTableScan implements TableScan, for every vector size, number of    *)
(* columns, table, MAX_ROWS, thread cap and budget: the chunks are aligned *)
(* and hold the first rows of the table in order, each once.               *)
(*                                                                         *)
(* The argument: the columns of a Step all start from one common machine   *)
(* m.  A column whose task has not begun is m, one whose task has returned *)
(* is m advanced by one vector, and one in between is on the way; a task   *)
(* looks at nothing but its machine and at what is fixed during the Step.  *)
(* So when the last group is done, all machines are equal again.           *)
(***************************************************************************)

Loading == {"LOAD_TO_DUCKDB", "FINAL_LOAD_TO_DUCKDB"}

(* Row t is where a scan may end.                                          *)
EndOfScan(t) == t = nrows \/ (limit > 0 /\ t = limit)

(* The rows a machine holds and has handed out are rows of the table, in   *)
(* their place; its last batch ends where the scan does.                   *)
DataInv(m) ==
  /\ m.total_rows <= nrows
  /\ m.current_state \in Loading =>
       /\ m.total_rows + m.pending_records <= nrows
       /\ Stuck(m, limit) \/ m.skip + BatchStart(m) = m.total_rows
  /\ m.current_state = "LOAD_TO_DUCKDB" => m.pending_records > 0
  /\ m.current_state = "FINAL_LOAD_TO_DUCKDB" =>
       EndOfScan(m.total_rows + m.pending_records)
  /\ m.current_state = "FINISHED" => EndOfScan(m.total_rows)

(* A machine a Step can begin with.                                        *)
Common(m) ==
  /\ MachineInv(m, limit)
  /\ DataInv(m)
  /\ m.current_state # "FINISHED"
  /\ m.total_rows = delivered

BatchRead(m) ==
  Extracted(m, limit, effective_max_batch_size,
            ServerRows(RowSkips(m), RowCount(m, limit)))

(* Machine m when its task is about to load a vector.                      *)
Advanced(m) ==
  IF Started(m).current_state = "EXTRACT_FROM_SAP" THEN BatchRead(Started(m))
                                                   ELSE Started(m)

TaskInv(c, m) ==
  /\ task[c] \in {"none", "queued", "skipped"} => sm[c] = m
  /\ task[c] = "running" => sm[c] \in {Started(m), Advanced(m)}
  /\ task[c] = "done" => sm[c] = Loaded(Advanced(m), limit)

(* Earlier groups are done, later ones have not been scheduled, and a task *)
(* is skipped only beside one that raised.                                 *)
Schedule ==
  \A c \in Cols :
    /\ c <= group_start => task[c] = "done"
    /\ c > group_start + GroupSize => task[c] = "none"
    /\ c \in Group(group_start) => task[c] # "none"
    /\ task[c] = "skipped" => GroupRaised

ScanInv ==
  /\ phase = "between calls" =>
       /\ \A c \in Cols : task[c] = "none" /\ sm[c] = sm[1]
       /\ DataInv(sm[1])
       /\ sm[1].total_rows = delivered
  /\ phase = "stepping" =>
       /\ Schedule
       /\ \E m \in StateMachine : Common(m) /\ \A c \in Cols : TaskInv(c, m)
  /\ phase # "stepping" => \A c \in Cols : task[c] \notin {"queued", "running"}

-----------------------------------------------------------------------------
(* One machine.                                                            *)

LEMMA StartedData ==
  ASSUME NEW m \in StateMachine, DataInv(m)
  PROVE  /\ DataInv(Started(m))
         /\ Started(m).total_rows = m.total_rows
         /\ Started(m).current_state =
              IF m.current_state = "INIT" THEN "EXTRACT_FROM_SAP" ELSE m.current_state
<1> DEFINE x == Started(m)
           s == IF m.current_state = "INIT" THEN "EXTRACT_FROM_SAP" ELSE m.current_state
<1>1. x = [m EXCEPT !.cardinality = 0, !.current_state = s]
  BY DEF Started, StateMachine
<1>2. s \in Loading \cup {"LOAD_TO_DUCKDB", "FINAL_LOAD_TO_DUCKDB", "FINISHED"} =>
        s = m.current_state
  BY DEF Loading
<1> HIDE DEF x
<1>3. /\ x.current_state = s /\ x.total_rows = m.total_rows /\ x.skip = m.skip
      /\ x.pending_records = m.pending_records /\ x.duck_count = m.duck_count
  BY <1>1 DEF StateMachine
<1>4. BatchStart(x) = BatchStart(m) /\ (Stuck(x, limit) <=> Stuck(m, limit))
  BY <1>3 DEF BatchStart, Stuck
<1> HIDE DEF s
<1>5. DataInv(x)
  BY <1>2, <1>3, <1>4 DEF DataInv
<1> QED BY <1>3, <1>5 DEF x, s

(* A batch that is known to be the last one ends where the scan does: at   *)
(* the table's last row, or at MAX_ROWS if that is what was asked for.     *)
LEMMA BatchReadData ==
  ASSUME NEW m, MachineInv(m, limit), DataInv(m), m.current_state = "EXTRACT_FROM_SAP",
         nrows \in Nat, limit \in Nat, effective_max_batch_size \in Nat \ {0}
  PROVE  /\ MachineInv(BatchRead(m), limit)
         /\ DataInv(BatchRead(m))
         /\ BatchRead(m).total_rows = m.total_rows
         /\ BatchRead(m).current_state \in Loading
<1> DEFINE d == m.desired_batch_size
           t == m.total_rows
           k == RowCount(m, limit)
           n == ServerRows(t, k)
           cap == effective_max_batch_size
           x == BatchRead(m)
           s == IF LastBatch(m, limit, n) THEN "FINAL_LOAD_TO_DUCKDB" ELSE "LOAD_TO_DUCKDB"
           e == IF limit = 0 THEN NextDesiredBatchSize(d, t + n, cap) ELSE d
<1>1. /\ m \in StateMachine /\ d \in Nat \ {0} /\ t \in Nat /\ m.pending_records = 0
      /\ t <= nrows /\ (limit > 0 => t <= limit)
  BY DEF MachineInv, DataInv, StateMachine
<1>2. /\ k \in Nat \ {0} /\ k <= d
  BY RowCountLegal
<1>3. k = d \/ (limit > 0 /\ k = limit - t)
  <2>1. k = TrimmedActualBatchSize(d, t, limit)
    BY DEF RowCount
  <2> HIDE DEF k
  <2> QED BY <1>1, <2>1, SMT DEF TrimmedActualBatchSize
<1> HIDE DEF k
<1>4. /\ n \in Nat /\ n <= k /\ t + n <= nrows
      /\ n = k \/ t + n = nrows
  BY <1>1, <1>2, SMT DEF ServerRows, Smaller
<1>5. MachineInv(x, limit)
  <2>1. x = Extracted(m, limit, cap, n)
    BY DEF BatchRead, RowSkips, k
  <2> HIDE DEF n, x, cap
  <2>2. cap \in Nat \ {0}
    BY DEF cap
  <2> QED BY <1>4, <2>1, <2>2, ExtractedInv DEF k
<1>6. x = [m EXCEPT !.duck_count = 0, !.pending_records = n, !.current_batch_rows = n,
                    !.skip = t, !.current_state = s, !.desired_batch_size = e]
  <2>1. m.pending_records + n = n
    BY <1>1, <1>4
  <2> QED BY <1>1, <2>1 DEF BatchRead, Extracted, RowSkips, StateMachine, k
<1>7. s = "LOAD_TO_DUCKDB" => n > 0
  <2>1. s = "LOAD_TO_DUCKDB" => ~ LastBatch(m, limit, n)
    OBVIOUS
  <2> HIDE DEF s, n
  <2> QED BY <1>1, <1>4, <2>1, SMT DEF LastBatch
<1>8. s = "FINAL_LOAD_TO_DUCKDB" => EndOfScan(t + n)
  <2>1. s = "FINAL_LOAD_TO_DUCKDB" => LastBatch(m, limit, n)
    OBVIOUS
  <2>2. s = "FINAL_LOAD_TO_DUCKDB" => n < d \/ (limit > 0 /\ t + n = limit)
    BY <2>1 DEF LastBatch
  <2> HIDE DEF s, n
  <2> QED BY <1>1, <1>2, <1>3, <1>4, <2>2, SMT DEF EndOfScan
<1>9. s \in Loading /\ s # "FINISHED"
  BY DEF Loading
<1> HIDE DEF x, s, e, n
<1>10. /\ x.current_state = s /\ x.total_rows = t /\ x.pending_records = n
       /\ x.duck_count = 0 /\ x.skip = t
  BY <1>1, <1>6 DEF StateMachine
<1>11. BatchStart(x) = 0
  BY <1>10, VectorSizeAssumption, SMT DEF BatchStart
<1>12. t + 0 = t
  BY <1>1
<1>13. DataInv(x)
  BY <1>1, <1>4, <1>7, <1>8, <1>9, <1>10, <1>11, <1>12 DEF DataInv
<1> QED BY <1>5, <1>9, <1>10, <1>13 DEF x

(* The machine of a column when its task is about to load a vector holds   *)
(* one, whichever way it got there.                                        *)
LEMMA AdvancedData ==
  ASSUME NEW m \in StateMachine, Common(m),
         nrows \in Nat, limit \in Nat, effective_max_batch_size \in Nat \ {0}
  PROVE  /\ MachineInv(Started(m), limit)
         /\ MachineInv(Advanced(m), limit)
         /\ DataInv(Advanced(m))
         /\ Advanced(m).total_rows = delivered
         /\ Advanced(m).current_state \in Loading
         /\ Started(m).current_state # "EXTRACT_FROM_SAP" => Started(m) = Advanced(m)
<1> DEFINE x == Started(m)
<1>1. MachineInv(m, limit) /\ DataInv(m) /\ m.total_rows = delivered
  BY DEF Common
<1>2. MachineInv(x, limit)
  BY <1>1, StartedInv
<1>3. /\ DataInv(x) /\ x.total_rows = delivered
      /\ x.current_state = IF m.current_state = "INIT" THEN "EXTRACT_FROM_SAP"
                                                       ELSE m.current_state
  BY <1>1, StartedData
<1>4. x.current_state \in Loading \cup {"EXTRACT_FROM_SAP"}
  <2>1. m.current_state \in ReadTableStates /\ m.current_state # "FINISHED"
    BY DEF Common, StateMachine
  <2> HIDE DEF x
  <2> QED BY <1>3, <2>1 DEF ReadTableStates, Loading
<1>5. Advanced(m) = IF x.current_state = "EXTRACT_FROM_SAP" THEN BatchRead(x) ELSE x
  BY DEF Advanced
<1> HIDE DEF x
<1>6. CASE x.current_state = "EXTRACT_FROM_SAP"
  BY <1>2, <1>3, <1>5, <1>6, BatchReadData DEF x
<1>7. CASE x.current_state # "EXTRACT_FROM_SAP"
  BY <1>2, <1>3, <1>4, <1>5, <1>7 DEF x
<1> QED BY <1>6, <1>7

(* A vector's rows are the table's next ones; there is none only where the *)
(* scan may end.                                                           *)
LEMMA LoadedData ==
  ASSUME NEW m, MachineInv(m, limit), DataInv(m), m.current_state \in Loading,
         nrows \in Nat, limit \in Nat
  PROVE  LET x == Loaded(m, limit) IN
         /\ x \in StateMachine
         /\ MachineInv(x, limit)
         /\ DataInv(x)
         /\ x.cardinality \in 0 .. STANDARD_VECTOR_SIZE
         /\ x.total_rows = m.total_rows + x.cardinality
         /\ x.cardinality > 0 => x.first = m.total_rows
         /\ x.cardinality = 0 => EndOfScan(m.total_rows)
<1> DEFINE V == STANDARD_VECTOR_SIZE
           r == LoadNextBatch(m, limit)
           p == m.pending_records
           t == m.total_rows
           x == Loaded(m, limit)
           s == IF p - r # 0 THEN m.current_state
                ELSE IF m.current_state = "FINAL_LOAD_TO_DUCKDB"
                  THEN "FINISHED" ELSE "EXTRACT_FROM_SAP"
           n == IF p - r = 0 /\ m.current_state = "FINAL_LOAD_TO_DUCKDB"
                  THEN 0 ELSE m.current_batch_rows
<1>1. /\ V \in Nat \ {0} /\ m \in StateMachine /\ p \in Nat /\ t \in Nat
      /\ m.duck_count \in Nat /\ m.current_batch_rows \in Nat /\ m.skip \in Nat
      /\ (limit > 0 => t <= limit)
  BY VectorSizeAssumption DEF MachineInv, StateMachine
<1>2. BatchStart(m) \in Nat /\ (m.duck_count + 1) * V = BatchStart(m) + V
  BY <1>1, SMT DEF BatchStart
<1>3. /\ r \in 0 .. V /\ r <= p
      /\ limit > 0 => t + r <= limit
      /\ \/ Stuck(m, limit) /\ r = 0
         \/ limit > 0 /\ t + r = limit /\ r < p
         \/ m.current_batch_rows = BatchStart(m) + p /\ r = Smaller(V, p)
  BY LoadNextBatchBounds DEF Loading
<1>4. /\ t + p <= nrows
      /\ Stuck(m, limit) \/ m.skip + BatchStart(m) = t
      /\ m.current_state = "LOAD_TO_DUCKDB" => p > 0
      /\ m.current_state = "FINAL_LOAD_TO_DUCKDB" => EndOfScan(t + p)
  BY DEF DataInv
<1> HIDE DEF r
<1>5. x = [m EXCEPT !.cardinality = r, !.first = m.skip + BatchStart(m),
                    !.duck_count = m.duck_count + 1, !.pending_records = p - r,
                    !.total_rows = t + r, !.current_batch_rows = n, !.current_state = s]
  BY <1>1 DEF Loaded, StateMachine, r
<1>6. MachineInv(x, limit)
  BY LoadedInv DEF Loading
<1> HIDE DEF x, s, n
<1>7. /\ x.current_state = s /\ x.total_rows = t + r /\ x.pending_records = p - r
      /\ x.duck_count = m.duck_count + 1 /\ x.cardinality = r /\ x.skip = m.skip
      /\ x.first = m.skip + BatchStart(m)
  BY <1>1, <1>5 DEF StateMachine
<1>8. BatchStart(x) = BatchStart(m) + V
  BY <1>2, <1>7 DEF BatchStart
<1>9. r > 0 => m.skip + BatchStart(m) = t
  BY <1>1, <1>3, <1>4, SMT DEF Stuck
<1>10. r = 0 => EndOfScan(t)
  BY <1>1, <1>3, <1>4, SMT DEF Stuck, Smaller, EndOfScan, Loading
<1>11. DataInv(x)
  <2>1. (t + r) + (p - r) = t + p /\ t + r <= nrows
    BY <1>1, <1>3, <1>4, SMT
  <2>2. CASE p - r = 0
    <3>1. t + r = t + p
      BY <1>1, <1>3, <2>2, SMT
    <3> QED BY <1>1, <1>4, <1>7, <2>1, <2>2, <3>1 DEF DataInv, s, Loading
  <2>3. CASE p - r # 0
    <3>1. s = m.current_state /\ s # "FINISHED"
      BY <2>3 DEF s, Loading
    <3>2. p - r > 0
      BY <1>1, <1>3, <2>3, SMT
    <3>3. Stuck(x, limit) \/ m.skip + (BatchStart(m) + V) = t + r
      BY <1>1, <1>2, <1>3, <1>4, <1>7, <2>3, <3>2, SMT DEF Stuck, Smaller
    <3> QED BY <1>4, <1>7, <1>8, <2>1, <3>1, <3>2, <3>3 DEF DataInv
  <2> QED BY <2>2, <2>3
<1>12. x \in StateMachine
  BY <1>6 DEF MachineInv
<1> QED BY <1>3, <1>6, <1>7, <1>9, <1>10, <1>11, <1>12 DEF x

-----------------------------------------------------------------------------
(* The scan.                                                               *)

LEMMA Constants ==
  ASSUME Inv
  PROVE  /\ nrows \in Nat /\ limit \in Nat /\ NCols \in Nat \ {0} /\ 1 \in Cols
         /\ Cols \subseteq Nat \ {0} /\ max_threads \in Nat /\ group_start \in 0 .. NCols
         /\ GroupSize \in Nat \ {0}
         /\ effective_max_batch_size \in Nat \ {0}
         /\ sm \in [Cols -> StateMachine] /\ task \in [Cols -> TaskStates]
<1>1. <<nrows, limit>> \in Nat \X Nat /\ max_threads \in Nat
  BY ScanAssumption DEF Inv, TypeOK
<1>2. effective_max_batch_size \in Nat \ {0}
  BY WarmUpSizesPositive DEF Inv, TypeOK
<1>3. NCols \in Nat \ {0}
  BY ScanAssumption
<1>4. GroupSize \in Nat \ {0}
  BY <1>1, <1>3, SMT DEF GroupSize
<1> QED BY <1>1, <1>2, <1>3, <1>4 DEF Inv, TypeOK, Cols

(* Once the tasks of the group have finished without an error, so have     *)
(* those of all groups before it.                                          *)
LEMMA GroupsDone ==
  ASSUME Inv, Schedule, GroupDone, ~ GroupRaised
  PROVE  \A c \in Cols : c <= group_start + GroupSize => task[c] = "done"
<1> SUFFICES ASSUME NEW c \in Cols, c <= group_start + GroupSize
             PROVE  task[c] = "done"
  OBVIOUS
<1>1. c \in Nat /\ group_start \in Nat
  BY Constants
<1>2. CASE c <= group_start
  BY <1>2 DEF Schedule
<1>3. CASE c > group_start
  <2>1. c \in Group(group_start)
    BY <1>1, <1>3 DEF Group
  <2> QED BY <2>1 DEF Schedule, GroupDone, GroupRaised, Finished
<1> QED BY <1>1, <1>2, <1>3

LEMMA ScanInit == Init => ScanInv
<1> SUFFICES ASSUME Init PROVE ScanInv
  OBVIOUS
<1>1. Inv
  BY InitInv
<1>2. /\ phase = "between calls" /\ delivered = 0
      /\ \A c \in Cols : task[c] = "none" /\ sm[c] = NewStateMachine(limit)
  BY DEF Init
<1>3. /\ NewStateMachine(limit).current_state = "INIT"
      /\ NewStateMachine(limit).total_rows = 0
  BY DEF NewStateMachine
<1>4. DataInv(NewStateMachine(limit))
  BY <1>1, <1>3, Constants DEF DataInv, Loading
<1> QED BY <1>1, <1>2, <1>3, <1>4, Constants DEF ScanInv

LEMMA BeginStepInv ==
  ASSUME Inv, ScanInv, BeginStep
  PROVE  ScanInv'
<1>1. /\ \A c \in Cols : task[c] = "none" /\ sm[c] = sm[1]
      /\ DataInv(sm[1]) /\ sm[1].total_rows = delivered
  BY DEF ScanInv, BeginStep
<1>2. /\ phase' = "stepping" /\ group_start' = 0 /\ task' = Scheduled(0)
      /\ UNCHANGED <<nrows, limit, max_threads, delivered, sm>>
  BY DEF BeginStep, parameters, output
<1>3. 1 \in Cols /\ GroupSize' = GroupSize /\ Cols \subseteq Nat \ {0}
      /\ GroupSize \in Nat
  BY <1>2, Constants DEF GroupSize
<1>4. Common(sm[1])
  <2>1. sm[1].current_state # "FINISHED"
    BY <1>1 DEF BeginStep, HasMoreResults
  <2> QED BY <1>1, <1>3, <2>1 DEF Common, Inv
<1>5. Common(sm[1])'
  BY <1>2, <1>4 DEF Common, DataInv, EndOfScan
<1>6. \A c \in Cols : task'[c] = IF c \in Group(0) THEN "queued" ELSE "none"
  BY <1>1, <1>2 DEF Scheduled
<1>7. Schedule'
  <2> SUFFICES ASSUME NEW c \in Cols
               PROVE  /\ ~ (c <= group_start')
                      /\ c > group_start' + GroupSize' => task'[c] = "none"
                      /\ c \in Group(group_start)' => task'[c] # "none"
                      /\ task'[c] # "skipped"
    BY DEF Schedule
  <2>1. Group(group_start)' = Group(0)
    BY <1>2, <1>3 DEF Group
  <2>2. c \in Group(0) <=> 0 < c /\ c <= 0 + GroupSize
    BY DEF Group
  <2> QED BY <1>2, <1>3, <1>6, <2>1, <2>2
<1>8. \A c \in Cols : TaskInv(c, sm[1])'
  BY <1>1, <1>2, <1>6 DEF TaskInv
<1>9. sm[1]' \in StateMachine /\ sm[1]' = sm[1]
  BY <1>2, <1>3, Constants
<1> QED BY <1>2, <1>5, <1>7, <1>8, <1>9 DEF ScanInv

LEMMA NextGroupInv ==
  ASSUME Inv, ScanInv, NextGroup
  PROVE  ScanInv'
<1>1. Schedule
  BY DEF ScanInv, NextGroup
<1>2. PICK m \in StateMachine : Common(m) /\ \A c \in Cols : TaskInv(c, m)
  BY DEF ScanInv, NextGroup
<1>3. /\ phase' = "stepping" /\ phase = "stepping"
      /\ group_start' = group_start + GroupSize
      /\ task' = Scheduled(group_start + GroupSize)
      /\ UNCHANGED <<nrows, limit, max_threads, delivered, sm, effective_max_batch_size>>
  BY DEF NextGroup, parameters, output
<1>4. /\ GroupSize' = GroupSize /\ Cols \subseteq Nat \ {0}
      /\ GroupSize \in Nat \ {0} /\ group_start \in Nat
  BY <1>3, Constants DEF GroupSize
<1>5. Common(m)'
  BY <1>2, <1>3 DEF Common, DataInv, EndOfScan
<1> DEFINE g == group_start + GroupSize
<1>6. \A c \in Cols : task'[c] = IF c \in Group(g) THEN "queued" ELSE task[c]
  BY <1>3 DEF Scheduled
<1>7. \A c \in Cols : /\ c <= g => task[c] = "done"
                      /\ c > g => task[c] = "none"
  BY <1>1, GroupsDone DEF NextGroup, Schedule
<1>8. Schedule'
  <2> SUFFICES ASSUME NEW c \in Cols
               PROVE  /\ c <= group_start' => task'[c] = "done"
                      /\ c > group_start' + GroupSize' => task'[c] = "none"
                      /\ c \in Group(group_start)' => task'[c] # "none"
                      /\ task'[c] # "skipped"
    BY DEF Schedule
  <2>1. Group(group_start)' = Group(g)
    BY <1>3, <1>4 DEF Group
  <2>2. /\ c \in Nat /\ g \in Nat
        /\ c \in Group(g) <=> g < c /\ c <= g + GroupSize
    BY <1>4 DEF Group
  <2>3. c <= g \/ c > g
    BY <2>2
  <2> HIDE DEF g
  <2>4. c > g + GroupSize => c > g
    BY <1>4, <2>2, SMT
  <2>5. c <= g => c \notin Group(g)
    BY <2>2, SMT
  <2> QED BY <1>3, <1>4, <1>6, <1>7, <2>1, <2>2, <2>3, <2>4, <2>5 DEF g
<1>9. \A c \in Cols : TaskInv(c, m)'
  <2> SUFFICES ASSUME NEW c \in Cols PROVE TaskInv(c, m)'
    OBVIOUS
  <2>1. Advanced(m)' = Advanced(m)
    BY <1>3 DEF Advanced, BatchRead, ServerRows
  <2>2. TaskInv(c, m)
    BY <1>2
  <2>3. CASE c \in Group(g)
    <3>1. c > g
      BY <2>3 DEF Group
    <3>2. sm[c] = m /\ task'[c] = "queued"
      BY <1>6, <1>7, <2>2, <2>3, <3>1 DEF TaskInv
    <3> QED BY <1>3, <3>2 DEF TaskInv
  <2>4. CASE c \notin Group(g)
    BY <1>3, <1>6, <2>1, <2>2, <2>4 DEF TaskInv
  <2> QED BY <2>3, <2>4
<1> QED BY <1>2, <1>3, <1>5, <1>8, <1>9 DEF ScanInv

LEMMA AllGroupsDone ==
  ASSUME Inv, Schedule, GroupDone, ~ GroupRaised, LastGroup
  PROVE  \A c \in Cols : task[c] = "done"
<1> SUFFICES ASSUME NEW c \in Cols PROVE task[c] = "done"
  OBVIOUS
<1>1. c <= NCols /\ c \in Nat /\ NCols \in Nat
  BY Constants DEF Cols
<1>2. group_start \in Nat /\ GroupSize \in Nat
  BY Constants
<1>3. c <= group_start + GroupSize
  BY <1>1, <1>2, SMT DEF LastGroup
<1> QED BY <1>3, GroupsDone

(* When the last group is done every machine has loaded the same vector.   *)
LEMMA StepDone ==
  ASSUME Inv, ScanInv, EndStep
  PROVE  \E m \in StateMachine :
           /\ Common(m)
           /\ \A c \in Cols : sm[c] = Loaded(Advanced(m), limit)
<1>1. Schedule
  BY DEF ScanInv, EndStep
<1>2. PICK m \in StateMachine : Common(m) /\ \A c \in Cols : TaskInv(c, m)
  BY DEF ScanInv, EndStep
<1>3. \A c \in Cols : task[c] = "done"
  BY <1>1, AllGroupsDone DEF EndStep
<1> QED BY <1>2, <1>3 DEF TaskInv

LEMMA EndStepInv ==
  ASSUME Inv, ScanInv, EndStep
  PROVE  ScanInv'
<1>1. PICK m \in StateMachine : /\ Common(m)
                                /\ \A c \in Cols : sm[c] = Loaded(Advanced(m), limit)
  BY StepDone
<1> DEFINE x == Loaded(Advanced(m), limit)
<1>2. nrows \in Nat /\ limit \in Nat /\ 1 \in Cols
  BY Constants
<1>3. /\ MachineInv(Advanced(m), limit) /\ DataInv(Advanced(m))
      /\ Advanced(m).total_rows = delivered
      /\ Advanced(m).current_state \in Loading
  BY <1>1, Constants, AdvancedData
<1>4. /\ DataInv(x) /\ x.total_rows = delivered + x.cardinality
  BY <1>2, <1>3, LoadedData
<1>5. /\ \A c \in Cols : task'[c] = "none"
      /\ UNCHANGED <<nrows, limit, sm>>
      /\ phase' \in {"failed", "ended", "between calls"}
      /\ phase' = "between calls" => delivered' = delivered + sm[1].cardinality
  BY DEF EndStep, parameters
<1> HIDE DEF x
<1>6. \A c \in Cols : sm[c] = x
  BY <1>1 DEF x
<1>7. DataInv(sm[1])'
  BY <1>2, <1>4, <1>5, <1>6 DEF DataInv, EndOfScan
<1> QED BY <1>2, <1>4, <1>5, <1>6, <1>7 DEF ScanInv

(* A task changes its own state to s and its own machine to x; a column    *)
(* may be in that state while the common machine is m.                     *)
TaskStep(c, s, x) ==
  /\ task[c] \in {"queued", "running"}
  /\ s = "skipped" => GroupRaised
  /\ task' = [task EXCEPT ![c] = s]
  /\ sm' = [sm EXCEPT ![c] = x]
  /\ UNCHANGED <<nrows, limit, max_threads, group_start, effective_max_batch_size,
                 phase, delivered>>

Becomes(s, x, m) ==
  /\ s \in {"queued", "skipped"} => x = m
  /\ s = "running" => x \in {Started(m), Advanced(m)}
  /\ s = "done" => x = Loaded(Advanced(m), limit)

LEMMA TaskStepInv ==
  ASSUME Inv, ScanInv, NEW c \in Cols, NEW s \in TaskStates \ {"none"}, NEW x,
         TaskStep(c, s, x),
         \A m \in StateMachine : Common(m) /\ TaskInv(c, m) => Becomes(s, x, m)
  PROVE  ScanInv'
<1> USE DEF TaskStep
<1>1. phase = "stepping" /\ phase' = phase
  BY DEF ScanInv
<1>2. Schedule
  BY <1>1 DEF ScanInv
<1>3. PICK m \in StateMachine : Common(m) /\ \A e \in Cols : TaskInv(e, m)
  BY <1>1 DEF ScanInv
<1>4. Common(m)'
  BY <1>3 DEF Common, DataInv, EndOfScan
<1>5. /\ GroupSize' = GroupSize /\ Group(group_start)' = Group(group_start)
      /\ group_start' = group_start /\ task \in [Cols -> TaskStates]
      /\ sm \in [Cols -> StateMachine]
  BY Constants DEF GroupSize, Group
<1>6. GroupRaised => GroupRaised'
  BY <1>5 DEF GroupRaised
<1>7. Schedule'
  <2> SUFFICES ASSUME NEW e \in Cols
               PROVE  /\ e <= group_start => task'[e] = "done"
                      /\ e > group_start + GroupSize => task'[e] = "none"
                      /\ e \in Group(group_start) => task'[e] # "none"
                      /\ task'[e] = "skipped" => GroupRaised'
    BY <1>5 DEF Schedule
  <2>1. CASE e = c
    BY <1>2, <1>5, <1>6, <2>1 DEF Schedule
  <2>2. CASE e # c
    <3>1. task'[e] = task[e]
      BY <1>5, <2>2
    <3> QED BY <1>2, <1>6, <3>1 DEF Schedule
  <2> QED BY <2>1, <2>2
<1>8. \A e \in Cols : TaskInv(e, m)'
  <2> SUFFICES ASSUME NEW e \in Cols PROVE TaskInv(e, m)'
    OBVIOUS
  <2>1. Advanced(m)' = Advanced(m) /\ limit' = limit
    BY DEF Advanced, BatchRead, ServerRows
  <2>2. CASE e = c
    <3>1. task'[e] = s /\ sm'[e] = x
      BY <1>5, <2>2
    <3>2. Becomes(s, x, m)
      BY <1>3
    <3> QED BY <2>1, <3>1, <3>2 DEF TaskInv, Becomes
  <2>3. CASE e # c
    <3>1. task'[e] = task[e] /\ sm'[e] = sm[e]
      BY <1>5, <2>3
    <3> QED BY <1>3, <2>1, <3>1 DEF TaskInv
  <2> QED BY <2>2, <2>3
<1> QED BY <1>1, <1>3, <1>4, <1>7, <1>8 DEF ScanInv

LEMMA ScanNext == Inv /\ ScanInv /\ [Next]_vars => ScanInv'
<1> SUFFICES ASSUME Inv, ScanInv, [Next]_vars PROVE ScanInv'
  OBVIOUS
<1>0. /\ nrows \in Nat /\ limit \in Nat /\ effective_max_batch_size \in Nat \ {0}
      /\ sm \in [Cols -> StateMachine] /\ task \in [Cols -> TaskStates]
  BY Constants
<1>1. CASE StepRaises
  <2>1. \A c \in Cols : task[c] \notin {"queued", "running"}
    <3>1. Schedule /\ GroupDone
      BY <1>1 DEF StepRaises, ScanInv
    <3>2. \A c \in Cols : c \in Nat
      BY Constants
    <3>3. group_start \in Nat /\ GroupSize \in Nat
      BY Constants
    <3> QED BY <3>1, <3>2, <3>3 DEF Schedule, GroupDone, Finished, Group
  <2> QED BY <1>1, <2>1 DEF StepRaises, ScanInv
<1>2. CASE ReturnEmpty
  BY <1>2 DEF ReturnEmpty, ScanInv
<1>3. ASSUME NEW c \in Cols, StartTask(c) PROVE ScanInv'
  <2> DEFINE x == Started(sm[c])
  <2>1. TaskStep(c, "running", x)
    BY <1>3 DEF StartTask, TaskStep, parameters, output
  <2>2. ASSUME NEW m \in StateMachine, TaskInv(c, m) PROVE Becomes("running", x, m)
    BY <1>3, <2>2 DEF StartTask, TaskInv, Becomes
  <2> HIDE DEF x
  <2> QED BY <2>1, <2>2, TaskStepInv DEF TaskStates
<1>4. ASSUME NEW c \in Cols, SkipTask(c) PROVE ScanInv'
  <2>1. TaskStep(c, "skipped", sm[c])
    BY <1>0, <1>4 DEF SkipTask, TaskStep, parameters, output
  <2>2. ASSUME NEW m \in StateMachine, TaskInv(c, m) PROVE Becomes("skipped", sm[c], m)
    BY <1>4, <2>2 DEF SkipTask, TaskInv, Becomes
  <2> QED BY <2>1, <2>2, TaskStepInv DEF TaskStates
<1>5. ASSUME NEW c \in Cols, ReadBatch(c) PROVE ScanInv'
  <2> DEFINE x == BatchRead(sm[c])
  <2>1. task[c] = "running" /\ sm[c].current_state = "EXTRACT_FROM_SAP"
    BY <1>5 DEF ReadBatch
  <2>2. TaskStep(c, "running", x)
    BY <1>0, <1>5 DEF ReadBatch, BatchRead, TaskStep, parameters, output
  <2>3. ASSUME NEW m \in StateMachine, Common(m), TaskInv(c, m)
        PROVE  Becomes("running", x, m)
    <3>1. sm[c] \in {Started(m), Advanced(m)}
      BY <2>1, <2>3 DEF TaskInv
    <3>2. Advanced(m).current_state # "EXTRACT_FROM_SAP"
      BY <1>0, <2>3, AdvancedData DEF Loading
    <3>3. x = Advanced(m)
      BY <2>1, <3>1, <3>2 DEF Advanced
    <3> QED BY <3>3 DEF Becomes
  <2> HIDE DEF x
  <2> QED BY <2>2, <2>3, TaskStepInv DEF TaskStates
<1>6. ASSUME NEW c \in Cols, TaskRaises(c) PROVE ScanInv'
  <2>1. TaskStep(c, "raised", sm[c])
    BY <1>0, <1>6 DEF TaskRaises, TaskStep, parameters, output
  <2>2. ASSUME NEW m \in StateMachine PROVE Becomes("raised", sm[c], m)
    BY DEF Becomes
  <2> QED BY <2>1, <2>2, TaskStepInv DEF TaskStates
<1>7. ASSUME NEW c \in Cols, LoadVector(c) PROVE ScanInv'
  <2> DEFINE x == Loaded(sm[c], limit)
  <2>1. task[c] = "running" /\ sm[c].current_state \in Loading
    BY <1>7 DEF LoadVector, Loading
  <2>2. TaskStep(c, "done", x)
    BY <1>7 DEF LoadVector, TaskStep, parameters, output
  <2>3. ASSUME NEW m \in StateMachine, Common(m), TaskInv(c, m)
        PROVE  Becomes("done", x, m)
    <3>1. sm[c] \in {Started(m), Advanced(m)}
      BY <2>1, <2>3 DEF TaskInv
    <3>2. Started(m).current_state # "EXTRACT_FROM_SAP" => Started(m) = Advanced(m)
      BY <1>0, <2>3, AdvancedData
    <3>3. sm[c] = Advanced(m)
      BY <2>1, <3>1, <3>2 DEF Loading
    <3> QED BY <3>3 DEF Becomes
  <2> HIDE DEF x
  <2> QED BY <2>2, <2>3, TaskStepInv DEF TaskStates
<1>8. CASE SetBudget \/ UNCHANGED vars
  <2>1. UNCHANGED <<parameters, sm, task, group_start, effective_max_batch_size, phase,
                    output>>
    BY <1>8 DEF SetBudget, vars
  <2>2. /\ GroupSize' = GroupSize /\ Group(group_start)' = Group(group_start)
        /\ Schedule' = Schedule /\ DataInv(sm[1])' = DataInv(sm[1])
    BY <2>1 DEF GroupSize, Group, Schedule, GroupRaised, DataInv, EndOfScan, parameters
  <2>3. ASSUME NEW m \in StateMachine
        PROVE  /\ Common(m)' = Common(m)
               /\ \A c \in Cols : TaskInv(c, m)' = TaskInv(c, m)
    BY <2>1 DEF Common, DataInv, EndOfScan, TaskInv, Advanced, BatchRead, ServerRows,
                parameters, output
  <2> QED BY <2>1, <2>2, <2>3 DEF ScanInv, output
<1> QED
  BY <1>1, <1>2, <1>3, <1>4, <1>5, <1>6, <1>7, <1>8, BeginStepInv, NextGroupInv,
     EndStepInv DEF Next, Step, Task

(* The invariants of the machines and of the schedule, together.           *)
THEOREM ScanInvariance == Spec => [](Inv /\ ScanInv)
BY InitInv, NextInv, ScanInit, ScanNext, PTL DEF Spec

(* The columns never drift apart: between two calls all machines are       *)
(* equal, and have handed out what DuckDB accepted - in whatever order and *)
(* groups the tasks ran, and however the budget was changed meanwhile.     *)
THEOREM AlwaysInLockStep == Spec => []LockStep
<1>1. ScanInv => LockStep
  BY DEF ScanInv, LockStep
<1> QED BY <1>1, ScanInvariance, PTL

(* The check of Step that all columns produced as many rows never fails on *)
(* a table that does not change.                                           *)
THEOREM CardinalitiesAlwaysAgree == Spec => []CardinalitiesAgree
<1>1. Inv /\ ScanInv => CardinalitiesAgree
  <2> SUFFICES ASSUME Inv, ScanInv, phase = "stepping", LastGroup, GroupDone, ~ GroupRaised
               PROVE  AreActiveStateMachineCardinalitiesEqual
    BY DEF CardinalitiesAgree
  <2>1. PICK m \in StateMachine : Common(m) /\ \A c \in Cols : TaskInv(c, m)
    BY DEF ScanInv
  <2>2. \A c \in Cols : task[c] = "done"
    BY AllGroupsDone DEF ScanInv
  <2>3. \A c \in Cols : sm[c] = Loaded(Advanced(m), limit)
    BY <2>1, <2>2 DEF TaskInv
  <2>4. 1 \in Cols
    BY Constants
  <2> QED BY <2>3, <2>4 DEF AreActiveStateMachineCardinalitiesEqual
<1> QED BY <1>1, ScanInvariance, PTL

(* THREADS is a cap: the columns whose tasks run are those of one group,   *)
(* and a group has no more.                                                *)
THEOREM ThreadsAlwaysRespected == Spec => []ThreadsRespected
<1>1. Inv /\ ScanInv => ThreadsRespected
  <2> SUFFICES ASSUME Inv, ScanInv, max_threads > 0
               PROVE  Cardinality({c \in Cols : task[c] = "running"}) <= max_threads
    BY DEF ThreadsRespected
  <2> DEFINE R == {c \in Cols : task[c] = "running"}
             g == group_start
             k == GroupSize
  <2>1. /\ g \in Nat /\ k \in Nat \ {0} /\ max_threads \in Nat
        /\ \A c \in Cols : c \in Nat
    BY Constants
  <2>2. k <= max_threads
    BY Constants, SMT DEF GroupSize
  <2>3. R \subseteq g + 1 .. g + k
    <3> SUFFICES ASSUME NEW c \in Cols, task[c] = "running" PROVE c \in g + 1 .. g + k
      OBVIOUS
    <3>1. Schedule
      BY DEF ScanInv
    <3>2. ~ (c <= g) /\ ~ (c > g + k)
      BY <3>1 DEF Schedule
    <3> HIDE DEF k
    <3> QED BY <2>1, <3>2
  <2> HIDE DEF R, k
  <2>4. IsFiniteSet(g + 1 .. g + k) /\ Cardinality(g + 1 .. g + k) = k
    BY <2>1, FS_Interval
  <2>5. Cardinality(R) <= k /\ Cardinality(R) \in Nat
    BY <2>3, <2>4, FS_Subset, FS_CardinalityType
  <2>6. Cardinality(R) <= max_threads
    BY <2>1, <2>2, <2>5
  <2> QED BY <2>6 DEF R
<1> QED BY <1>1, ScanInvariance, PTL

-----------------------------------------------------------------------------
(* The refinement.                                                         *)

LEMMA EndsWhereWanted ==
  ASSUME NEW t \in Nat, EndOfScan(t), t <= nrows, limit > 0 => t <= limit,
         nrows \in Nat, limit \in Nat
  PROVE  t = Abstract!Wanted
BY SMT DEF EndOfScan, Abstract!Wanted

LEMMA InitRefines == Init => Abstract!Init
<1> SUFFICES ASSUME Init PROVE Abstract!Init
  OBVIOUS
<1>1. nrows \in Nat /\ limit \in Nat
  BY InitInv, Constants
<1> QED BY <1>1 DEF Init, Outcome, Abstract!Init, Abstract!Chunk

(* What a Step ends with is a chunk of the next rows, the end, or an error.*)
LEMMA EndStepRefines ==
  ASSUME Inv, ScanInv, EndStep
  PROVE  Abstract!Next
<1>1. PICK m \in StateMachine : /\ Common(m)
                                /\ \A c \in Cols : sm[c] = Loaded(Advanced(m), limit)
  BY StepDone
<1>2. nrows \in Nat /\ limit \in Nat /\ 1 \in Cols
  BY Constants
<1> DEFINE a == Advanced(m)
           x == Loaded(a, limit)
           n == x.cardinality
<1>3. /\ MachineInv(a, limit) /\ DataInv(a) /\ a.total_rows = delivered
      /\ a.current_state \in Loading
  BY <1>1, Constants, AdvancedData
<1>4. a \in StateMachine /\ delivered \in Nat
  BY <1>3 DEF MachineInv, StateMachine
<1> HIDE DEF a
<1>5. /\ MachineInv(x, limit) /\ DataInv(x)
      /\ n \in 0 .. STANDARD_VECTOR_SIZE
      /\ x.total_rows = delivered + n
      /\ n > 0 => x.first = delivered
      /\ n = 0 => EndOfScan(delivered)
  BY <1>2, <1>3, LoadedData
<1> HIDE DEF x
<1>6. /\ delivered + n <= nrows /\ (limit > 0 => delivered + n <= limit)
      /\ n \in Nat
  BY <1>5, VectorSizeAssumption DEF MachineInv, DataInv
<1>7. \A c \in Cols : sm[c] = x
  BY <1>1 DEF x, a
<1>8. /\ phase = "stepping" /\ UNCHANGED <<nrows, limit>>
      /\ Outcome = "scanning"
  BY DEF EndStep, parameters, Outcome
<1>9. CASE phase' = "failed"
  <2>1. delivered' = delivered /\ chunk' = chunk
    BY <1>9 DEF EndStep, output
  <2> QED BY <1>8, <1>9, <2>1 DEF Abstract!Next, Abstract!Fail, Outcome
<1>10. CASE phase' = "ended"
  <2>1. delivered' = delivered /\ chunk' = chunk /\ n = 0
    BY <1>2, <1>7, <1>10 DEF EndStep, output
  <2>2. delivered = Abstract!Wanted
    BY <1>2, <1>4, <1>5, <1>6, <2>1, EndsWhereWanted
  <2> QED BY <1>8, <1>10, <2>1, <2>2 DEF Abstract!Next, Abstract!End, Outcome
<1>11. CASE phase' = "between calls"
  <2>1. /\ n > 0 /\ delivered' = delivered + n
        /\ chunk' = [c \in Cols |-> [from |-> sm[c].first, rows |-> sm[c].cardinality]]
    BY <1>2, <1>7, <1>11 DEF EndStep
  <2>2. chunk' = [c \in Cols |-> [from |-> delivered, rows |-> n]]
    BY <1>5, <1>7, <2>1
  <2>3. n \in 1 .. STANDARD_VECTOR_SIZE
    BY <1>5, <2>1, VectorSizeAssumption
  <2>4. delivered + n <= Abstract!Wanted
    BY <1>2, <1>4, <1>6, SMT DEF Abstract!Wanted
  <2>5. Outcome' = "scanning"
    BY <1>11 DEF Outcome
  <2>6. Abstract!Deliver
    BY <1>8, <2>1, <2>2, <2>3, <2>4, <2>5 DEF Abstract!Deliver, Abstract!Chunk
  <2> QED BY <2>6 DEF Abstract!Next
<1> QED BY <1>9, <1>10, <1>11 DEF EndStep

LEMMA NextRefines == Inv /\ ScanInv /\ [Next]_vars => [Abstract!Next]_(Abstract!vars)
<1> SUFFICES ASSUME Inv, ScanInv, [Next]_vars
             PROVE  Abstract!Next \/ UNCHANGED Abstract!vars
  OBVIOUS
<1>1. CASE EndStep
  BY <1>1, EndStepRefines
<1>2. CASE ReturnEmpty
  <2>1. /\ phase = "between calls" /\ phase' = "ended"
        /\ sm[1].current_state = "FINISHED" /\ 1 \in Cols
        /\ UNCHANGED <<nrows, limit, delivered, chunk>>
    BY <1>2, Constants DEF ReturnEmpty, HasMoreResults, parameters, output
  <2>2. /\ sm[1].total_rows = delivered /\ DataInv(sm[1]) /\ MachineInv(sm[1], limit)
    BY <2>1 DEF ScanInv, Inv
  <2>3. /\ EndOfScan(delivered) /\ delivered <= nrows /\ delivered \in Nat
        /\ limit > 0 => delivered <= limit
    BY <2>1, <2>2 DEF DataInv, MachineInv, StateMachine
  <2>4. delivered = Abstract!Wanted
    BY <2>3, Constants, EndsWhereWanted
  <2> QED BY <2>1, <2>4 DEF Abstract!Next, Abstract!End, Outcome
<1>3. CASE StepRaises
  BY <1>3 DEF StepRaises, parameters, output, Outcome, Abstract!Next, Abstract!Fail
<1>4. CASE BeginStep \/ NextGroup
  BY <1>4 DEF BeginStep, NextGroup, parameters, output, Outcome, Abstract!vars
<1>5. ASSUME NEW c \in Cols, Task(c) PROVE UNCHANGED Abstract!vars
  BY <1>5 DEF Task, StartTask, SkipTask, ReadBatch, TaskRaises, LoadVector,
              parameters, output, Outcome, Abstract!vars
<1>6. CASE SetBudget \/ UNCHANGED vars
  BY <1>6 DEF SetBudget, vars, parameters, output, Outcome, Abstract!vars
<1> QED BY <1>1, <1>2, <1>3, <1>4, <1>5, <1>6 DEF Next, Step

(* Every scan is one of TableScan: its chunks are aligned, in order,       *)
(* without a gap or a repetition, and complete when it ends without an     *)
(* error.                                                                  *)
THEOREM ScanImplements == Spec => Implements
BY InitRefines, NextRefines, ScanInvariance, PTL DEF Spec, Implements, Abstract!Spec
-----------------------------------------------------------------------------
(***************************************************************************)
(* What ReadTableScan holds on to: for every instance, the batches of all  *)
(* columns together stay within a budget that was set, and a scan that has *)
(* ended keeps nothing unless its last batch was over-fetched.             *)
(***************************************************************************)

(* A batch of n rows per column respects some budget of this scan.         *)
WithinBudget(n) ==
  n <= STANDARD_VECTOR_SIZE \/ \E b \in budgets_set : b = 0 \/ NCols * n <= b

(* With MAX_ROWS the batch size never changes, and only a batch that is    *)
(* over-fetched ends after MAX_ROWS.                                       *)
LimitInv(m) ==
  /\ m.desired_batch_size = NewStateMachine(limit).desired_batch_size
  /\ m.current_state \in {"INIT", "EXTRACT_FROM_SAP"} => m.total_rows < limit
  /\ m.current_state = "LOAD_TO_DUCKDB" => m.total_rows + m.pending_records # limit
  /\ m.current_state \in Loading =>
       m.total_rows + m.pending_records <= limit \/ Overfetched

BoundsInv(m) ==
  /\ m.current_state = "FINISHED" => m.current_batch_rows = 0
  /\ limit > 0 => LimitInv(m)
  /\ limit = 0 /\ NCols > 1 =>
       WithinBudget(m.desired_batch_size) /\ WithinBudget(m.current_batch_rows)

ResourceInv ==
  /\ \A c \in Cols : BoundsInv(sm[c])
  /\ phase = "stepping" /\ NCols > 1 => WithinBudget(effective_max_batch_size)
  /\ ReleasedAtEnd

-----------------------------------------------------------------------------
(* Arithmetic.                                                             *)

(* The offset of a rest smaller than a vector.                             *)
LEMMA ModRest ==
  ASSUME NEW d \in Nat \ {0}, NEW t \in Nat, NEW r \in 0 .. d - 1, t % d = 0
  PROVE  (t + r) % d = r
<1> DEFINE q == t \div d
           q2 == (t + r) \div d
           s == (t + r) % d
<1>1. q \in Int /\ q2 \in Int /\ s \in 0 .. d - 1
  BY SMT
<1>2. t = d * q
  BY SMT
<1>3. t + r = d * q2 + s
  BY SMT
<1> DEFINE z == q - q2
<1>4. z \in Int /\ d * z = s - r
  <2> HIDE DEF q, q2, s
  <2> QED BY <1>1, <1>2, <1>3, SMT
<1> HIDE DEF z, q, q2, s
<1>5. ~ z >= 1
  BY <1>1, <1>4, SMT
<1>6. ~ z <= -1
  BY <1>1, <1>4, SMT
<1>7. s = r
  BY <1>1, <1>4, <1>5, <1>6, SMT
<1> QED BY <1>7 DEF s

LEMMA ModSub ==
  ASSUME NEW d \in Nat \ {0}, NEW t \in Nat, (t + d) % d = 0
  PROVE  t % d = 0
<1> DEFINE q == t \div d
           s == t % d
           q2 == (t + d) \div d
<1>1. q \in Int /\ q2 \in Int /\ s \in 0 .. d - 1
  BY SMT
<1>2. t = d * q + s
  BY SMT
<1>3. t + d = d * q2
  BY SMT
<1> DEFINE z == q2 - q - 1
<1>4. z \in Int /\ d * z = s
  <2> HIDE DEF q, q2, s
  <2> QED BY <1>1, <1>2, <1>3, SMT
<1> HIDE DEF z, q, q2, s
<1>5. ~ z >= 1
  BY <1>1, <1>4, SMT
<1>6. ~ z <= -1
  BY <1>1, <1>4, SMT
<1>7. s = 0
  BY <1>1, <1>4, <1>5, <1>6, SMT
<1> QED BY <1>7 DEF s

LEMMA DivBound ==
  ASSUME NEW n \in Nat \ {0}, NEW b \in Nat, NEW k \in Nat, k <= b \div n
  PROVE  n * k <= b
<1> DEFINE q == b \div n
<1>1. q \in Int /\ n * q <= b
  BY SMT
<1>2. k <= q
  OBVIOUS
<1> HIDE DEF q
<1>3. n * k <= n * q
  BY <1>1, <1>2, SMT
<1> QED BY <1>1, <1>3, SMT

LEMMA CapWithinBudget ==
  ASSUME NCols \in Nat, NCols > 1, NEW b \in budgets_set, budgets_set \subseteq Budgets
  PROVE  WithinBudget(MaxBatchSizeForColumnCount(NCols, b))
<1> DEFINE cap == MaxBatchSizeForColumnCount(NCols, b)
<1>1. b \in Nat
  BY ScanAssumption
<1>2. cap \in Nat /\ (b # 0 => cap = STANDARD_VECTOR_SIZE \/ cap <= b \div NCols)
  BY <1>1, CapInWarmUpSizes, WarmUpSizesPositive
<1> HIDE DEF cap
<1>3. b # 0 => cap = STANDARD_VECTOR_SIZE \/ NCols * cap <= b
  BY <1>1, <1>2, DivBound
<1>4. WithinBudget(cap)
  BY <1>2, <1>3, VectorSizeAssumption DEF WithinBudget
<1> QED BY <1>4 DEF cap

LEMMA WithinBudgetDown ==
  ASSUME NEW n \in Nat, NEW k \in Nat, k <= n, WithinBudget(n),
         budgets_set \subseteq Budgets
  PROVE  WithinBudget(k)
<1>1. CASE n <= STANDARD_VECTOR_SIZE
  BY <1>1, VectorSizeAssumption DEF WithinBudget
<1>2. CASE ~ (n <= STANDARD_VECTOR_SIZE)
  <2>1. PICK b \in budgets_set : b = 0 \/ NCols * n <= b
    BY <1>2 DEF WithinBudget
  <2>2. NCols * k <= NCols * n /\ NCols * k \in Nat /\ NCols * n \in Nat /\ b \in Nat
    BY ScanAssumption, SMT
  <2> QED BY <2>1, <2>2 DEF WithinBudget
<1> QED BY <1>1, <1>2

-----------------------------------------------------------------------------
(* One machine.                                                            *)

LEMMA NewBounds ==
  ASSUME limit \in Nat
  PROVE  BoundsInv(NewStateMachine(limit))
<1> DEFINE x == NewStateMachine(limit)
<1>1. /\ x.current_state = "INIT" /\ x.total_rows = 0 /\ x.current_batch_rows = 0
      /\ x.desired_batch_size = IF 0 < limit /\ limit <= MAX_BATCH_SIZE
                                  THEN limit ELSE STANDARD_VECTOR_SIZE
  BY DEF NewStateMachine
<1> HIDE DEF x
<1>2. limit > 0 => LimitInv(x)
  BY <1>1 DEF LimitInv, Loading, x
<1>3. limit = 0 => WithinBudget(x.desired_batch_size) /\ WithinBudget(x.current_batch_rows)
  BY <1>1, VectorSizeAssumption DEF WithinBudget
<1> QED BY <1>1, <1>2, <1>3 DEF BoundsInv, x

LEMMA StartedBounds ==
  ASSUME NEW m \in StateMachine, BoundsInv(m)
  PROVE  BoundsInv(Started(m))
<1> DEFINE x == Started(m)
           s == IF m.current_state = "INIT" THEN "EXTRACT_FROM_SAP" ELSE m.current_state
<1>1. x = [m EXCEPT !.cardinality = 0, !.current_state = s]
  BY DEF Started, StateMachine
<1>2. /\ s \in Loading \cup {"LOAD_TO_DUCKDB", "FINISHED"} => s = m.current_state
      /\ s \in {"INIT", "EXTRACT_FROM_SAP"} => m.current_state \in {"INIT", "EXTRACT_FROM_SAP"}
  BY DEF Loading
<1> HIDE DEF x
<1>3. /\ x.current_state = s /\ x.total_rows = m.total_rows
      /\ x.pending_records = m.pending_records
      /\ x.desired_batch_size = m.desired_batch_size
      /\ x.current_batch_rows = m.current_batch_rows
  BY <1>1 DEF StateMachine
<1> HIDE DEF s
<1> QED BY <1>2, <1>3 DEF BoundsInv, LimitInv, x

(* A full batch that passes MAX_ROWS is sent only where the rest would be  *)
(* refused.                                                                *)
LEMMA OverfetchedBatch ==
  ASSUME NEW d \in Nat \ {0}, NEW t \in Nat, limit \in Nat, t < limit, nrows \in Nat,
         t % d = 0, d = NewStateMachine(limit).desired_batch_size,
         TrimmedActualBatchSize(d, t, limit) = d, t + d > limit, nrows > limit
  PROVE  Overfetched
<1> DEFINE r == limit - t
           V == STANDARD_VECTOR_SIZE
<1>1. d = IF limit <= MAX_BATCH_SIZE THEN limit ELSE V
  BY DEF NewStateMachine
<1>2. r \in Nat \ {0} /\ t + r = limit /\ r < d
  BY SMT
<1>3. CASE limit <= MAX_BATCH_SIZE
  <2>1. t % limit = 0 /\ d = limit
    BY <1>1, <1>3
  <2>2. t = 0
    BY <2>1, SMT
  <2> QED BY <2>1, <2>2
<1>4. CASE ~ (limit <= MAX_BATCH_SIZE)
  <2>1. d = V
    BY <1>1, <1>4
  <2>2. t % r # 0
    <3>1. TrimmedActualBatchSize(d, t, limit) =
            IF limit # 0 /\ t + d > limit /\ r > 0 /\ t % r = 0 THEN r ELSE d
      BY DEF TrimmedActualBatchSize
    <3> HIDE DEF r
    <3> QED BY <1>2, <3>1, SMT
  <2> HIDE DEF r
  <2>3. limit % V = r
    <3>1. r \in 0 .. d - 1
      BY <1>2
    <3>2. (t + r) % d = r
      BY <3>1, ModRest
    <3> QED BY <1>2, <2>1, <3>2
  <2>4. limit % r # 0
    <3>1. (t + r) % r = 0 => t % r = 0
      BY <1>2, ModSub
    <3> QED BY <1>2, <2>2, <3>1
  <2>5. limit > MAX_BATCH_SIZE
    BY <1>4, VectorSizeAssumption, SMT DEF MAX_BATCH_SIZE
  <2> QED BY <1>2, <2>3, <2>4, <2>5 DEF Overfetched
<1> QED BY <1>3, <1>4

LEMMA BatchReadBounds ==
  ASSUME NEW m, MachineInv(m, limit), DataInv(m), BoundsInv(m),
         m.current_state = "EXTRACT_FROM_SAP",
         nrows \in Nat, limit \in Nat, effective_max_batch_size \in Nat \ {0},
         NCols > 1 => WithinBudget(effective_max_batch_size),
         budgets_set \subseteq Budgets
  PROVE  BoundsInv(BatchRead(m))
<1> DEFINE d == m.desired_batch_size
           t == m.total_rows
           k == RowCount(m, limit)
           n == ServerRows(t, k)
           cap == effective_max_batch_size
           x == BatchRead(m)
           s == IF LastBatch(m, limit, n) THEN "FINAL_LOAD_TO_DUCKDB" ELSE "LOAD_TO_DUCKDB"
           e == IF limit = 0 THEN NextDesiredBatchSize(d, t + n, cap) ELSE d
<1>1. /\ m \in StateMachine /\ d \in Nat \ {0} /\ t \in Nat /\ m.pending_records = 0
      /\ t <= nrows /\ t % d = 0
  BY DEF MachineInv, DataInv, StateMachine
<1>2. k \in Nat \ {0} /\ k <= d /\ k = TrimmedActualBatchSize(d, t, limit)
  BY RowCountLegal DEF RowCount
<1> HIDE DEF k
<1>3. n \in Nat /\ n <= k /\ t + n <= nrows
  BY <1>1, <1>2, SMT DEF ServerRows, Smaller
<1>4. x = [m EXCEPT !.duck_count = 0, !.pending_records = n, !.current_batch_rows = n,
                    !.skip = t, !.current_state = s, !.desired_batch_size = e]
  <2>1. m.pending_records + n = n
    BY <1>1, <1>3
  <2> QED BY <1>1, <2>1 DEF BatchRead, Extracted, RowSkips, StateMachine, k
<1>5. s = "LOAD_TO_DUCKDB" /\ limit > 0 => t + n # limit
  <2>1. s = "LOAD_TO_DUCKDB" => ~ LastBatch(m, limit, n)
    OBVIOUS
  <2> HIDE DEF s, n
  <2> QED BY <2>1 DEF LastBatch
<1>6. s \in Loading
  BY DEF Loading
<1>7. limit > 0 => t < limit /\ d = NewStateMachine(limit).desired_batch_size
  BY DEF BoundsInv, LimitInv
<1> HIDE DEF n
<1>8. limit > 0 => t + n <= limit \/ Overfetched
  <2> SUFFICES ASSUME limit > 0, ~ (t + n <= limit) PROVE Overfetched
    OBVIOUS
  <2>1. nrows > limit /\ t + d > limit
    BY <1>1, <1>2, <1>3, SMT
  <2>2. k = d
    <3>1. k = d \/ k = limit - t
      BY <1>2 DEF TrimmedActualBatchSize
    <3> QED BY <1>1, <1>2, <1>3, <3>1, SMT
  <2> QED BY <1>1, <1>2, <1>7, <2>1, <2>2, OverfetchedBatch
<1>9. limit = 0 /\ NCols > 1 => WithinBudget(e) /\ WithinBudget(n)
  <2> SUFFICES ASSUME limit = 0, NCols > 1 PROVE WithinBudget(e) /\ WithinBudget(n)
    OBVIOUS
  <2>1. WithinBudget(d) /\ WithinBudget(cap) /\ cap \in Nat
    BY DEF BoundsInv
  <2>2. n <= d
    BY <1>1, <1>2, <1>3, SMT
  <2>3. e \in Nat /\ (e = d \/ e <= cap)
    BY <1>1, <1>3, <2>1, SMT DEF NextDesiredBatchSize, Smaller
  <2> QED BY <1>1, <1>3, <2>1, <2>2, <2>3, WithinBudgetDown
<1>10. limit > 0 => e = d
  OBVIOUS
<1> HIDE DEF x, s, e
<1>11. /\ x.current_state = s /\ x.total_rows = t /\ x.pending_records = n
       /\ x.current_batch_rows = n /\ x.desired_batch_size = e
  BY <1>1, <1>4 DEF StateMachine
<1> QED BY <1>5, <1>6, <1>7, <1>8, <1>9, <1>10, <1>11
        DEF BoundsInv, LimitInv, Loading, x

LEMMA LoadedBounds ==
  ASSUME NEW m, MachineInv(m, limit), DataInv(m), m.current_state \in Loading,
         nrows \in Nat, limit \in Nat, budgets_set \subseteq Budgets
  PROVE  LET x == Loaded(m, limit) IN
         /\ BoundsInv(m) => BoundsInv(x)
         /\ x.cardinality = 0 =>
              x.current_state = "FINISHED" \/ (x.current_state \in Loading /\ Stuck(x, limit))
<1> DEFINE V == STANDARD_VECTOR_SIZE
           r == LoadNextBatch(m, limit)
           p == m.pending_records
           t == m.total_rows
           x == Loaded(m, limit)
           s == IF p - r # 0 THEN m.current_state
                ELSE IF m.current_state = "FINAL_LOAD_TO_DUCKDB"
                  THEN "FINISHED" ELSE "EXTRACT_FROM_SAP"
           n == IF p - r = 0 /\ m.current_state = "FINAL_LOAD_TO_DUCKDB"
                  THEN 0 ELSE m.current_batch_rows
<1>1. /\ V \in Nat \ {0} /\ m \in StateMachine /\ p \in Nat /\ t \in Nat
      /\ m.current_batch_rows \in Nat
  BY VectorSizeAssumption DEF MachineInv, StateMachine
<1>2. /\ r \in 0 .. V /\ r <= p
      /\ limit > 0 => t + r <= limit
      /\ \/ Stuck(m, limit) /\ r = 0
         \/ limit > 0 /\ t + r = limit /\ r < p
         \/ m.current_batch_rows = BatchStart(m) + p /\ r = Smaller(V, p)
  BY LoadNextBatchBounds DEF Loading
<1> HIDE DEF r
<1>3. x = [m EXCEPT !.cardinality = r, !.first = m.skip + BatchStart(m),
                    !.duck_count = m.duck_count + 1, !.pending_records = p - r,
                    !.total_rows = t + r, !.current_batch_rows = n, !.current_state = s]
  BY <1>1 DEF Loaded, StateMachine, r
<1> HIDE DEF x, s, n
<1>4. /\ x.current_state = s /\ x.total_rows = t + r /\ x.pending_records = p - r
      /\ x.cardinality = r /\ x.current_batch_rows = n
      /\ x.desired_batch_size = m.desired_batch_size
  BY <1>1, <1>3 DEF StateMachine
<1>5. (t + r) + (p - r) = t + p
  BY <1>1, <1>2, SMT
<1>6. n \in {0, m.current_batch_rows} /\ (s = "FINISHED" => n = 0)
  BY DEF s, n, Loading
<1>7. /\ s \in Loading => s = m.current_state
      /\ s # "INIT"
      /\ s = "EXTRACT_FROM_SAP" => m.current_state = "LOAD_TO_DUCKDB" /\ p - r = 0
  BY DEF s, Loading
<1>8. BoundsInv(m) /\ limit > 0 => LimitInv(x)
  <2> SUFFICES ASSUME BoundsInv(m), limit > 0 PROVE LimitInv(x)
    OBVIOUS
  <2>1. LimitInv(m)
    BY DEF BoundsInv
  <2>2. s = "EXTRACT_FROM_SAP" => t + r < limit
    <3>1. s = "EXTRACT_FROM_SAP" => t + p # limit /\ r = p
      BY <1>1, <1>2, <1>7, <2>1, SMT DEF LimitInv
    <3> QED BY <1>1, <1>2, <3>1, SMT
  <2> QED BY <1>4, <1>5, <1>7, <2>1, <2>2 DEF LimitInv, Loading
<1>9. BoundsInv(m) /\ limit = 0 /\ NCols > 1 =>
        WithinBudget(x.desired_batch_size) /\ WithinBudget(x.current_batch_rows)
  BY <1>1, <1>4, <1>6, WithinBudgetDown DEF BoundsInv
<1>10. r = 0 => s = "FINISHED" \/ (s \in Loading /\ Stuck(x, limit))
  <2> SUFFICES ASSUME r = 0 PROVE s = "FINISHED" \/ (s \in Loading /\ Stuck(x, limit))
    OBVIOUS
  <2>1. CASE p = 0
    <3>1. m.current_state = "FINAL_LOAD_TO_DUCKDB"
      BY <2>1 DEF DataInv, Loading
    <3> QED BY <2>1, <3>1 DEF s
  <2>2. CASE p # 0
    <3>1. s = m.current_state
      BY <1>1, <2>2, SMT DEF s
    <3>2. limit > 0 /\ t = limit
      BY <1>1, <1>2, <2>2, SMT DEF Stuck, Smaller
    <3> QED BY <1>1, <1>4, <2>2, <3>1, <3>2 DEF Stuck
  <2> QED BY <2>1, <2>2
<1> QED BY <1>4, <1>6, <1>8, <1>9, <1>10 DEF BoundsInv, x

-----------------------------------------------------------------------------
(* The scan.                                                               *)

LEMMA InitResources == Init => ResourceInv
<1> SUFFICES ASSUME Init PROVE ResourceInv
  OBVIOUS
<1>1. limit \in Nat /\ \A c \in Cols : sm[c] = NewStateMachine(limit)
  BY InitInv, Constants DEF Init
<1>2. \A c \in Cols : BoundsInv(sm[c])
  BY <1>1, NewBounds
<1> QED BY <1>2 DEF Init, ResourceInv, ReleasedAtEnd

(* A column whose task runs holds rows of the table in their place.        *)
LEMMA RunningData ==
  ASSUME Inv, ScanInv, NEW c \in Cols, task[c] = "running"
  PROVE  phase = "stepping" /\ DataInv(sm[c])
<1>1. phase = "stepping"
  BY DEF ScanInv
<1>2. PICK m \in StateMachine : Common(m) /\ \A e \in Cols : TaskInv(e, m)
  BY <1>1 DEF ScanInv
<1>3. DataInv(Started(m)) /\ DataInv(Advanced(m))
  BY <1>2, Constants, StartedData, AdvancedData DEF Common
<1> QED BY <1>1, <1>2, <1>3 DEF TaskInv

(* A bound that held holds on, as long as no budget of the scan is         *)
(* forgotten.                                                              *)
LEMMA BoundsKept ==
  ASSUME UNCHANGED <<nrows, limit>>, budgets_set \subseteq budgets_set'
  PROVE  /\ \A n : WithinBudget(n) => WithinBudget(n)'
         /\ \A m : BoundsInv(m) => BoundsInv(m)'
<1>1. \A n : WithinBudget(n) => WithinBudget(n)'
  BY DEF WithinBudget
<1>2. \A m : LimitInv(m)' = LimitInv(m)
  BY DEF LimitInv, Overfetched
<1> QED BY <1>1, <1>2 DEF BoundsInv

(* A task changes its own machine, and the scan has not ended.             *)
LEMMA TaskResources ==
  ASSUME Inv, ResourceInv, NEW c \in Cols, NEW x, BoundsInv(x), phase # "ended",
         sm' = [sm EXCEPT ![c] = x],
         UNCHANGED <<nrows, limit, budgets_set, effective_max_batch_size, phase>>
  PROVE  ResourceInv'
<1>1. \A e \in Cols : BoundsInv(sm'[e])
  BY Constants DEF ResourceInv
<1>2. /\ \A n : WithinBudget(n) => WithinBudget(n)'
      /\ \A m : BoundsInv(m) => BoundsInv(m)'
  BY BoundsKept
<1> QED BY <1>1, <1>2 DEF ResourceInv, ReleasedAtEnd

LEMMA NextResources == Inv /\ ScanInv /\ ResourceInv /\ [Next]_vars => ResourceInv'
<1> SUFFICES ASSUME Inv, ScanInv, ResourceInv, [Next]_vars PROVE ResourceInv'
  OBVIOUS
<1>0. /\ nrows \in Nat /\ limit \in Nat /\ effective_max_batch_size \in Nat \ {0}
      /\ sm \in [Cols -> StateMachine] /\ NCols \in Nat /\ 1 \in Cols
      /\ \A c \in Cols : MachineInv(sm[c], limit)
      /\ budgets_set \subseteq Budgets
  BY Constants DEF Inv, TypeOK
<1>1. ASSUME UNCHANGED <<nrows, limit, sm>>, budgets_set \subseteq budgets_set',
             phase' = "stepping" => UNCHANGED <<phase, effective_max_batch_size>>,
             ReleasedAtEnd'
      PROVE  ResourceInv'
  <2>1. /\ \A n : WithinBudget(n) => WithinBudget(n)'
        /\ \A m : BoundsInv(m) => BoundsInv(m)'
    BY <1>1, BoundsKept
  <2>2. effective_max_batch_size' = effective_max_batch_size \/ phase' # "stepping"
    BY <1>1
  <2>3. \A c \in Cols : BoundsInv(sm[c])'
    BY <1>1, <2>1 DEF ResourceInv
  <2>4. phase' = "stepping" /\ NCols > 1 => WithinBudget(effective_max_batch_size)'
    BY <1>1, <2>1 DEF ResourceInv
  <2> QED BY <1>1, <2>3, <2>4 DEF ResourceInv
<1>2. CASE BeginStep
  <2>1. UNCHANGED <<nrows, limit, budgets_set, sm>> /\ phase' = "stepping"
    BY <1>2 DEF BeginStep, parameters, setting
  <2>2. /\ \A n : WithinBudget(n) => WithinBudget(n)'
        /\ \A m : BoundsInv(m) => BoundsInv(m)'
    BY <2>1, BoundsKept
  <2>3. NCols > 1 => WithinBudget(effective_max_batch_size')
    BY <1>0, <1>2, CapWithinBudget DEF BeginStep, Inv, TypeOK
  <2> QED BY <2>1, <2>2, <2>3 DEF ResourceInv, ReleasedAtEnd
<1>3. CASE NextGroup \/ StepRaises
  BY <1>1, <1>3 DEF NextGroup, StepRaises, parameters, setting, ReleasedAtEnd
<1>4. CASE EndStep
  <2>1. CASE phase' # "ended"
    BY <1>1, <1>4, <2>1 DEF EndStep, parameters, setting, ReleasedAtEnd
  <2>2. CASE phase' = "ended"
    <3>1. PICK m \in StateMachine : /\ Common(m)
                                    /\ \A c \in Cols : sm[c] = Loaded(Advanced(m), limit)
      BY <1>4, StepDone
    <3> DEFINE a == Advanced(m)
               x == Loaded(a, limit)
    <3>2. \A c \in Cols : sm[c] = x
      BY <3>1
    <3>3. x.cardinality = 0 /\ BoundsInv(x)
      BY <1>0, <1>4, <2>2, <3>2 DEF EndStep, ResourceInv
    <3>4. MachineInv(a, limit) /\ DataInv(a) /\ a.current_state \in Loading
      BY <1>0, <3>1, AdvancedData
    <3> HIDE DEF a
    <3>5. x.current_state = "FINISHED" \/ (x.current_state \in Loading /\ Stuck(x, limit))
      BY <1>0, <3>3, <3>4, LoadedBounds
    <3> HIDE DEF x
    <3>6. ~ Overfetched => x.current_state = "FINISHED"
      <4>1. x.pending_records \in Nat /\ x.total_rows \in Nat
        BY <1>0, <3>2 DEF StateMachine
      <4>2. x.current_state \in Loading /\ Stuck(x, limit) => Overfetched
        BY <1>0, <3>3, <4>1, SMT DEF Stuck, BoundsInv, LimitInv
      <4> QED BY <3>5, <4>2
    <3>7. UNCHANGED <<nrows, limit, budgets_set, sm>>
      BY <1>4 DEF EndStep, parameters, setting
    <3>8. ReleasedAtEnd'
      BY <3>2, <3>3, <3>6, <3>7 DEF ReleasedAtEnd, BoundsInv, Overfetched
    <3> QED BY <1>1, <2>2, <3>7, <3>8
  <2> QED BY <2>1, <2>2
<1>5. CASE ReturnEmpty
  <2>1. \A c \in Cols : sm[c].current_state = "FINISHED" /\ sm[c].current_batch_rows = 0
    BY <1>5 DEF ReturnEmpty, HasMoreResults, ResourceInv, BoundsInv
  <2> QED BY <1>1, <1>5, <2>1 DEF ReturnEmpty, parameters, setting, ReleasedAtEnd
<1>6. ASSUME NEW c \in Cols, StartTask(c) PROVE ResourceInv'
  <2>1. phase # "ended"
    BY <1>6 DEF StartTask, ScanInv
  <2>2. BoundsInv(Started(sm[c]))
    BY <1>0, StartedBounds DEF ResourceInv
  <2> QED BY <1>6, <2>1, <2>2, TaskResources DEF StartTask, parameters, setting
<1>7. ASSUME NEW c \in Cols, ReadBatch(c) PROVE ResourceInv'
  <2>1. phase = "stepping" /\ DataInv(sm[c])
    BY <1>7, RunningData DEF ReadBatch
  <2>2. BoundsInv(BatchRead(sm[c]))
    BY <1>0, <1>7, <2>1, BatchReadBounds DEF ReadBatch, ResourceInv
  <2> QED BY <1>7, <2>1, <2>2, TaskResources DEF ReadBatch, BatchRead, parameters, setting
<1>8. ASSUME NEW c \in Cols, LoadVector(c) PROVE ResourceInv'
  <2>1. phase = "stepping" /\ DataInv(sm[c])
    BY <1>8, RunningData DEF LoadVector
  <2>2. BoundsInv(Loaded(sm[c], limit))
    BY <1>0, <1>8, <2>1, LoadedBounds DEF LoadVector, ResourceInv, Loading
  <2> QED BY <1>8, <2>1, <2>2, TaskResources DEF LoadVector, parameters, setting
<1>9. CASE SetBudget \/ UNCHANGED vars \/ \E c \in Cols : SkipTask(c) \/ TaskRaises(c)
  <2>1. /\ UNCHANGED <<nrows, limit, sm, effective_max_batch_size, phase>>
        /\ budgets_set \subseteq budgets_set'
    BY <1>9 DEF SetBudget, SkipTask, TaskRaises, vars, parameters, setting
  <2> QED BY <1>1, <2>1 DEF ResourceInv, ReleasedAtEnd, Overfetched
<1> QED
  BY <1>2, <1>3, <1>4, <1>5, <1>6, <1>7, <1>8, <1>9 DEF Next, Step, Task

(* The bounds of every machine hold in every state of a scan, together with *)
(* the accounting of its batches and the schedule of its tasks: the         *)
(* invariant the two theorems below are read off from.                      *)
THEOREM ResourceInvariance == Spec => [](Inv /\ ScanInv /\ ResourceInv)
BY InitResources, NextResources, InitInv, NextInv, ScanInit, ScanNext, PTL DEF Spec

(* Whatever budgets are set during a scan, the resident batches of all its *)
(* columns are within one of those in force meanwhile: the bound on the    *)
(* SDK's buffers.                                                          *)
THEOREM BuffersAlwaysWithinBudget == Spec => []BuffersWithinBudget
<1>1. Inv /\ ResourceInv => BuffersWithinBudget
  BY DEF ResourceInv, BoundsInv, WithinBudget, BuffersWithinBudget
<1> QED BY <1>1, ResourceInvariance, PTL

(* A scan that has ended holds no connection and no result table, unless   *)
(* MAX_ROWS made it over-fetch its last batch.                             *)
THEOREM AlwaysReleased == Spec => []ReleasedAtEnd
<1>1. ResourceInv => ReleasedAtEnd
  BY DEF ResourceInv
<1> QED BY <1>1, ResourceInvariance, PTL
=============================================================================
