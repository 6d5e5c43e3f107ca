------------------------- MODULE PositionSyncProofs -------------------------
(***************************************************************************)
(* Theorems about PositionSync, for every set of keys, every set of        *)
(* amounts and every tolerance.                                            *)
(***************************************************************************)
EXTENDS PositionSync, TLAPS

\* The rows a comparison works with are the rows there are: nothing is written between
\* list_positions and the answer of the exchange.
LocalIsRows ==
    pc = "fetch" => local = {s \in Snapshots : rows[s.key] = s.amount /\ s.amount # 0}

\* While no position has moved since the refresh asked the exchange, the row of an open
\* position is what the exchange said or is about to be written, and none is left to
\* write afterwards.
RefreshGoesThrough ==
    refreshes /\ moves = lastFetch =>
        /\ pc = "refresh" =>
               /\ todo \subseteq Current
               /\ \A s \in Open : rows[s.key] = s.amount \/ s \in todo
        /\ pc \in {"orders", "fetch"} => \A s \in Open : rows[s.key] = s.amount

-----------------------------------------------------------------------------
(***************************************************************************)
(* Types.                                                                  *)
(***************************************************************************)
LEMMA AnswersAreSnapshots == \A listed \in Answers : listed \subseteq Snapshots
BY DEF Answers, Current

LEMMA TypeStep == TypeOK /\ [Next]_vars => TypeOK'
<1> SUFFICES ASSUME TypeOK, [Next]_vars PROVE TypeOK'
  OBVIOUS
<1> USE SyncAssumption DEF TypeOK, process
<1>1. CASE FetchForRefresh
  BY <1>1, AnswersAreSnapshots DEF FetchForRefresh
<1>2. ASSUME NEW s \in Snapshots, UpsertPosition(s) PROVE TypeOK'
  BY <1>2 DEF UpsertPosition, Snapshots
<1>3. CASE RefreshRaises
  BY <1>3 DEF RefreshRaises
<1>4. ASSUME NEW off \in BOOLEAN, ReconcileOrders(off) PROVE TypeOK'
  BY <1>4 DEF ReconcileOrders
<1>5. CASE ListPositions
  BY <1>5 DEF ListPositions
<1>6. CASE FetchAndCompare
  BY <1>6 DEF FetchAndCompare, NextIteration
<1>7. CASE ReconcileFails
  BY <1>7 DEF ReconcileFails, NextIteration
<1>8. ASSUME NEW k \in Keys, NEW amount \in Amounts, PositionMoves(k, amount) PROVE TypeOK'
  BY <1>8 DEF PositionMoves
<1>9. CASE Restart
  <2>1. restarts' \in 0..MaxRestarts
    BY <1>9 DEF Restart
  <2> QED  BY <1>9, <2>1 DEF Restart
<1>10. CASE UNCHANGED vars
  BY <1>10 DEF vars
<1> QED
  BY <1>1, <1>2, <1>3, <1>4, <1>5, <1>6, <1>7, <1>8, <1>9, <1>10 DEF Next, DaemonNext

LEMMA TypeInit == Init => TypeOK
<1> SUFFICES ASSUME Init PROVE TypeOK
  OBVIOUS
<1>1. MaxMoves \in Nat /\ MaxRestarts \in Nat
  BY SyncAssumption
<1>2. restarts \in 0..MaxRestarts /\ moves \in 0..MaxMoves /\ lastFetch \in 0..moves
  BY <1>1 DEF Init
<1> QED  BY <1>2 DEF Init, TypeOK

\* The daemon's state, the rows and what an iteration holds keep their types.
THEOREM SyncTypeCorrect == Spec => []TypeOK
BY TypeInit, TypeStep, PTL DEF Spec

-----------------------------------------------------------------------------
(***************************************************************************)
(* The comparison.                                                         *)
(***************************************************************************)
LEMMA LocalIsRowsStep == LocalIsRows /\ [Next]_vars => LocalIsRows'
<1> SUFFICES ASSUME LocalIsRows, [Next]_vars PROVE LocalIsRows'
  OBVIOUS
<1> USE DEF LocalIsRows, process
<1>1. CASE ListPositions
  BY <1>1 DEF ListPositions
<1>2. CASE FetchForRefresh \/ RefreshRaises
  BY <1>2 DEF FetchForRefresh, RefreshRaises
<1>3. ASSUME NEW s \in Snapshots, UpsertPosition(s) PROVE LocalIsRows'
  BY <1>3 DEF UpsertPosition
<1>4. ASSUME NEW off \in BOOLEAN, ReconcileOrders(off) PROVE LocalIsRows'
  BY <1>4 DEF ReconcileOrders
<1>5. CASE FetchAndCompare \/ ReconcileFails
  BY <1>5 DEF FetchAndCompare, ReconcileFails, NextIteration
<1>6. ASSUME NEW k \in Keys, NEW amount \in Amounts, PositionMoves(k, amount)
      PROVE  LocalIsRows'
  BY <1>6 DEF PositionMoves
<1>7. CASE Restart
  BY <1>7 DEF Restart
<1>8. CASE UNCHANGED vars
  BY <1>8 DEF vars
<1> QED
  BY <1>1, <1>2, <1>3, <1>4, <1>5, <1>6, <1>7, <1>8 DEF Next, DaemonNext

LEMMA AbsOfFlat == ~ (Abs(0 - 0) > Tolerance)
BY SyncAssumption DEF Abs

\* The comparison of the lists, which leave flat positions out, is that of the amounts.
LEMMA AgreeMeansNoDifference ==
    ASSUME TypeOK,
           NEW mine, mine = {s \in Snapshots : rows[s.key] = s.amount /\ s.amount # 0},
           NEW theirs, theirs = Open
    PROVE  Agree(mine, theirs) <=> \A k \in Keys : ~ Differs(k)
<1> DEFINE Row(k) == [key |-> k, amount |-> RowAmount(k)]
           Position(k) == [key |-> k, amount |-> positions[k]]
<1>1. \A k \in Keys : /\ RowAmount(k) \in Amounts /\ positions[k] \in Amounts
                      /\ RowAmount(k) \in Int /\ positions[k] \in Int
  BY SyncAssumption DEF TypeOK, RowAmount
<1>2. \A s : s \in mine <=> \E k \in Keys : s = Row(k) /\ RowAmount(k) # 0
  BY <1>1, SyncAssumption DEF Snapshots, RowAmount
<1>3. \A t : t \in theirs <=> \E k \in Keys : t = Position(k) /\ positions[k] # 0
  BY <1>1 DEF Snapshots, Current, Open
<1> HIDE DEF Row, Position
<1>4. \A k : /\ Row(k).key = k /\ Row(k).amount = RowAmount(k)
             /\ Position(k).key = k /\ Position(k).amount = positions[k]
  BY DEF Row, Position
<1>5. ASSUME Agree(mine, theirs), NEW k \in Keys PROVE ~ Differs(k)
  <2>1. RowAmount(k) # 0 <=> \E s \in mine : s.key = k
    BY <1>2, <1>4
  <2>2. positions[k] # 0 <=> \E t \in theirs : t.key = k
    BY <1>3, <1>4
  <2>3. RowAmount(k) # 0 <=> positions[k] # 0
    BY <1>5, <2>1, <2>2 DEF Agree
  <2>4. CASE RowAmount(k) = 0
    BY <2>3, <2>4, AbsOfFlat DEF Differs
  <2>5. CASE RowAmount(k) # 0
    <3>1. Row(k) \in mine /\ Position(k) \in theirs
      BY <1>2, <1>3, <2>3, <2>5
    <3>2. Abs(RowAmount(k) - positions[k]) <= Tolerance
      BY <1>5, <1>4, <3>1 DEF Agree
    <3>3. ~ (Abs(RowAmount(k) - positions[k]) > Tolerance)
      <4>1. Abs(RowAmount(k) - positions[k]) \in Int /\ Tolerance \in Int
        BY <1>1, SyncAssumption DEF Abs
      <4> QED  BY <3>2, <4>1
    <3> QED  BY <2>3, <3>3 DEF Differs
  <2> QED  BY <2>4, <2>5
<1>6. ASSUME \A k \in Keys : ~ Differs(k) PROVE Agree(mine, theirs)
  <2>1. \A k \in Keys : /\ RowAmount(k) = 0 <=> positions[k] = 0
                        /\ Abs(RowAmount(k) - positions[k]) <= Tolerance
    <3> TAKE k \in Keys
    <3>1. Abs(RowAmount(k) - positions[k]) \in Int /\ Tolerance \in Int
      BY <1>1, SyncAssumption DEF Abs
    <3> QED  BY <1>6, <3>1 DEF Differs
  <2>2. {s.key : s \in mine} = {t.key : t \in theirs}
    <3>1. \A x : x \in {s.key : s \in mine} <=> x \in Keys /\ RowAmount(x) # 0
      BY <1>2, <1>4
    <3>2. \A x : x \in {t.key : t \in theirs} <=> x \in Keys /\ positions[x] # 0
      BY <1>3, <1>4
    <3> QED  BY <2>1, <3>1, <3>2
  <2>3. \A s \in mine, t \in theirs : s.key = t.key => Abs(s.amount - t.amount) <= Tolerance
    BY <1>2, <1>3, <1>4, <2>1
  <2> QED  BY <2>2, <2>3 DEF Agree
<1> QED  BY <1>5, <1>6

\* Whatever moved between the reads, a comparison is consistent exactly when no row
\* differs from its position as the exchange answers
\* (position_reconciliation.py:42-81).
THEOREM PositionAuditsAreExact == Spec => PositionAuditExact
<1> DEFINE IInv == TypeOK /\ LocalIsRows
           Step == pc = "fetch" /\ pc' # "fetch" /\ report' \in {"consistent", "mismatch"} =>
                       (report' = "consistent" <=> \A k \in Keys : ~ Differs(k))
<1>1. Init => IInv
  BY TypeInit DEF Init, LocalIsRows
<1>2. IInv /\ [Next]_vars => IInv'
  BY TypeStep, LocalIsRowsStep
<1>3. IInv /\ [Next]_vars => [Step]_vars
  <2> SUFFICES ASSUME IInv, Next, pc = "fetch", pc' # "fetch",
                      report' \in {"consistent", "mismatch"}
               PROVE  report' = "consistent" <=> \A k \in Keys : ~ Differs(k)
    OBVIOUS
  <2>1. FetchAndCompare
    BY DEF Next, DaemonNext, FetchForRefresh, UpsertPosition, RefreshRaises, ReconcileOrders,
           ListPositions, ReconcileFails, PositionMoves, Restart
  <2>2. report' = "consistent" <=> Agree(local, Open)
    BY <2>1 DEF FetchAndCompare
  <2>3. Agree(local, Open) <=> \A k \in Keys : ~ Differs(k)
    BY AgreeMeansNoDifference DEF LocalIsRows
  <2> QED  BY <2>2, <2>3
<1>4. Spec => [][Step]_vars
  <2> HIDE DEF IInv, Step
  <2> QED  BY <1>1, <1>2, <1>3, PTL DEF Spec
<1> QED  BY <1>4, PTL DEF PositionAuditExact, Step

-----------------------------------------------------------------------------
(***************************************************************************)
(* The refresh.                                                            *)
(***************************************************************************)
LEMMA RefreshStep == TypeOK /\ RefreshGoesThrough /\ [Next]_vars => RefreshGoesThrough'
<1> SUFFICES ASSUME TypeOK, RefreshGoesThrough, [Next]_vars
             PROVE  RefreshGoesThrough'
  OBVIOUS
<1> USE DEF process
<1>1. CASE FetchForRefresh
  <2>1. /\ pc' = "refresh" /\ todo' \in Answers
        /\ Current' = Current /\ Open' = Open
    BY <1>1 DEF FetchForRefresh, Current, Open
  <2> QED
    BY <2>1 DEF RefreshGoesThrough, Answers
<1>2. ASSUME NEW s \in Snapshots, UpsertPosition(s) PROVE RefreshGoesThrough'
  <2>1. /\ pc = "refresh" /\ pc' = "refresh" /\ s \in todo /\ todo' = todo \ {s}
        /\ rows' = [rows EXCEPT ![s.key] = s.amount]
        /\ moves' = moves /\ lastFetch' = lastFetch /\ refreshes' = refreshes
        /\ Current' = Current /\ Open' = Open
    BY <1>2 DEF UpsertPosition, Current, Open
  <2>2. ASSUME refreshes, moves = lastFetch
        PROVE  /\ todo' \subseteq Current'
               /\ \A t \in Open' : rows'[t.key] = t.amount \/ t \in todo'
    <3>1. /\ todo \subseteq Current
          /\ \A t \in Open : rows[t.key] = t.amount \/ t \in todo
      BY <2>1, <2>2 DEF RefreshGoesThrough
    <3>2. s \in Current /\ Open \subseteq Current
      BY <2>1, <3>1 DEF Open
    <3>3. \A t \in Current : /\ t.key = s.key => t.amount = s.amount
                             /\ t.key \in Keys
      BY <3>2 DEF Current, Snapshots
    <3>4. \A k \in Keys : rows'[k] = IF k = s.key THEN s.amount ELSE rows[k]
      BY <2>1 DEF TypeOK
    <3>5. \A t \in Open : rows'[t.key] = t.amount \/ t \in todo'
      <4> TAKE t \in Open
      <4>1. CASE t.key = s.key
        BY <3>2, <3>3, <3>4, <4>1
      <4>2. CASE t.key # s.key
        BY <2>1, <3>1, <3>2, <3>3, <3>4, <4>2
      <4> QED  BY <4>1, <4>2
    <3> QED  BY <2>1, <3>1, <3>5
  <2> QED  BY <2>1, <2>2 DEF RefreshGoesThrough
<1>3. CASE RefreshRaises
  BY <1>3 DEF RefreshRaises, RefreshGoesThrough
<1>4. ASSUME NEW off \in BOOLEAN, ReconcileOrders(off) PROVE RefreshGoesThrough'
  BY <1>4 DEF ReconcileOrders, RefreshGoesThrough, Current, Open
<1>5. CASE ListPositions
  BY <1>5 DEF ListPositions, RefreshGoesThrough, Current, Open
<1>6. CASE FetchAndCompare \/ ReconcileFails
  BY <1>6 DEF FetchAndCompare, ReconcileFails, NextIteration, RefreshGoesThrough
<1>7. ASSUME NEW k \in Keys, NEW amount \in Amounts, PositionMoves(k, amount)
      PROVE  RefreshGoesThrough'
  <2>1. moves' # lastFetch'
    BY <1>7, SyncAssumption DEF PositionMoves, TypeOK
  <2> QED  BY <1>7, <2>1 DEF PositionMoves, RefreshGoesThrough
<1>8. CASE Restart
  BY <1>8 DEF Restart, RefreshGoesThrough
<1>9. CASE UNCHANGED vars
  BY <1>9 DEF vars, RefreshGoesThrough, Current, Open
<1> QED
  BY <1>1, <1>2, <1>3, <1>4, <1>5, <1>6, <1>7, <1>8, <1>9 DEF Next, DaemonNext

\* Whichever flat positions the exchange lists: after a refresh, until a position moves,
\* a row that differs is the row of a position that is flat
\* (position_reconciliation.py:83-87).
THEOREM OnlyRowsOfFlatStay == Spec => []OnlyFlatRowsStay
<1> DEFINE IInv == TypeOK /\ RefreshGoesThrough
<1>1. Init => IInv
  BY TypeInit DEF Init, RefreshGoesThrough
<1>2. IInv /\ [Next]_vars => IInv'
  BY TypeStep, RefreshStep
<1>3. IInv => OnlyFlatRowsStay
  <2> SUFFICES ASSUME IInv, refreshes, pc \in {"orders", "fetch"}, moves = lastFetch,
                      NEW k \in Keys, positions[k] # 0
               PROVE  ~ Differs(k)
    BY DEF OnlyFlatRowsStay
  <2>1. [key |-> k, amount |-> positions[k]] \in Open
    BY DEF TypeOK, Open, Current, Snapshots
  <2>2. rows[k] = positions[k] /\ positions[k] \in Int
    BY <2>1, SyncAssumption DEF RefreshGoesThrough, TypeOK
  <2>3. RowAmount(k) = positions[k]
    BY <2>2, SyncAssumption DEF RowAmount, TypeOK
  <2>4. positions[k] - positions[k] = 0
    BY <2>2
  <2>5. ~ (Abs(RowAmount(k) - positions[k]) > Tolerance)
    BY <2>3, <2>4, SyncAssumption DEF Abs
  <2> QED  BY <2>3, <2>5 DEF Differs
<1> HIDE DEF IInv
<1> QED  BY <1>1, <1>2, <1>3, PTL DEF Spec

=============================================================================
