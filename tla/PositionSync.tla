---------------------------- MODULE PositionSync ----------------------------
(***************************************************************************)
(* The other half of a daemon iteration: DaemonRunner.run_once refreshes   *)
(* the rows of table positions from the exchange, if it is configured to,  *)
(* reconciles the orders (here: any outcome) and then PositionReconciler   *)
(* compares the rows with the exchange's positions, which move all the     *)
(* while.  A refresh commits one row at a time and may stop anywhere.      *)
(*                                                                         *)
(* A key is a symbol and position side, an amount a signed number of lots. *)
(***************************************************************************)
EXTENDS Integers

CONSTANTS
    Keys,            \* (symbol, position side) pairs
    Amounts,         \* amounts a position may have: negative ones are short
    Tolerance,       \* PositionReconciler.amount_tolerance
    MaxMoves,        \* bound: how often the exchange's positions change
    MaxRestarts,     \* bound: how often the daemon is started again
    None             \* no row

VARIABLES
    refreshes,  \* DaemonConfig.refresh_positions_before_reconcile of this process
    stops,      \* DaemonConfig.stop_on_mismatch of this process
    positions,  \* the exchange's positions
    rows,       \* table positions (durable)
    safe,       \* the daemon's SafeModeController.state
    pc,         \* where the daemon is suspended
    todo,       \* refresh: the snapshots fetched and not yet written
    local,      \* reconcile: the rows list_positions() returned
    ordersOff,  \* TRUE: this iteration's order report is inconsistent
    report,     \* outcome of the last position comparison
    moves,      \* number of changes of the exchange's positions so far
    lastFetch,  \* history: moves at the last fetch of a refresh
    restarts    \* number of restarts so far

process == <<refreshes, stops, restarts>>
vars == <<process, positions, rows, safe, pc, todo, local, ordersOff, report, moves,
          lastFetch>>

Snapshots == [key: Keys, amount: Amounts]
Abs(n) == IF n < 0 THEN -n ELSE n

ASSUME SyncAssumption ==
    /\ Amounts \subseteq Int /\ 0 \in Amounts
    /\ {Tolerance, MaxMoves, MaxRestarts} \subseteq Nat
    /\ None \notin Amounts

\* Rows may be left from refreshes of earlier processes.
Init ==
    /\ refreshes \in BOOLEAN /\ stops \in BOOLEAN /\ restarts = 0
    /\ positions \in [Keys -> Amounts]
    /\ rows \in [Keys -> Amounts \cup {None}]
    /\ safe = "NORMAL"
    /\ pc = "idle"
    /\ todo = {}
    /\ local = {}
    /\ ordersOff = FALSE
    /\ report = "none"
    /\ moves = 0
    /\ lastFetch = 0

Current == {s \in Snapshots : s.amount = positions[s.key]}
Open == {s \in Current : s.amount # 0}

\* What fetch_position_snapshots() may return: every open position, and any of the
\* flat ones.
Answers == {listed \in SUBSET Current : Open \subseteq listed}

-----------------------------------------------------------------------------
(***************************************************************************)
(* refresh_local_positions_from_exchange.                                  *)
(***************************************************************************)
FetchForRefresh ==
    /\ pc = "idle" /\ refreshes
    /\ todo' \in Answers
    /\ lastFetch' = moves
    /\ pc' = "refresh"
    /\ UNCHANGED <<process, positions, rows, safe, local, ordersOff, report, moves>>

\* Mutation: INSERT ... ON CONFLICT DO NOTHING.
UpsertPositionOnce(s) ==
    /\ pc = "refresh" /\ s \in todo
    /\ rows' = [rows EXCEPT ![s.key] = IF @ = None THEN s.amount ELSE @]
    /\ todo' = todo \ {s}
    /\ UNCHANGED <<process, positions, safe, pc, local, ordersOff, report, moves, lastFetch>>

\* One upsert_position, which commits.
UpsertPosition(s) ==
    /\ pc = "refresh" /\ s \in todo
    /\ rows' = [rows EXCEPT ![s.key] = s.amount]
    /\ todo' = todo \ {s}
    /\ UNCHANGED <<process, positions, safe, pc, local, ordersOff, report, moves, lastFetch>>

\* The refresh is outside every try: its exception ends the daemon.
RefreshRaises ==
    /\ (pc = "idle" /\ refreshes) \/ pc = "refresh"
    /\ pc' = "dead"
    /\ todo' = {}
    /\ UNCHANGED <<process, positions, rows, safe, local, ordersOff, report, moves, lastFetch>>

-----------------------------------------------------------------------------
(***************************************************************************)
(* The comparison.                                                         *)
(***************************************************************************)
\* reconcile_open_orders, of which this module keeps the outcome.
ReconcileOrders(off) ==
    /\ (pc = "idle" /\ ~ refreshes) \/ (pc = "refresh" /\ todo = {})
    /\ ordersOff' = off
    /\ safe' = IF off THEN "SAFE_MODE" ELSE safe
    /\ pc' = "orders"
    /\ UNCHANGED <<process, positions, rows, todo, local, report, moves, lastFetch>>

\* Mutation: a key without a row is listed too.
ListPositionsAll ==
    /\ pc = "orders"
    /\ local' = {[key |-> k, amount |-> rows[k]] : k \in Keys}
    /\ pc' = "fetch"
    /\ UNCHANGED <<process, positions, rows, safe, todo, ordersOff, report, moves, lastFetch>>

\* list_positions(include_flat=False).
ListPositions ==
    /\ pc = "orders"
    /\ local' = {s \in Snapshots : rows[s.key] = s.amount /\ s.amount # 0}
    /\ pc' = "fetch"
    /\ UNCHANGED <<process, positions, rows, safe, todo, ordersOff, report, moves, lastFetch>>

\* Mutation: positions without a row are not looked for.
AgreeOnRows(mine, theirs) ==
    \A s \in mine : \E t \in theirs :
        s.key = t.key /\ Abs(s.amount - t.amount) <= Tolerance

\* No key is missing on the exchange, unknown locally or off by too much.
Agree(mine, theirs) ==
    /\ {s.key : s \in mine} = {t.key : t \in theirs}
    /\ \A s \in mine, t \in theirs :
           s.key = t.key => Abs(s.amount - t.amount) <= Tolerance

NextIteration(positionsOff) ==
    pc' = IF stops /\ (ordersOff \/ positionsOff) THEN "stopped" ELSE "idle"

\* Flat positions in the answer are left out of the comparison.
FetchAndCompare ==
    /\ pc = "fetch"
    /\ \/ /\ Agree(local, Open)
          /\ report' = "consistent"
          /\ NextIteration(FALSE)
          /\ UNCHANGED safe
       \/ /\ ~ Agree(local, Open)
          /\ report' = "mismatch"
          /\ NextIteration(TRUE)
          /\ safe' = "SAFE_MODE"
    /\ local' = {}
    /\ UNCHANGED <<process, positions, rows, todo, ordersOff, moves, lastFetch>>

\* Mutation: an exception is reported but SAFE_MODE is not entered.
ReconcileFailsQuietly ==
    /\ pc \in {"orders", "fetch"}
    /\ report' = "failed"
    /\ NextIteration(TRUE)
    /\ local' = {}
    /\ UNCHANGED <<process, positions, rows, safe, todo, ordersOff, moves, lastFetch>>

\* Either read raises.
ReconcileFails ==
    /\ pc \in {"orders", "fetch"}
    /\ report' = "failed"
    /\ NextIteration(TRUE)
    /\ safe' = "SAFE_MODE"
    /\ local' = {}
    /\ UNCHANGED <<process, positions, rows, todo, ordersOff, moves, lastFetch>>

-----------------------------------------------------------------------------
\* A position is opened, changed or closed at the exchange.
PositionMoves(k, amount) ==
    /\ moves < MaxMoves /\ amount # positions[k]
    /\ positions' = [positions EXCEPT ![k] = amount]
    /\ moves' = moves + 1
    /\ UNCHANGED <<process, rows, safe, pc, todo, local, ordersOff, report, lastFetch>>

\* The daemon's process dies, or has ended, and is started again, with
\* the same options or others: the rows stay.
Restart ==
    /\ restarts < MaxRestarts
    /\ restarts' = restarts + 1
    /\ refreshes' \in BOOLEAN /\ stops' \in BOOLEAN
    /\ pc' = "idle"
    /\ safe' = "NORMAL"
    /\ todo' = {} /\ local' = {}
    /\ ordersOff' = FALSE /\ report' = "none"
    /\ UNCHANGED <<positions, rows, moves, lastFetch>>

DaemonNext ==
    \/ FetchForRefresh
    \/ \E s \in Snapshots : UpsertPosition(s)
    \/ RefreshRaises
    \/ \E off \in BOOLEAN : ReconcileOrders(off)
    \/ ListPositions
    \/ FetchAndCompare
    \/ ReconcileFails

Next ==
    \/ DaemonNext
    \/ \E k \in Keys, amount \in Amounts : PositionMoves(k, amount)
    \/ Restart

Spec == Init /\ [][Next]_vars

\* The daemon goes on: its reads return or raise, and its loop has no other end than
\* stop_on_mismatch and an exception of the refresh.
FairSpec == Spec /\ WF_vars(DaemonNext)

-----------------------------------------------------------------------------
(***************************************************************************)
(* Properties.                                                             *)
(***************************************************************************)
TypeOK ==
    /\ refreshes \in BOOLEAN /\ stops \in BOOLEAN /\ restarts \in 0..MaxRestarts
    /\ positions \in [Keys -> Amounts]
    /\ rows \in [Keys -> Amounts \cup {None}]
    /\ safe \in {"NORMAL", "SAFE_MODE"}
    /\ pc \in {"idle", "refresh", "orders", "fetch", "stopped", "dead"}
    /\ todo \subseteq Snapshots /\ local \subseteq Snapshots
    /\ ordersOff \in BOOLEAN
    /\ report \in {"none", "consistent", "mismatch", "failed"}
    /\ moves \in 0..MaxMoves /\ lastFetch \in 0..moves

\* The amount a row stands for: a missing row and a flat one say the same.
RowAmount(k) == IF rows[k] = None THEN 0 ELSE rows[k]
Differs(k) ==
    \/ ~ (RowAmount(k) = 0 <=> positions[k] = 0)
    \/ Abs(RowAmount(k) - positions[k]) > Tolerance

\* A comparison is consistent exactly when, at the moment the exchange answers, no
\* row differs from its position, although the rows were read earlier, a refresh may
\* have stopped half way and flat positions come and go
\* (position_reconciliation.py:42-81).
PositionAuditExact ==
    [][pc = "fetch" /\ pc' # "fetch" /\ report' \in {"consistent", "mismatch"} =>
               (report' = "consistent" <=> \A k \in Keys : ~ Differs(k))]_vars

\* After a refresh, and until a position moves, a row may be wrong about a position
\* that is flat but never about an open one, although the refresh writes row by row what
\* the exchange said before and takes no row away (position_reconciliation.py:83-87).
\* That flat ones may be wrong is against docs/local_daemon.md:57.
OnlyFlatRowsStay ==
    refreshes /\ pc \in {"orders", "fetch"} /\ moves = lastFetch =>
        \A k \in Keys : Differs(k) => positions[k] = 0

\* A position that keeps differing from its row ends in SAFE_MODE, unless the row or
\* the position changes first (docs/local_daemon.md:69).  Only a daemon that refreshes
\* may end without it: an exception of the refresh is not caught (daemon.py:54).
DifferenceRaisesSafeMode ==
    \A k \in Keys :
        Differs(k) ~> (~ Differs(k) \/ safe = "SAFE_MODE" \/ (refreshes /\ pc = "dead"))

=============================================================================
