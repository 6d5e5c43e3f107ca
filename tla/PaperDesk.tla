------------------------------ MODULE PaperDesk ------------------------------
(***************************************************************************)
(* One process on the in-memory adapter (BinanceUsdmTestnetAdapter): the   *)
(* routers, the order state machine, the table of orders, the repair       *)
(* engine and the reconciler, with a caller that reports fills.            *)
(*                                                                         *)
(* The adapter keeps the very OrderRecord objects it is handed, so what a  *)
(* caller does to a record it does to the adapter's order as well, while   *)
(* the table holds what was last written.  Records and adapter are in      *)
(* memory, the table outlives a restart.  Nothing here waits for anything: *)
(* every call is one step.                                                 *)
(***************************************************************************)
EXTENDS Integers, OrderStatus, Configuration

CONSTANTS
    Ids,        \* client order ids
    Qty,        \* quantity of every order, in lots
    MaxWait,    \* max_wait_seconds of should_cancel_entry_remainder
    Runtimes,   \* the configurations a process may be started with
    None        \* Python's None

VARIABLES
    runtime,    \* RuntimeConfig
    records,    \* the caller's OrderRecord of an id: status and filled quantity
    held,       \* the ids in the adapter's _orders
    rows,       \* the rows of table orders (durable)
    disputed,   \* ids on which apply_fill has raised InvalidOrderTransition, or which
                \* transition() was told to be FILLED: what is written of them stays so
    safe        \* SafeModeController.state

vars == <<runtime, records, held, rows, disputed, safe>>

OrderRecords == [status: OrderStatuses, filled: 0..Qty]

ASSUME DeskAssumption ==
    /\ Qty \in Nat \ {0} /\ MaxWait \in Nat
    /\ Runtimes \subseteq RuntimeConfigs
    /\ None \notin OrderRecords

Init ==
    /\ runtime \in {r \in Runtimes : Adapter(r, TRUE) = "inert"}
    /\ records = [i \in Ids |-> None]
    /\ held = {}
    /\ rows = [i \in Ids |-> None]
    /\ disputed = {}
    /\ safe = "NORMAL"

-----------------------------------------------------------------------------
AllowedTransitions ==
    [CREATED          |-> {"SUBMITTED", "REJECTED", "UNKNOWN"},
     SUBMITTED        |-> {"PARTIALLY_FILLED", "FILLED", "CANCELED", "REJECTED",
                           "EXPIRED", "UNKNOWN"},
     PARTIALLY_FILLED |-> {"PARTIALLY_FILLED", "FILLED", "CANCELED", "UNKNOWN"},
     FILLED           |-> {},
     CANCELED         |-> {},
     REJECTED         |-> {},
     EXPIRED          |-> {},
     UNKNOWN          |-> {"SUBMITTED", "CANCELED", "FILLED"}]

\* The status apply_fill wants an order to have.
FilledStatus(q) == IF q = Qty THEN "FILLED" ELSE "PARTIALLY_FILLED"

\* Neither its shortcut for a second partial fill nor the table allows it.
FillRaises(status, q) ==
    /\ ~ (status = "PARTIALLY_FILLED" /\ q < Qty)
    /\ FilledStatus(q) \notin AllowedTransitions[status]

\* Mutation: the shortcut does not look at the quantity.
StatusAfterFillStuck(status, q) ==
    IF status = "PARTIALLY_FILLED" \/ FillRaises(status, q) THEN status
                                                           ELSE FilledStatus(q)

StatusAfterFill(status, q) ==
    IF FillRaises(status, q) THEN status ELSE FilledStatus(q)

\* Mutation: "and" for "or".
ShouldCancelBelowRatio(r, elapsed) ==
    elapsed >= MaxWait /\ 2 * r.filled < Qty /\ r.filled < Qty

\* should_cancel_entry_remainder with its default min_fill_ratio of one half.
ShouldCancel(r, elapsed) ==
    elapsed >= MaxWait /\ (2 * r.filled < Qty \/ r.filled < Qty)

-----------------------------------------------------------------------------
\* PersistentOrderRouter.route of an entry: signal only, or handed to the adapter
\* and written, unless SQLite raises.
Route(i) ==
    /\ records[i] = None /\ rows[i] = None
    /\ safe = "NORMAL"
    /\ IF runtime.tradingMode = "SIGNAL_ONLY"
       THEN /\ records' = [records EXCEPT ![i] = [status |-> "CREATED", filled |-> 0]]
            /\ UNCHANGED <<held, rows>>
       ELSE /\ records' = [records EXCEPT ![i] = [status |-> "SUBMITTED", filled |-> 0]]
            /\ held' = held \cup {i}
            /\ rows' \in {rows, [rows EXCEPT ![i] = records'[i]]}
    /\ UNCHANGED <<runtime, disputed, safe>>

\* OrderStateMachine.transition, which leaves the filled quantity alone, also when
\* it is told of a fill.  A transition the table does not list raises and changes
\* nothing.
Transition(i, status) ==
    /\ records[i] # None
    /\ status \in AllowedTransitions[records[i].status]
    /\ records' = [records EXCEPT ![i].status = status]
    /\ disputed' = IF status = "FILLED" THEN disputed \cup {i} ELSE disputed
    /\ UNCHANGED <<runtime, held, rows, safe>>

\* OrderStateMachine.apply_fill of a legal quantity: it is written first, and stays
\* written when the transition raises.
ApplyFill(i, q) ==
    /\ records[i] # None
    /\ records' = [records EXCEPT ![i] =
                       [status |-> StatusAfterFill(@.status, q), filled |-> q]]
    /\ disputed' = IF FillRaises(records[i].status, q) THEN disputed \cup {i} ELSE disputed
    /\ UNCHANGED <<runtime, held, rows, safe>>

\* The adapter forgets a canceled order and leaves its record as it is.
Cancel(i) ==
    /\ i \in held
    /\ held' = held \ {i}
    /\ UNCHANGED <<runtime, records, rows, disputed, safe>>

\* The caller asks whether to cancel what is left of an entry, and does.
CancelRemainder(i, elapsed) ==
    /\ i \in held
    /\ ShouldCancel(records[i], elapsed)
    /\ Cancel(i)

\* repair_by_client_order_id: query_order answers with the shared record.
Repair(i) ==
    /\ \/ /\ rows[i] # None /\ i \in held
          /\ rows' = [rows EXCEPT ![i] = records[i]]
          /\ UNCHANGED safe
       \/ /\ rows[i] = None \/ i \notin held
          /\ safe' = "SAFE_MODE"
          /\ UNCHANGED rows
    /\ UNCHANGED <<runtime, records, held, disputed>>

OpenIds == {i \in Ids : rows[i] # None /\ rows[i].status \in OpenStatuses}

\* reconcile_open_orders: fetch_open_orders lists every order the adapter holds.
Consistent ==
    /\ held = OpenIds
    /\ \A i \in held : ~ MeaningfulMismatch(rows[i].status, records[i].status)

Audit ==
    /\ ~ Consistent
    /\ safe' = "SAFE_MODE"
    /\ UNCHANGED <<runtime, records, held, rows, disputed>>

ExitSafeMode ==
    /\ safe = "SAFE_MODE"
    /\ safe' = "NORMAL"
    /\ UNCHANGED <<runtime, records, held, rows, disputed>>

\* Mutation: the new process gets the adapter of the old one.
RestartKeepsAdapter ==
    /\ records' = [i \in Ids |-> None]
    /\ disputed' = {i \in disputed : rows[i] # None}
    /\ safe' = "NORMAL"
    /\ UNCHANGED <<runtime, held, rows>>

\* The process ends and another one is built over the same table.
Restart ==
    /\ records' = [i \in Ids |-> None]
    /\ held' = {}
    /\ disputed' = {i \in disputed : rows[i] # None}
    /\ safe' = "NORMAL"
    /\ UNCHANGED <<runtime, rows>>

Next ==
    \/ \E i \in Ids :
        \/ Route(i) \/ Cancel(i) \/ Repair(i)
        \/ \E status \in OrderStatuses : Transition(i, status)
        \/ \E q \in 0..Qty : ApplyFill(i, q)
        \/ \E elapsed \in 0..(MaxWait + 1) : CancelRemainder(i, elapsed)
    \/ Audit \/ ExitSafeMode \/ Restart

Spec == Init /\ [][Next]_vars

-----------------------------------------------------------------------------
(***************************************************************************)
(* Properties.                                                             *)
(***************************************************************************)
TypeOK ==
    /\ runtime \in Runtimes
    /\ records \in [Ids -> OrderRecords \cup {None}]
    /\ rows \in [Ids -> OrderRecords \cup {None}]
    /\ held \subseteq {i \in Ids : records[i] # None}
    /\ disputed \subseteq Ids
    /\ safe \in {"NORMAL", "SAFE_MODE"}

\* A status and its filled quantity say the same.
FillAgrees(r) ==
    /\ r.status = "FILLED" <=> r.filled = Qty
    /\ r.status = "CREATED" => r.filled = 0

\* Whatever fills, transitions, repairs and restarts come in whatever order, and however
\* often the quantity reported goes up and down, a record is FILLED exactly when its
\* quantity is; so is the row written from it, also when a restart has left nothing but
\* the row.  Two things only set them apart, and the orders they were done to are exempt:
\* an apply_fill that raised, which has written the quantity already, and a transition()
\* to FILLED, which writes none.
FillsAgreeUnlessDisputed ==
    \A i \in Ids \ disputed :
        /\ records[i] # None => FillAgrees(records[i])
        /\ rows[i] # None => FillAgrees(rows[i])

\* The test of the state machine: once the wait is over the remainder is canceled.
\* Decided by quantities, it must fit the statuses where the two agree: every order the
\* adapter holds goes, one filled above min_fill_ratio too, and a FILLED one never does.
RemainderGoes ==
    \A i \in held \ disputed, elapsed \in 0..(MaxWait + 1) :
        ShouldCancel(records[i], elapsed)
            <=> elapsed >= MaxWait /\ records[i].status # "FILLED"

\* What a consistent audit promises although this adapter lists its orders whatever their
\* status: none it holds is closed, and none is filled unless its status and quantity
\* were set apart.  A row the state machine left UNKNOWN is exempt by the comparison's
\* own rule.
AuditTellsLive ==
    Consistent =>
        \A i \in held :
            rows[i].status # "UNKNOWN" =>
                /\ records[i].status \in OpenStatuses
                /\ i \notin disputed => records[i].filled < Qty

=============================================================================
