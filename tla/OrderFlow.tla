------------------------------ MODULE OrderFlow ------------------------------
(***************************************************************************)
(* The life of an order between three components and the exchange:         *)
(*                                                                         *)
(*   trader   PersistentOrderRouter.route around OrderRouter.route: gates, *)
(*            client order id, POST to the exchange, row in SQLite         *)
(*   daemon   DaemonRunner.run around OrderReconciler: read the open rows, *)
(*            fetch the exchange's open orders, compare, enter SAFE_MODE   *)
(*   repair   OrderRepairEngine.repair_by_client_order_id: read a row,     *)
(*            query the exchange, write the row back                       *)
(*                                                                         *)
(* A component is suspended at every call that leaves the process (HTTP,   *)
(* SQLite), so each such call is a step of its own.                        *)
(***************************************************************************)
EXTENDS Naturals, OrderStatus

CONSTANTS
    Intents,          \* the order intents callers hand to route()
    ExchangeIds,      \* order ids the exchange can issue: bounds the orders placed
    MaxClock,         \* last second of the wall clock
    Qty,              \* quantity of every normalized order, in lots
    StatusWords,      \* the status words the exchange uses
    Modes,            \* trading modes a router may be configured with
    OneProcess,       \* TRUE: one Python process, one SafeModeController
    ListsOpenOrders,  \* TRUE: fetch_open_orders lists the open orders
    StopOnMismatch,   \* DaemonConfig.stop_on_mismatch
    CanRestart,       \* the components whose process may die and be restarted
    None              \* Python's None

VARIABLES
    mode,       \* OrderRouter.mode, fixed when the router is built
    clock,      \* wall clock, in the seconds client order ids are made of
    orders,     \* the exchange's orders, by exchange order id
    store,      \* the rows of table orders, by client order id (durable)
    safe,       \* SafeModeController.state of every controller (in memory)
    pc,         \* where each component is suspended
    routed,     \* trader: the OrderRecord being submitted and persisted
    localOpen,  \* daemon: the rows list_open_orders() returned
    report,     \* daemon: outcome of the last comparison
    repairing   \* repair: the OrderRecord read, then updated

vars == <<mode, clock, orders, store, safe, pc, routed, localOpen, report,
          repairing>>

Procs == {"trader", "daemon", "repair"}

\* The controller a component was constructed with.
Controller(p) == IF OneProcess THEN "shared" ELSE p
Controllers == {Controller(p) : p \in Procs}

\* Mutation: the reconciler on a thread of its own.
MayRunOnAThread(p) == p \in Procs

\* In one single-threaded process a component runs only while no other one is
\* in the middle of a call; separate processes interleave freely.
MayRun(p) ==
    OneProcess => \A q \in Procs \ {p} : pc[q] \in {"idle", "stopped"}

-----------------------------------------------------------------------------
\* make_client_order_id: sleeve, setup_id[:8], action, time to the second.
ClientOrderId(i, t) == <<i.sleeve, i.prefix, i.action, t>>
ClientOrderIds == {ClientOrderId(i, t) : i \in Intents, t \in 0..MaxClock}

IntentRecords ==
    [sleeve: {"A", "B"}, symbol: STRING, prefix: STRING,
     action: {"EN", "SL", "TP1", "TP2", "TP3", "TS", "CB"}, reduceOnly: BOOLEAN]

\* core/models.py OrderRecord, prices and timestamps left out.
OrderRecords ==
    [cid: ClientOrderIds, intent: Intents, status: OrderStatuses,
     filled: 0..Qty, xid: ExchangeIds \cup {None}]

\* The executed quantities an exchange order of each status can have.
ExecutedWith(word) ==
    CASE word = "NEW"              -> {0}
      [] word = "PARTIALLY_FILLED" -> 1..(Qty - 1)
      [] word = "FILLED"           -> {Qty}
      [] word = "REJECTED"         -> {0}
      [] OTHER                     -> 0..(Qty - 1)

ExchangeOrders ==
    {o \in [cid: ClientOrderIds, intent: Intents, status: StatusWords,
            filled: 0..Qty] : o.filled \in ExecutedWith(o.status)}

\* What OrderMirror keeps of an order and of a row.
BookViews == [cid: ClientOrderIds, filled: 0..Qty, closed: BOOLEAN]
MirrorViews == [xid: ExchangeIds, filled: 0..Qty, closed: BOOLEAN]

IsOpen(x) == orders[x] # None /\ orders[x].status \in BinanceOpen

ASSUME FlowAssumption ==
    /\ Intents \subseteq IntentRecords
    /\ StatusWords \subseteq BinanceStatuses
    /\ MaxClock \in Nat /\ Qty \in Nat \ {0}
    /\ Modes \subseteq {"SIGNAL_ONLY", "PAPER_LOCAL", "EXCHANGE_TESTNET"}
    /\ {OneProcess, ListsOpenOrders, StopOnMismatch} \subseteq BOOLEAN
    /\ CanRestart \subseteq Procs
    /\ None \notin ExchangeIds \cup OrderRecords \cup ExchangeOrders
    /\ None \notin BookViews \cup MirrorViews

-----------------------------------------------------------------------------
Init ==
    /\ mode \in Modes
    /\ clock = 0
    /\ orders = [x \in ExchangeIds |-> None]
    /\ store = [c \in ClientOrderIds |-> None]
    /\ safe = [c \in Controllers |-> "NORMAL"]
    /\ pc = [p \in Procs |-> "idle"]
    /\ routed = None
    /\ localOpen = {}
    /\ report = "none"
    /\ repairing = None

\* SafeModeController.enter, by component p.
EnterSafeMode(p) == safe' = [safe EXCEPT ![Controller(p)] = "SAFE_MODE"]

\* SQLiteOrderStore.upsert_order: a new row, or, when the client order id is
\* taken, only the exchange id, status and fill of the row that is there.
UpsertOrder(o) ==
    store' = [store EXCEPT ![o.cid] =
                 IF @ = None THEN o
                 ELSE [@ EXCEPT !.xid = o.xid, !.status = o.status,
                                !.filled = o.filled]]

-----------------------------------------------------------------------------
(***************************************************************************)
(* The trader.  A refused intent, one the symbol filters reject and one    *)
(* routed in SIGNAL_ONLY mode change no state, so they take no step here.  *)
(***************************************************************************)
MayRoute(i) ==
    /\ i.action = "EN" => safe[Controller("trader")] = "NORMAL"
    /\ i.action # "EN" => i.reduceOnly
    /\ mode \in {"PAPER_LOCAL", "EXCHANGE_TESTNET"}

Route(i) ==
    /\ pc["trader"] = "idle" /\ MayRun("trader")
    /\ MayRoute(i)
    /\ routed' = [cid |-> ClientOrderId(i, clock), intent |-> i,
                  status |-> "SUBMITTED", filled |-> 0, xid |-> None]
    /\ pc' = [pc EXCEPT !["trader"] = "submit"]
    /\ UNCHANGED <<mode, clock, orders, store, safe, localOpen, report, repairing>>

\* _apply_exchange_order_payload: an unlisted status word leaves the status.  The answer
\* carries the order's id and executed quantity, as the RESULT form submit_order asks for
\* does; the code would take one without either and leave the field as it is.
ApplyPayload(o, x, remote) ==
    [o EXCEPT !.xid = x, !.filled = remote.filled,
              !.status = IF remote.status \in DOMAIN BinanceStatusMap
                         THEN BinanceStatusMap[remote.status] ELSE @]

\* The exchange takes the order as id x, possibly executing it at once; it
\* refuses a client order id that one of its open orders already has.
ExchangeAccepts(x, remote) ==
    /\ orders[x] = None
    /\ ~ \E y \in ExchangeIds : IsOpen(y) /\ orders[y].cid = routed.cid
    /\ remote.cid = routed.cid /\ remote.intent = routed.intent
    /\ orders' = [orders EXCEPT ![x] = remote]

SubmitAccepted(x, remote) ==
    /\ pc["trader"] = "submit"
    /\ ExchangeAccepts(x, remote)
    /\ routed' = ApplyPayload(routed, x, remote)
    /\ pc' = [pc EXCEPT !["trader"] = "persist"]
    /\ UNCHANGED <<mode, clock, store, safe, localOpen, report, repairing>>

\* The order is placed and the answer never arrives: the HTTP client raises,
\* and the exception leaves both routers before the row is written.
SubmitTimesOut(x, remote) ==
    /\ pc["trader"] = "submit"
    /\ ExchangeAccepts(x, remote)
    /\ routed' = None
    /\ pc' = [pc EXCEPT !["trader"] = "idle"]
    /\ UNCHANGED <<mode, clock, store, safe, localOpen, report, repairing>>

\* The request is answered with an error, or never reaches the exchange.
SubmitRefused ==
    /\ pc["trader"] = "submit"
    /\ routed' = None
    /\ pc' = [pc EXCEPT !["trader"] = "idle"]
    /\ UNCHANGED <<mode, clock, orders, store, safe, localOpen, report, repairing>>

\* The row is written, or SQLite raises (the database is locked) and it is not.
PersistRouted ==
    /\ pc["trader"] = "persist"
    /\ UpsertOrder(routed) \/ UNCHANGED store
    /\ routed' = None
    /\ pc' = [pc EXCEPT !["trader"] = "idle"]
    /\ UNCHANGED <<mode, clock, orders, safe, localOpen, report, repairing>>

-----------------------------------------------------------------------------
(***************************************************************************)
(* The daemon: DaemonRunner.run, one iteration after another.              *)
(***************************************************************************)
OpenRows == {store[c] : c \in {d \in ClientOrderIds :
                 store[d] # None /\ store[d].status \in OpenStatuses}}

ListOpenRows ==
    /\ pc["daemon"] = "idle" /\ MayRun("daemon")
    /\ localOpen' = OpenRows
    /\ pc' = [pc EXCEPT !["daemon"] = "fetch"]
    /\ UNCHANGED <<mode, clock, orders, store, safe, routed, report, repairing>>

\* The adapter's fetch_open_orders.
FetchOpenOrders ==
    IF ListsOpenOrders THEN {orders[x] : x \in {y \in ExchangeIds : IsOpen(y)}}
                       ELSE {}

\* Mutation: only the orders known locally are looked for at the exchange.
ConsistentOneWay(local, remote) ==
    {o.cid : o \in local} \subseteq {o.cid : o \in remote}

\* Whether the report of reconcile_open_orders is consistent.
Consistent(local, remote) ==
    LET localIds  == {o.cid : o \in local}
        remoteIds == {o.cid : o \in remote}
    IN  /\ localIds \ remoteIds = {}       \* missing_on_exchange
        /\ remoteIds \ localIds = {}       \* unknown_on_local
        /\ \A l \in local, r \in remote :  \* status_mismatches
              l.cid = r.cid =>
                  ~ MeaningfulMismatch(l.status, ParsedStatus(r.status))

FetchAndCompare ==
    /\ pc["daemon"] = "fetch"
    /\ \/ /\ Consistent(localOpen, FetchOpenOrders)
          /\ report' = "consistent"
          /\ UNCHANGED safe
       \/ /\ ~ Consistent(localOpen, FetchOpenOrders)
          /\ report' = "mismatch"
          /\ EnterSafeMode("daemon")
    /\ localOpen' = {}
    /\ pc' = [pc EXCEPT !["daemon"] = "positions"]
    /\ UNCHANGED <<mode, clock, orders, store, routed, repairing>>

\* Mutation: the except branch reports the failure without enter().
ReconcileFailsQuietly ==
    /\ pc["daemon"] \in {"idle", "fetch"} /\ MayRun("daemon")
    /\ report' = "mismatch"
    /\ localOpen' = {}
    /\ pc' = [pc EXCEPT !["daemon"] = "positions"]
    /\ UNCHANGED <<mode, clock, orders, store, safe, routed, repairing>>

\* Either read raises: reported as inconsistent, and SAFE_MODE is entered.
ReconcileFails ==
    /\ pc["daemon"] \in {"idle", "fetch"} /\ MayRun("daemon")
    /\ report' = "mismatch"
    /\ EnterSafeMode("daemon")
    /\ localOpen' = {}
    /\ pc' = [pc EXCEPT !["daemon"] = "positions"]
    /\ UNCHANGED <<mode, clock, orders, store, routed, repairing>>

\* After an iteration: stop_on_mismatch ends the loop on an inconsistent result.
AfterIteration(orderReport, positionReport) ==
    IF StopOnMismatch /\ "mismatch" \in {orderReport, positionReport}
    THEN "stopped" ELSE "idle"

\* reconcile_positions, of which this module keeps the outcome.
ReconcilePositions(positionReport) ==
    /\ pc["daemon"] = "positions"
    /\ IF positionReport = "mismatch" THEN EnterSafeMode("daemon")
                                      ELSE UNCHANGED safe
    /\ pc' = [pc EXCEPT !["daemon"] = AfterIteration(report, positionReport)]
    /\ UNCHANGED <<mode, clock, orders, store, routed, localOpen, report, repairing>>

-----------------------------------------------------------------------------
(***************************************************************************)
(* The repair engine, called for any client order id.                      *)
(***************************************************************************)
RepairUnknownRow(c) ==
    /\ pc["repair"] = "idle" /\ MayRun("repair")
    /\ store[c] = None
    /\ EnterSafeMode("repair")
    /\ UNCHANGED <<mode, clock, orders, store, pc, routed, localOpen, report,
                   repairing>>

RepairReadRow(c) ==
    /\ pc["repair"] = "idle" /\ MayRun("repair")
    /\ store[c] # None
    /\ repairing' = store[c]
    /\ pc' = [pc EXCEPT !["repair"] = "query"]
    /\ UNCHANGED <<mode, clock, orders, store, safe, routed, localOpen, report>>

\* Mutation: the exchange's status word is stored as it came.
ApplySnapshotRaw(o, x) ==
    [o EXCEPT !.xid = x, !.status = orders[x].status, !.filled = orders[x].filled]

\* Mutation: an answer without executedQty counts as nothing executed.
ApplySnapshotNoFill(o, x) ==
    [o EXCEPT !.xid = x, !.status = ParsedStatus(orders[x].status), !.filled = 0]

\* _apply_remote_snapshot: the row takes the exchange's word for everything.
ApplySnapshot(o, x) ==
    [o EXCEPT !.xid = x, !.status = ParsedStatus(orders[x].status),
              !.filled = orders[x].filled]

\* The exchange answers with an order of this symbol and client order id.  The row
\* may need writing for its average price alone, which the model leaves out.
RepairQueryAnswered(x) ==
    /\ pc["repair"] = "query"
    /\ orders[x] # None
    /\ orders[x].cid = repairing.cid
    /\ orders[x].intent.symbol = repairing.intent.symbol
    /\ \/ /\ ApplySnapshot(repairing, x) = repairing
          /\ repairing' = None
          /\ pc' = [pc EXCEPT !["repair"] = "idle"]
       \/ /\ repairing' = ApplySnapshot(repairing, x)
          /\ pc' = [pc EXCEPT !["repair"] = "write"]
    /\ UNCHANGED <<mode, clock, orders, store, safe, routed, localOpen, report>>

\* The query raises, finds nothing, or answers for another symbol.
RepairUnresolved ==
    /\ pc["repair"] = "query"
    /\ EnterSafeMode("repair")
    /\ repairing' = None
    /\ pc' = [pc EXCEPT !["repair"] = "idle"]
    /\ UNCHANGED <<mode, clock, orders, store, routed, localOpen, report>>

\* As for the trader, the write may raise.
RepairWriteRow ==
    /\ pc["repair"] = "write"
    /\ UpsertOrder(repairing) \/ UNCHANGED store
    /\ repairing' = None
    /\ pc' = [pc EXCEPT !["repair"] = "idle"]
    /\ UNCHANGED <<mode, clock, orders, safe, routed, localOpen, report>>

-----------------------------------------------------------------------------
(***************************************************************************)
(* The exchange, the operator, time and process deaths.                    *)
(***************************************************************************)
\* An open order executes further, or closes; what was executed stays so.
ExchangeProgress(x, remote) ==
    /\ IsOpen(x)
    /\ remote.cid = orders[x].cid /\ remote.intent = orders[x].intent
    /\ remote.filled >= orders[x].filled
    /\ remote # orders[x]
    /\ orders' = [orders EXCEPT ![x] = remote]
    /\ UNCHANGED <<mode, clock, store, safe, pc, routed, localOpen, report,
                   repairing>>

\* SafeModeController.exit, called between the calls of its components.
ExitSafeMode(p) ==
    /\ safe[Controller(p)] = "SAFE_MODE"
    /\ pc[p] \in {"idle", "stopped"} /\ MayRun(p)
    /\ safe' = [safe EXCEPT ![Controller(p)] = "NORMAL"]
    /\ UNCHANGED <<mode, clock, orders, store, pc, routed, localOpen, report,
                   repairing>>

Tick ==
    /\ clock < MaxClock
    /\ clock' = clock + 1
    /\ UNCHANGED <<mode, orders, store, safe, pc, routed, localOpen, report,
                   repairing>>

\* The process of p dies, or has ended, and is started again: the rows survive,
\* everything in memory, SAFE_MODE included, does not.
Restart(p) ==
    LET dies == {q \in Procs : Controller(q) = Controller(p)}
    IN  /\ safe' = [safe EXCEPT ![Controller(p)] = "NORMAL"]
        /\ pc' = [q \in Procs |-> IF q \in dies THEN "idle" ELSE pc[q]]
        /\ routed' = IF "trader" \in dies THEN None ELSE routed
        /\ localOpen' = IF "daemon" \in dies THEN {} ELSE localOpen
        /\ report' = IF "daemon" \in dies THEN "none" ELSE report
        /\ repairing' = IF "repair" \in dies THEN None ELSE repairing
        /\ UNCHANGED <<mode, clock, orders, store>>

-----------------------------------------------------------------------------
TraderNext ==
    \/ \E i \in Intents : Route(i)
    \/ \E x \in ExchangeIds, remote \in ExchangeOrders :
           SubmitAccepted(x, remote) \/ SubmitTimesOut(x, remote)
    \/ SubmitRefused
    \/ PersistRouted

DaemonNext ==
    \/ ListOpenRows
    \/ FetchAndCompare
    \/ ReconcileFails
    \/ \E positionReport \in {"consistent", "mismatch"} :
           ReconcilePositions(positionReport)

RepairNext ==
    \/ \E c \in ClientOrderIds : RepairUnknownRow(c) \/ RepairReadRow(c)
    \/ \E x \in ExchangeIds : RepairQueryAnswered(x)
    \/ RepairUnresolved
    \/ RepairWriteRow

EnvironmentNext ==
    \/ \E x \in ExchangeIds, remote \in ExchangeOrders : ExchangeProgress(x, remote)
    \/ \E p \in Procs : ExitSafeMode(p)
    \/ \E p \in CanRestart : Restart(p)
    \/ Tick

Next == TraderNext \/ DaemonNext \/ RepairNext \/ EnvironmentNext

Spec == Init /\ [][Next]_vars

\* The daemon is a process of its own that the operating system keeps running;
\* its reads return or raise (the HTTP client times out after ten seconds).
FairSpec == Spec /\ WF_vars(DaemonNext)

-----------------------------------------------------------------------------
(***************************************************************************)
(* Properties.                                                             *)
(***************************************************************************)
TypeOK ==
    /\ mode \in Modes
    /\ clock \in 0..MaxClock
    /\ orders \in [ExchangeIds -> ExchangeOrders \cup {None}]
    /\ store \in [ClientOrderIds -> OrderRecords \cup {None}]
    /\ safe \in [Controllers -> {"NORMAL", "SAFE_MODE"}]
    /\ pc \in [Procs -> {"idle", "submit", "persist", "fetch", "positions",
                         "stopped", "query", "write"}]
    /\ routed \in OrderRecords \cup {None}
    /\ localOpen \in SUBSET OrderRecords
    /\ report \in {"none", "consistent", "mismatch"}
    /\ repairing \in OrderRecords \cup {None}

\* A local record lags behind the exchange order it names: that order exists and
\* carries its client order id, has executed at least as much, and, when the
\* record is closed, is closed with the same status and fill.
Lags(o) ==
    LET remote == orders[o.xid]
    IN  /\ o.xid # None /\ remote # None
        /\ o.cid = remote.cid
        /\ o.filled <= remote.filled
        /\ o.status \in TerminalStatuses =>
               o.status = remote.status /\ o.filled = remote.filled
        /\ o.status = "UNKNOWN" => remote.status \notin BinanceOpen

\* The local books never run ahead of the exchange: no row, and no record about
\* to be written as one, claims an order, a fill or a closure the exchange does
\* not have, however submissions, repairs, crashes and executions interleave
\* (persistent_router.py:20-22, repair.py:97-99).
LocalNeverAhead ==
    /\ \A c \in ClientOrderIds : store[c] # None => Lags(store[c])
    /\ pc["trader"] = "persist" => Lags(routed)
    /\ pc["repair"] = "write" => Lags(repairing)

\* An order reaches the exchange only with what route() demands still true at
\* that moment, although the gates were read before the call was made: the mode
\* submits, an entry finds its controller out of SAFE_MODE, a closing order is
\* reduce-only (order_router.py:39-58).
EveryOrderIsLicensed ==
    [][\A x \in ExchangeIds :
           orders[x] = None /\ orders'[x] # None =>
               /\ mode # "SIGNAL_ONLY"
               /\ orders'[x].intent.action = "EN" =>
                      safe[Controller("trader")] = "NORMAL"
               /\ orders'[x].intent.action # "EN" => orders'[x].intent.reduceOnly]_vars

OpenIds == {orders[x].cid : x \in {y \in ExchangeIds : IsOpen(y)}}
Compared == pc["daemon"] = "fetch" /\ report' # "none" /\ pc'["daemon"] = "positions"

\* An audit that finds the books consistent leaves no open exchange order without
\* a local row, even though the rows were read before the exchange was asked and
\* other processes ran in between (reconciliation.py:38-55).
AuditComplete ==
    [][Compared /\ report' = "consistent" =>
           \A c \in OpenIds : store[c] # None]_vars

\* In one process the two reads of an audit are as good as one: the books are
\* found consistent only if the open rows and the exchange's open orders are the
\* same orders at that moment (reconciliation.py:38-67).
AuditExact ==
    [][Compared /\ report' = "consistent" =>
           {c \in ClientOrderIds : store[c] # None
                /\ store[c].status \notin TerminalStatuses} = OpenIds]_vars

\* An open order without a row is not overlooked for ever: unless it closes or
\* gets its row first, the daemon enters SAFE_MODE (README.md:11).
MismatchRaisesSafeMode ==
    \A c \in ClientOrderIds :
        (c \in OpenIds /\ store[c] = None) ~>
            (c \notin OpenIds \/ store[c] # None
             \/ safe[Controller("daemon")] = "SAFE_MODE")

\* The exchange and the store as OrderMirror sees them.
BookView ==
    [x \in ExchangeIds |->
        IF orders[x] = None THEN None
        ELSE [cid |-> orders[x].cid, filled |-> orders[x].filled,
              closed |-> orders[x].status \notin BinanceOpen]]

MirrorView ==
    [c \in ClientOrderIds |->
        IF store[c] = None THEN None
        ELSE [xid |-> store[c].xid, filled |-> store[c].filled,
              closed |-> store[c].status \in TerminalStatuses]]

Mirror == INSTANCE OrderMirror
              WITH ClientIds <- ClientOrderIds, book <- BookView, mirror <- MirrorView

\* Persistence and repair keep the promise of OrderMirror: every row shows an
\* order of its client id as it once was, rows are never lost, and a repair that
\* reads, queries and writes in three steps never takes a row back to an older
\* state while the id belongs to one order (repair.py:57-99, sqlite_store.py:48-78).
ImplementsOrderMirror == Mirror!MirrorSpec

-----------------------------------------------------------------------------
(***************************************************************************)
(* What the documents promise and the code does not keep.                  *)
(***************************************************************************)
\* "State mismatch triggers SAFE_MODE" and "SAFE_MODE blocks new entries": no
\* entry starts while the daemon that found a mismatch is in SAFE_MODE
\* (README.md:11, docs/sleeve_b_auto_testnet_loop.md).
SafeModeBlocksEntries ==
    [][pc["trader"] = "idle" /\ pc'["trader"] = "submit" /\ routed'.intent.action = "EN" =>
           safe[Controller("daemon")] = "NORMAL"]_vars

=============================================================================
