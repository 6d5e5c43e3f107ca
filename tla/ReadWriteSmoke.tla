---------------------------- MODULE ReadWriteSmoke ----------------------------
(***************************************************************************)
(* run_testnet_read_write_smoke: when the configuration allows it, one     *)
(* order is placed far from the market, queried, canceled, queried again,  *)
(* and orders and positions are reconciled with tables of the run's own.   *)
(* Every call to the exchange is a step, may raise, and leaves room for    *)
(* the mark price, the order and the position to move.                     *)
(*                                                                         *)
(* Prices are integers and the margin is in tenths, so that a comparison   *)
(* with a price off by the margin is multiplied out.                       *)
(***************************************************************************)
EXTENDS Integers, OrderStatus, Configuration

CONSTANTS
    Runtimes,       \* the configurations a process may be started with
    MarkPrices,     \* the mark prices of the symbol
    LimitPrices,    \* limit_price
    TickSize,       \* the symbol's price filter
    Margin,         \* non_marketable_margin, in tenths
    Positions,      \* the positions the account may have
    StatusWords,    \* the status words the exchange uses
    None            \* Python's None

VARIABLES
    config,     \* RuntimeConfig, acknowledgement, and TestnetSmokeOrderConfig: side,
                \* limit and require_non_marketable
    mark,       \* the mark price at the exchange
    order,      \* the order at the exchange
    position,   \* the account's position at the exchange
    pc,         \* the call the run is about to make
    markSeen,   \* mark_price
    submitted,  \* submitted_order.status
    before,     \* query_before.status
    after,      \* query_after.status
    raising,    \* an exception passes through the finally block
    canceling,  \* outcome of the cancel call
    row,        \* the position row of the run's own table
    safe,       \* the state of the run's own SafeModeController
    audits      \* consistent of the order and the position reconciliation

reads == <<markSeen, submitted, before, after>>
exchange == <<mark, order, position>>
local == <<reads, raising, canceling, row, safe, audits>>
vars == <<config, exchange, pc, local>>

Configs == [runtime: Runtimes, acknowledged: BOOLEAN,
            side: {"BUY", "SELL"}, limit: LimitPrices, guarded: BOOLEAN]
Orders == [price: Int, status: StatusWords]

ASSUME SmokeAssumption ==
    /\ Runtimes \subseteq RuntimeConfigs
    /\ MarkPrices \subseteq Nat /\ LimitPrices \subseteq Nat
    /\ TickSize \in Nat \ {0}
    /\ Margin \in Int
    /\ {"NEW", "PARTIALLY_FILLED", "FILLED", "CANCELED"} \subseteq StatusWords
    /\ StatusWords \subseteq BinanceStatuses
    /\ None \notin Orders \cup Nat \cup OrderStatuses \cup Positions \cup BOOLEAN

Init ==
    /\ config \in Configs
    /\ mark \in MarkPrices
    /\ order = None /\ position \in Positions
    /\ pc = "start"
    /\ markSeen = None /\ submitted = None /\ before = None /\ after = None
    /\ raising = FALSE
    /\ canceling = "not asked"
    /\ row = None
    /\ safe = "NORMAL"
    /\ audits = [orders |-> None, positions |-> None]

IsOpen == order # None /\ order.status \in BinanceOpen

\* The order would trade with the market at once.
Marketable(price, m) ==
    IF config.side = "BUY" THEN m <= price ELSE m >= price

\* floor_to_step.
Floored(price) == TickSize * (price \div TickSize)

-----------------------------------------------------------------------------
\* Mutation: both sides are compared with the lower price.
NonMarketableOneSided(m) ==
    config.guarded =>
        /\ m > 0 /\ Margin \in 1..9
        /\ config.side = "BUY" => 10 * config.limit < m * (10 - Margin)
        /\ config.side = "SELL" => 10 * config.limit > m * (10 - Margin)

\* _validate_non_marketable returns.
NonMarketable(m) ==
    config.guarded =>
        /\ m > 0 /\ Margin \in 1..9
        /\ config.side = "BUY" => 10 * config.limit < m * (10 - Margin)
        /\ config.side = "SELL" => 10 * config.limit > m * (10 + Margin)

\* The mark price is there: the run goes on to place its order, or raises.
UseMarkPrice(m) ==
    /\ markSeen' = m
    /\ pc' = IF NonMarketable(m) THEN "route" ELSE "raised"

\* _validate_runtime returns.
ValidRuntime(runtime) ==
    /\ runtime.tradingMode = "EXCHANGE_TESTNET"
    /\ runtime.exchange = "BINANCE_USDM_TESTNET"
    /\ HasCredentials(runtime)

\* The run begins with an acknowledged testnet configuration, and is refused with
\* any other; there is no fallback to the in-memory adapter.
Start ==
    /\ pc = "start"
    /\ \/ /\ ValidRuntime(config.runtime) /\ config.acknowledged
          /\ Adapter(config.runtime, FALSE) = "rest"
          /\ pc' = "read"
       \/ /\ ~ (ValidRuntime(config.runtime) /\ config.acknowledged)
          /\ pc' = "raised"
    /\ UNCHANGED <<config, exchange, local>>

\* The positions are read; a row of the symbol that names a positive mark price
\* saves asking for one.
ReadPositions ==
    /\ pc = "read"
    /\ \/ UseMarkPrice(mark) /\ mark > 0
       \/ pc' = "read mark" /\ UNCHANGED markSeen
    /\ UNCHANGED <<config, exchange, submitted, before, after, raising,
                   canceling, row, safe, audits>>

ReadMarkPrice ==
    /\ pc = "read mark"
    /\ UseMarkPrice(mark)
    /\ UNCHANGED <<config, exchange, submitted, before, after, raising,
                   canceling, row, safe, audits>>

\* The router takes the intent (nothing is in SAFE_MODE yet), floors its price to
\* the tick, and the exchange accepts the order.
PlaceOrder ==
    /\ pc = "route"
    /\ Floored(config.limit) > 0
    /\ order' = [price |-> Floored(config.limit), status |-> "NEW"]
    /\ pc' = "submit"
    /\ UNCHANGED <<config, mark, position, local>>

\* Mutation: the answer's status word is kept as the exchange spells it.
SubmitAnsweredRaw ==
    /\ pc = "submit"
    /\ submitted' = order.status
    /\ pc' = "query"
    /\ UNCHANGED <<config, exchange, markSeen, before, after, raising,
                   canceling, row, safe, audits>>

\* The exchange answers with the order as it is by now.  A word the adapter does
\* not know leaves the order as the router set it, SUBMITTED.
SubmitAnswered ==
    /\ pc = "submit"
    /\ submitted' = IF ParsedStatus(order.status) = "UNKNOWN" THEN "SUBMITTED"
                    ELSE ParsedStatus(order.status)
    /\ pc' = "query"
    /\ UNCHANGED <<config, exchange, markSeen, before, after, raising,
                   canceling, row, safe, audits>>

\* The exchange refuses the order, or its answer is lost: route raises and there is
\* no submitted order for the finally block to cancel.
RouteRaises ==
    /\ pc \in {"route", "submit"}
    /\ pc' = "raised"
    /\ UNCHANGED <<config, exchange, local>>

\* Mutation: the cancellation only follows a query that was answered.
QueryAnsweredOnly ==
    /\ pc = "query"
    /\ \/ before' \in {None, ParsedStatus(order.status)} /\ UNCHANGED raising /\ pc' = "cancel"
       \/ raising' = TRUE /\ UNCHANGED before /\ pc' = "raised"
    /\ UNCHANGED <<config, exchange, markSeen, submitted, after, canceling,
                   row, safe, audits>>

\* The first query, inside the try: answered, answered with nothing, or raising.
QueryBefore ==
    /\ pc = "query"
    /\ \/ before' \in {None, ParsedStatus(order.status)} /\ UNCHANGED raising
       \/ raising' = TRUE /\ UNCHANGED before
    /\ pc' = "cancel"
    /\ UNCHANGED <<config, exchange, markSeen, submitted, after, canceling,
                   row, safe, audits>>

CloseOrder ==
    order' = IF IsOpen THEN [order EXCEPT !.status = "CANCELED"] ELSE order

\* The cancel call returns; an order that is closed already stays as it is.
Cancel ==
    /\ pc = "cancel"
    /\ CloseOrder
    /\ canceling' = "returned"
    /\ pc' = "query again"
    /\ UNCHANGED <<config, mark, position, reads, raising, row, safe, audits>>

\* It raises, whether it reached the exchange or not: the second query is skipped.
CancelRaises ==
    /\ pc = "cancel"
    /\ CloseOrder \/ UNCHANGED order
    /\ canceling' = "raised"
    /\ pc' = "raised"
    /\ UNCHANGED <<config, mark, position, reads, raising, row, safe, audits>>

\* The second query ends the finally block.
QueryAfter ==
    /\ pc = "query again"
    /\ after' \in {None, ParsedStatus(order.status)}
    /\ pc' = IF raising \/ before = None \/ after' = None THEN "raised" ELSE "refresh"
    /\ UNCHANGED <<config, exchange, markSeen, submitted, before, raising,
                   canceling, row, safe, audits>>

\* refresh_local_positions_from_exchange, into the empty table.
RefreshPositions ==
    /\ pc = "refresh"
    /\ row' = position
    /\ pc' = "audit orders"
    /\ UNCHANGED <<config, exchange, reads, raising, canceling, safe, audits>>

\* Any of the reads raises.
ReadRaises ==
    /\ pc \in {"read", "read mark", "query again", "refresh"}
    /\ pc' = "raised"
    /\ UNCHANGED <<config, exchange, local>>

\* One reconciliation: what it finds, and SAFE_MODE when it is not consistent.
Audit(name, consistent) ==
    /\ audits' = [audits EXCEPT ![name] = consistent]
    /\ safe' = IF consistent THEN safe ELSE "SAFE_MODE"

\* The run's order table is empty, and the REST adapter, the only one a run accepts,
\* answers every request for the open orders with an empty list: the comparison is
\* consistent whatever is open at the exchange.  A request that raises is a mismatch.
AuditOrders ==
    /\ pc = "audit orders"
    /\ Audit("orders", TRUE) \/ Audit("orders", FALSE)
    /\ pc' = "audit positions"
    /\ UNCHANGED <<config, exchange, reads, raising, canceling, row>>

AuditPositions ==
    /\ pc = "audit positions"
    /\ Audit("positions", row = position) \/ Audit("positions", FALSE)
    /\ pc' = "returned"
    /\ UNCHANGED <<config, exchange, reads, raising, canceling, row>>

-----------------------------------------------------------------------------
MarkMoves ==
    /\ mark' \in MarkPrices \ {mark}
    /\ UNCHANGED <<config, order, position, pc, local>>

\* An open order executes, in part or whole, when the market reaches it, and moves
\* the position.
Fill ==
    /\ IsOpen /\ Marketable(order.price, mark)
    /\ \E word \in {"PARTIALLY_FILLED", "FILLED"} : order' = [order EXCEPT !.status = word]
    /\ position' \in Positions \ {position}
    /\ UNCHANGED <<config, mark, pc, local>>

\* The exchange closes the order for a reason of its own.
GoesAway ==
    /\ IsOpen
    /\ \E word \in StatusWords \ (BinanceOpen \cup {"FILLED"}) :
           order' = [order EXCEPT !.status = word]
    /\ UNCHANGED <<config, mark, position, pc, local>>

PositionMoves ==
    /\ position' \in Positions \ {position}
    /\ UNCHANGED <<config, mark, order, pc, local>>

RunNext ==
    \/ Start \/ ReadPositions \/ ReadMarkPrice
    \/ PlaceOrder \/ SubmitAnswered \/ RouteRaises
    \/ QueryBefore \/ Cancel \/ CancelRaises \/ QueryAfter
    \/ RefreshPositions \/ ReadRaises
    \/ AuditOrders \/ AuditPositions

ExchangeNext == MarkMoves \/ Fill \/ GoesAway \/ PositionMoves

Next == RunNext \/ ExchangeNext

Spec == Init /\ [][Next]_vars

-----------------------------------------------------------------------------
(***************************************************************************)
(* Properties.                                                             *)
(***************************************************************************)
Accepted == {"SUBMITTED", "PARTIALLY_FILLED", "FILLED"}

\* Mutation: the status after the cancellation is not looked at.
OkUnqueried ==
    /\ pc = "returned"
    /\ submitted \in Accepted
    /\ audits.orders /\ audits.positions
    /\ safe = "NORMAL"

\* TestnetReadWriteSmokeResult.ok.
Ok ==
    /\ pc = "returned"
    /\ submitted \in Accepted
    /\ after = "CANCELED"
    /\ audits.orders /\ audits.positions
    /\ safe = "NORMAL"

Pcs == {"start", "read", "read mark", "route", "submit", "query", "cancel", "query again",
        "refresh", "audit orders", "audit positions", "returned", "raised"}

TypeOK ==
    /\ config \in Configs /\ mark \in MarkPrices
    /\ order = None \/ order \in Orders
    /\ position \in Positions
    /\ pc \in Pcs
    /\ markSeen \in MarkPrices \cup {None}
    /\ {submitted, before, after} \subseteq OrderStatuses \cup {None}
    /\ raising \in BOOLEAN
    /\ canceling \in {"not asked", "returned", "raised"}
    /\ row \in Positions \cup {None}
    /\ safe \in {"NORMAL", "SAFE_MODE"}
    /\ audits \in [orders: BOOLEAN \cup {None}, positions: BOOLEAN \cup {None}]

\* The guard works on the price the order is given, not only on the one it was
\* configured with: as long as the mark price is the one the guard saw, the order
\* that was placed does not trade, flooring and either side included.
RestsAtTheMarkSeen ==
    config.guarded /\ order # None /\ mark = markSeen => ~ Marketable(order.price, mark)

\* A run that ends leaves its order open in two cases only: the answer to its
\* submission never came, or the cancel call itself raised.  A query that raises
\* before it, or a query answered with nothing, does not (the finally block).
NoOrderForgotten ==
    pc \in {"returned", "raised"} /\ IsOpen => submitted = None \/ canceling = "raised"

\* A run that reports ok has had its order canceled: it is neither open, nor filled,
\* nor expired, whatever happened between any two of the run's calls.  The second query
\* alone carries this: the order reconciliation cannot see an open order (AuditOrders),
\* and the position reconciliation only that the position did not move since its row.
OkMeansCanceled == Ok => order.status = "CANCELED"

=============================================================================
