--------------------------- MODULE SleeveBAllocator ---------------------------
(***************************************************************************)
(* SleeveBExecutionAllocator.allocate, the symbol filters and the limit    *)
(* price of an entry, as operators over whole numbers.                     *)
(*                                                                         *)
(* Prices and money are in cents, quantities in contracts, fractions in    *)
(* percent.  The code multiplies fractions of fractions in Decimal; here   *)
(* both sides of a comparison are multiplied by 10000 (and by the leverage *)
(* where it divides by it), which loses nothing.  A quantity is floored    *)
(* once per bound instead of once for the smaller bound, which is the same.*)
(***************************************************************************)
EXTENDS Integers, FiniteSetsExt, Functions

CONSTANTS
    AllowedSymbols,     \* allocator config: symbols
    UsablePercent,      \* allocator config: usable_balance_fraction
    PortfolioPercent,   \* allocator config: max_portfolio_margin_fraction
    PerPositionPercent, \* allocator config: max_per_position_margin_fraction
    RiskPercent,        \* allocator config: default_risk_fraction_per_trade
    Leverage,           \* allocator config: max_leverage
    MaxPositions,       \* allocator config: max_concurrent_positions
    MinAvailable,       \* allocator config: min_available_balance
    StepSize,           \* symbol filters: quantities are multiples of it
    TickSize,           \* symbol filters: prices are multiples of it
    MinNotional,        \* symbol filters: least quantity times price
    OffsetBps           \* loop config: limit_price_offset_bps

ASSUME AllocatorAssumption ==
    /\ {UsablePercent, PortfolioPercent, PerPositionPercent, RiskPercent} \subseteq 0..100
    /\ {Leverage, StepSize, TickSize} \subseteq Nat \ {0}
    /\ {MaxPositions, MinAvailable, MinNotional} \subseteq Nat
    /\ OffsetBps \in 0..10000

FloorTo(value, step) == (value \div step) * step

\* The distance a price has to fall (LONG) or rise (SHORT) to reach the stop.
LossTo(c, price) == IF c.side = "LONG" THEN price - c.stop ELSE c.stop - price

StopDistance(c) == IF c.entry > c.stop THEN c.entry - c.stop ELSE c.stop - c.entry

\* 10000 * risk_budget.
RiskBudget(available) == available * UsablePercent * RiskPercent

\* 10000 * the notional a margin cap of the usable balance allows.
NotionalOf(available, percent) == available * UsablePercent * percent * Leverage

\* 10000 * allowed_notional; used is the notional of the open positions.
AllowedNotional(available, used) ==
    Min({NotionalOf(available, PerPositionPercent),
         NotionalOf(available, PortfolioPercent) - 10000 * used})

\* Both bounds on the size, each floored to the step.
Quantity(c, available, used) ==
    Min({FloorTo(RiskBudget(available) \div (10000 * StopDistance(c)), StepSize),
         FloorTo(AllowedNotional(available, used) \div (10000 * c.entry), StepSize)})

\* Mutation: one position more than max_concurrent_positions.
HasRoomForOneMore(open) == Cardinality(open) <= MaxPositions

HasRoom(open) == Cardinality(open) < MaxPositions

\* allocate() accepts; open are the symbols with a position.  The last conjunct of
\* the code, that the margin is within the allowed one, adds nothing to the
\* quantity's bound: rounding the price to the tick only lowers the notional.
Accepts(c, available, open, used) ==
    /\ c.symbol \in AllowedSymbols
    /\ available >= MinAvailable
    /\ StopDistance(c) > 0
    /\ c.symbol \notin open
    /\ HasRoom(open)
    /\ AllowedNotional(available, used) > 0
    /\ Quantity(c, available, used) > 0
    /\ Quantity(c, available, used) * FloorTo(c.entry, TickSize) >= MinNotional

\* Mutation: the offset is taken to the other side of the entry price.
EntryLimitPriceAcross(c) ==
    IF c.side = "LONG" THEN c.entry * (10000 + OffsetBps)
                       ELSE c.entry * (10000 - OffsetBps)

\* 10000 * the limit price of the entry: below the entry price for a LONG, above it
\* for a SHORT, after the size was computed at the entry price.
EntryLimitPrice(c) ==
    IF c.side = "LONG" THEN c.entry * (10000 - OffsetBps)
                       ELSE c.entry * (10000 + OffsetBps)

\* What normalize_order_intent makes of the order, and whether it raises instead.
NormalizedPrice(c) == FloorTo(EntryLimitPrice(c) \div 10000, TickSize)
PassesFilters(quantity, price) == quantity > 0 /\ quantity * price >= MinNotional

=============================================================================
