----------------------------- MODULE TradeReplay -----------------------------
(***************************************************************************)
(* run_sleeve_b_replay: a walk over the 4H bars that looks for a signal,   *)
(* follows the trade it opens bar by bar (_simulate_trade) and goes on     *)
(* where the trade ended.                                                  *)
(*                                                                         *)
(* Prices are distances from the entry in the trade's favour, so that long *)
(* and short trades are the same: the stop is at -StopDistance, a bar's    *)
(* best, worst and last price are up, down and close.  Fractions are       *)
(* tenths, and results are distances times tenths: one R is 10 times       *)
(* StopDistance.  The signal and the ATR may be anything.                  *)
(***************************************************************************)
EXTENDS Integers, Sequences

CONSTANTS
    Bars,           \* numbers of bars a replay may have after the warm-up
    StopDistance,   \* atr * stop_atr_multiple
    Targets,        \* tp1_r, tp2_r, tp3_r: distances of the three targets
    Fractions,      \* tp1_fraction, tp2_fraction, tp3_fraction, in tenths
    TimeStopBars,   \* time_stop_bars
    Offsets         \* the distances from an entry that prices are taken from

VARIABLES
    last,    \* number of bars there are
    index,   \* the bar under consideration
    pc,      \* "scan": looking for a signal; "trade": following a trade
    trade,   \* the open trade
    trades   \* the trades that have ended

vars == <<last, index, pc, trade, trades>>

Ladder == 1..3
BarShapes == {b \in [up: Offsets, down: Offsets, close: Offsets] :
                  b.down <= b.close /\ b.close <= b.up}

ASSUME ReplayAssumption ==
    /\ Bars \subseteq Nat /\ Offsets \subseteq Int
    /\ StopDistance \in Nat \ {0} /\ TimeStopBars \in Nat \ {0}
    /\ Targets \in [Ladder -> Nat \ {0}]
    /\ Targets[1] < Targets[2] /\ Targets[2] < Targets[3]
    /\ Fractions \in [Ladder -> Nat]
    /\ Fractions[1] + Fractions[2] + Fractions[3] = 10

\* entry: the bar of the entry; held: bars_held; level: the stop; hits: tp_hits;
\* remaining: what is still open, in tenths; realized: the result so far; close: the
\* last close seen; reason: exit_reason.
NewTrade(i) ==
    [entry |-> i, held |-> 0, level |-> -StopDistance, hits |-> <<>>,
     remaining |-> 10, realized |-> 0, close |-> 0, reason |-> "OPEN"]

Init ==
    /\ last \in Bars
    /\ index = 0
    /\ pc = "scan"
    /\ trade = NewTrade(0)
    /\ trades = <<>>

-----------------------------------------------------------------------------
\* Everything that is open is closed at a price, for a reason.
CloseRest(t, price, reason) ==
    [t EXCEPT !.realized = @ + price * t.remaining, !.remaining = 0,
              !.reason = reason]

Hit(t, k) == \E i \in DOMAIN t.hits : t.hits[i] = k
Lesser(m, n) == IF m <= n THEN m ELSE n

\* Mutation: the stop stays where it was when the first target is hit.
TakeTargetNoMove(t, k, b) ==
    IF Hit(t, k) \/ b.up < Targets[k] THEN t
    ELSE LET fraction == Lesser(Fractions[k], t.remaining)
         IN  [t EXCEPT !.realized = @ + Targets[k] * fraction,
                       !.remaining = @ - fraction,
                       !.hits = Append(@, k), !.reason = "TARGET"]

\* Mutation: a target is taken on every bar that reaches it, whatever remains.
TakeTargetAgain(t, k, b) ==
    IF b.up < Targets[k] THEN t
    ELSE [t EXCEPT !.realized = @ + Targets[k] * Fractions[k],
                   !.remaining = @ - Fractions[k],
                   !.hits = Append(@, k), !.reason = "TARGET",
                   !.level = IF k = 1 THEN 0 ELSE @]

\* One target of the ladder: its fraction is closed if the bar reaches it, and the
\* first one moves the stop to the entry.
TakeTarget(t, k, b) ==
    IF Hit(t, k) \/ b.up < Targets[k] THEN t
    ELSE LET fraction == Lesser(Fractions[k], t.remaining)
         IN  [t EXCEPT !.realized = @ + Targets[k] * fraction,
                       !.remaining = @ - fraction,
                       !.hits = Append(@, k), !.reason = "TARGET",
                       !.level = IF k = 1 THEN 0 ELSE @]

TakeTargets(t, b) == TakeTarget(TakeTarget(TakeTarget(t, 1, b), 2, b), 3, b)

Stopped(t, b) == b.down <= t.level

StopReason(t) == IF t.level = -StopDistance THEN "STOP_LOSS" ELSE "BREAKEVEN_STOP"

\* Mutation: the time stop is looked at before the stop.
AfterBarTimeFirst(t, b) ==
    LET seen  == [t EXCEPT !.held = @ + 1, !.close = b.close]
        taken == TakeTargets(seen, b)
    IN  IF seen.held >= TimeStopBars THEN CloseRest(seen, b.close, "TIME_STOP")
        ELSE IF Stopped(t, b) THEN CloseRest(seen, t.level, StopReason(t))
        ELSE taken

\* What one bar makes of an open trade: the stop first, at its old level, then the
\* targets, then the time stop.
AfterBar(t, b) ==
    LET seen  == [t EXCEPT !.held = @ + 1, !.close = b.close]
        taken == TakeTargets(seen, b)
    IN  IF Stopped(t, b) THEN CloseRest(seen, t.level, StopReason(t))
        ELSE IF taken.remaining > 0 /\ seen.held >= TimeStopBars
             THEN CloseRest(taken, b.close, "TIME_STOP")
        ELSE taken

-----------------------------------------------------------------------------
\* No signal at this bar.
Pass ==
    /\ pc = "scan" /\ index < last
    /\ index' = index + 1
    /\ UNCHANGED <<last, pc, trade, trades>>

\* A signal: a trade is entered at the bar's close.
Enter ==
    /\ pc = "scan" /\ index < last
    /\ trade' = NewTrade(index)
    /\ pc' = "trade"
    /\ UNCHANGED <<last, index, trades>>

\* Mutation: the scan goes on at the bar of the entry.
EndTradeInPlace(t) ==
    /\ trades' = Append(trades, t)
    /\ index' = index + 1
    /\ pc' = "scan"
    /\ trade' = NewTrade(0)
    /\ UNCHANGED last

\* The trade is over; the scan goes on at the bar it ended with.
EndTrade(t) ==
    /\ trades' = Append(trades, t)
    /\ index' = index + (IF t.held > 1 THEN t.held ELSE 1)
    /\ pc' = "scan"
    /\ trade' = NewTrade(0)
    /\ UNCHANGED last

BarsLeft == trade.entry + trade.held < last - 1

FollowBar(b) ==
    /\ pc = "trade" /\ BarsLeft
    /\ \/ /\ AfterBar(trade, b).remaining <= 0
          /\ EndTrade(AfterBar(trade, b))
       \/ /\ AfterBar(trade, b).remaining > 0
          /\ trade' = AfterBar(trade, b)
          /\ UNCHANGED <<last, index, pc, trades>>

\* The bars run out: the rest is closed at the last close.
EndOfData ==
    /\ pc = "trade" /\ ~ BarsLeft
    /\ EndTrade(CloseRest(trade, trade.close, "END_OF_DATA"))

Next ==
    \/ Pass
    \/ Enter
    \/ \E b \in BarShapes : FollowBar(b)
    \/ EndOfData

Spec == Init /\ [][Next]_vars

-----------------------------------------------------------------------------
(***************************************************************************)
(* _summarize.                                                             *)
(***************************************************************************)
\* The equity after each of the first n trades; nothing before the first one.
Equity[n \in 0..Len(trades)] ==
    IF n = 0 THEN 0 ELSE Equity[n - 1] + trades[n].realized

Larger(m, n) == IF m >= n THEN m ELSE n

Peak[n \in 0..Len(trades)] ==
    IF n = 0 THEN 0 ELSE Larger(Peak[n - 1], Equity[n])

\* Mutation: the fall is measured from the trade before.
FallFromLastTrade(n) == Equity[n] - Equity[n - 1]

FallFromPeak(n) == Equity[n] - Peak[n]

Drawdown[n \in 0..Len(trades)] ==
    IF n = 0 THEN 0 ELSE Lesser(Drawdown[n - 1], FallFromPeak(n))

-----------------------------------------------------------------------------
(***************************************************************************)
(* Properties.                                                             *)
(***************************************************************************)
Reasons == {"OPEN", "TARGET", "STOP_LOSS", "BREAKEVEN_STOP", "TIME_STOP", "END_OF_DATA"}
TradeRecords ==
    [entry: Nat, held: Nat, level: {-StopDistance, 0}, hits: Seq(Ladder),
     remaining: 0..10, realized: Int, close: Offsets \cup {0}, reason: Reasons]

TypeOK ==
    /\ last \in Bars /\ index \in Nat
    /\ pc \in {"scan", "trade"}
    /\ trade \in TradeRecords
    /\ trades \in Seq(TradeRecords)

AllTrades == {trades[i] : i \in DOMAIN trades} \cup {trade}

\* What targets 1..n close and bring.
Share(n, k) == IF k <= n THEN Fractions[k] ELSE 0
LadderClosed(n) == Share(n, 1) + Share(n, 2) + Share(n, 3)
LadderGain(n) ==
    Targets[1] * Share(n, 1) + Targets[2] * Share(n, 2) + Targets[3] * Share(n, 3)

\* No trade loses more than one R and none gains more than the whole ladder, whichever
\* of stop, targets, time stop and end of data closes it, over bars of every shape
\* (the stop is looked at first, on every bar, before a close can be booked).
ResultWithinPlan ==
    \A t \in AllTrades :
        -10 * StopDistance <= t.realized /\ t.realized <= LadderGain(3)

\* The targets are taken in order and each at most once, also when one bar reaches
\* several; while a trade is open its result and what remains are exactly those of
\* the targets taken, and its stop stands at the entry from the first target on.
LadderTakenInOrder ==
    \A t \in AllTrades :
        LET n == Len(t.hits)
        IN  /\ n <= 3 /\ t.hits = SubSeq(<<1, 2, 3>>, 1, n)
            /\ t.level = (IF n = 0 THEN -StopDistance ELSE 0)
            /\ t.remaining > 0 => /\ t.realized = LadderGain(n)
                                  /\ t.remaining = 10 - LadderClosed(n)

\* The reason a trade reports is the one its result has: STOP_LOSS is exactly the stop's
\* distance lost, which is one R unless leverage has capped the size, BREAKEVEN_STOP is exactly what the targets brought and at least the first,
\* a target as the reason means that nothing was closed anywhere else.
ReasonFitsResult ==
    \A i \in DOMAIN trades :
        LET t == trades[i]
            n == Len(t.hits)
        IN  /\ t.reason = "STOP_LOSS" => t.realized = -10 * StopDistance
            /\ t.reason = "BREAKEVEN_STOP" => n > 0 /\ t.realized = LadderGain(n)
            /\ t.reason = "TARGET" => t.realized = LadderGain(3)
            /\ t.remaining = 0 /\ t.reason # "OPEN"

ExitBar(t) == t.entry + t.held

\* The replay holds one position at a time: a trade is entered no earlier than the bar
\* the one before it ended with, and none outlives the time stop or the data.
TradesDoNotOverlap ==
    /\ \A i \in DOMAIN trades :
          /\ trades[i].held <= TimeStopBars
          /\ ExitBar(trades[i]) < last
    /\ \A i, j \in DOMAIN trades : i < j =>
          /\ trades[i].entry < trades[j].entry
          /\ ExitBar(trades[i]) <= trades[j].entry

\* max_drawdown, kept by one pass with a running peak, is the deepest fall of the
\* equity from any earlier point of it, the start included.
DrawdownIsWorstFall ==
    LET n    == Len(trades)
        fell == {Equity[p[2]] - Equity[p[1]] : p \in {q \in (0..n) \X (0..n) : q[1] <= q[2]}}
    IN  /\ Drawdown[n] \in fell
        /\ \A f \in fell : Drawdown[n] <= f

=============================================================================
