---------------------------- MODULE SleeveBSignals ----------------------------
(***************************************************************************)
(* The signal and the candidate of Sleeve B as operators over price series *)
(* (strategies/sleeve_b.py and sleeve_b_candidate_builder.py).             *)
(*                                                                         *)
(* Prices are whole numbers.  The code computes in Decimal; here an        *)
(* average is kept as the numerator over its known denominator, and both   *)
(* sides of a comparison are multiplied by it.                             *)
(***************************************************************************)
EXTENDS Integers, Sequences, FiniteSetsExt

CONSTANTS
    MinDaily,        \* least number of daily closes for a regime (200)
    FastPeriod,      \* period of the fast daily average (50)
    SlowPeriod,      \* period of the slow daily average (200)
    Lookback,        \* builder config: donchian_lookback_bars
    AtrPeriod,       \* builder config: atr_period
    StopTenths,      \* builder config: stop_atr_multiple, in tenths
    RequireTiming,   \* builder config: require_1h_timing
    HourPeriod,      \* builder config: one_hour_ema_period
    ExtensionTenths, \* builder config: max_1h_extension_atr, in tenths
    OffsetBps        \* builder config: entry_offset_bps

ASSUME SignalAssumption ==
    /\ {MinDaily, FastPeriod, SlowPeriod, Lookback, AtrPeriod, HourPeriod} \subseteq Nat \ {0}
    /\ FastPeriod < SlowPeriod
    /\ {StopTenths, ExtensionTenths} \subseteq Nat \ {0}
    /\ RequireTiming \in BOOLEAN
    /\ OffsetBps \in 0..9999

LastOf(s) == s[Len(s)]
Distance(m, n) == IF m >= n THEN m - n ELSE n - m
Closes(bars) == [i \in DOMAIN bars |-> bars[i].close]

-----------------------------------------------------------------------------
(***************************************************************************)
(* Averages.                                                               *)
(***************************************************************************)
\* A power as a recursive function, which a proof can unfold.
Power(base, n) ==
    LET power[k \in 0..n] == IF k = 0 THEN 1 ELSE base * power[k - 1]
    IN  power[n]

\* The last value of ema(values, period) is EmaSum over EmaScale.
EmaScale(values, period) == Power(period + 1, Len(values) - 1)

EmaSum(values, period) ==
    LET sum[n \in DOMAIN values] ==
            IF n = 1 THEN values[1]
            ELSE 2 * values[n] * Power(period + 1, n - 2) + (period - 1) * sum[n - 1]
    IN  sum[Len(values)]

\* Mutation: a bar's own range alone, without the gap to the close before it.
TrueRangeInside(bars, i) == bars[i].high - bars[i].low

\* Mutation: from close to close.
TrueRangeOfCloses(bars, i) == Distance(bars[i].close, bars[i - 1].close)

TrueRange(bars, i) ==
    Max({bars[i].high - bars[i].low,
         Distance(bars[i].high, bars[i - 1].close),
         Distance(bars[i].low, bars[i - 1].close)})

\* AtrPeriod times the average true range.
AtrSum(bars) ==
    LET sum[i \in (Len(bars) - AtrPeriod)..Len(bars)] ==
            IF i = Len(bars) - AtrPeriod THEN 0 ELSE sum[i - 1] + TrueRange(bars, i)
    IN  sum[Len(bars)]

-----------------------------------------------------------------------------
(***************************************************************************)
(* Regime and breakout.                                                    *)
(***************************************************************************)
\* Mutation: the two averages change places in the comparison.
RegimeSwapped(closes) ==
    LET scaleFast == EmaScale(closes, FastPeriod)
        scaleSlow == EmaScale(closes, SlowPeriod)
        fast == EmaSum(closes, FastPeriod) * scaleSlow
        slow == EmaSum(closes, SlowPeriod) * scaleFast
        last == LastOf(closes) * scaleFast * scaleSlow
    IN  IF last > slow /\ slow > fast THEN "BULL"
        ELSE IF last < slow /\ slow < fast THEN "BEAR" ELSE "CHOP"

Regime(closes) ==
    LET scaleFast == EmaScale(closes, FastPeriod)
        scaleSlow == EmaScale(closes, SlowPeriod)
        fast == EmaSum(closes, FastPeriod) * scaleSlow
        slow == EmaSum(closes, SlowPeriod) * scaleFast
        last == LastOf(closes) * scaleFast * scaleSlow
    IN  IF last > fast /\ fast > slow THEN "BULL"
        ELSE IF last < fast /\ fast < slow THEN "BEAR" ELSE "CHOP"

\* The Lookback bars before the last one.
Channel(bars) == (Len(bars) - Lookback)..(Len(bars) - 1)

\* The side of donchian_signal.
Breakout(regime, bars) ==
    IF regime = "BULL" /\ \A i \in Channel(bars) : LastOf(bars).close > bars[i].high
    THEN "LONG"
    ELSE IF regime = "BEAR" /\ \A i \in Channel(bars) : LastOf(bars).close < bars[i].low
    THEN "SHORT" ELSE "NONE"

-----------------------------------------------------------------------------
(***************************************************************************)
(* One-hour timing.                                                        *)
(***************************************************************************)
\* The body is at least seven tenths of the range.
StrongBody(bar) ==
    /\ bar.high > bar.low
    /\ 10 * Distance(bar.close, bar.open) >= 7 * (bar.high - bar.low)
BearishReversal(bar) == bar.close < bar.open /\ StrongBody(bar)
BullishReversal(bar) == bar.close > bar.open /\ StrongBody(bar)

\* Mutation: a SHORT is refused on the average already.
TimingOkOneSided(side, bars) ==
    LET last   == LastOf(bars)
        scale  == EmaScale(Closes(bars), HourPeriod)
        above  == last.close * scale - EmaSum(Closes(bars), HourPeriod)
        length == ExtensionTenths * AtrSum(bars) * scale
    IN  IF side = "LONG"
        THEN above >= 0 /\ ~BearishReversal(last) /\ 10 * AtrPeriod * above <= length
        ELSE above < 0 /\ ~BullishReversal(last) /\ -10 * AtrPeriod * above <= length

\* The last close is on the side's half of the average, no further than the extension
\* allows, and its bar is no strong reversal against the side.
TimingOk(side, bars) ==
    LET last   == LastOf(bars)
        scale  == EmaScale(Closes(bars), HourPeriod)
        above  == last.close * scale - EmaSum(Closes(bars), HourPeriod)
        length == ExtensionTenths * AtrSum(bars) * scale
    IN  IF side = "LONG"
        THEN above >= 0 /\ ~BearishReversal(last) /\ 10 * AtrPeriod * above <= length
        ELSE above <= 0 /\ ~BullishReversal(last) /\ -10 * AtrPeriod * above <= length

-----------------------------------------------------------------------------
(***************************************************************************)
(* The candidate.                                                          *)
(***************************************************************************)
EnoughBars(daily, four, hour) ==
    /\ Len(daily) >= MinDaily
    /\ Len(four) >= Max({Lookback, AtrPeriod}) + 1
    /\ RequireTiming => Len(hour) >= Max({HourPeriod, AtrPeriod + 1})

SideOf(daily, four, hour) ==
    IF ~EnoughBars(daily, four, hour) THEN "NONE"
    ELSE LET side == Breakout(Regime(daily), four)
         IN  IF side # "NONE" /\ RequireTiming /\ ~TimingOk(side, hour)
             THEN "NONE" ELSE side

\* The candidate's prices are whole numbers in this fraction of a price.
PriceScale == 10000 * AtrPeriod

\* The last one-hour close moved by the offset, to the side the order waits on.
Passive(side, close) ==
    close * (IF side = "LONG" THEN 10000 - OffsetBps ELSE 10000 + OffsetBps)

\* _refined_entry_price; without one-hour bars the entry is the four-hour close.
EntryPrice(side, four, hour) ==
    LET breakout == 10000 * LastOf(four).close
        passive  == Passive(side, LastOf(hour).close)
    IN  AtrPeriod * IF hour = <<>> THEN breakout
                    ELSE IF side = "LONG" THEN Min({breakout, passive})
                                          ELSE Max({breakout, passive})

\* PriceScale times the stop distance.
StopDistanceOf(four) == 1000 * StopTenths * AtrSum(four)

NoCandidate == [side |-> "NONE", entry |-> 0, stop |-> 0]

CandidateOf(daily, four, hour) ==
    LET side  == SideOf(daily, four, hour)
        entry == EntryPrice(side, four, hour)
        stop  == IF side = "LONG" THEN entry - StopDistanceOf(four)
                                  ELSE entry + StopDistanceOf(four)
    IN  IF side = "NONE" THEN NoCandidate
        ELSE [side |-> side, entry |-> entry, stop |-> stop]

=============================================================================
