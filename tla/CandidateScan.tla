---------------------------- MODULE CandidateScan ----------------------------
(***************************************************************************)
(* A scan of one symbol against a market that moves: the daily, four-hour  *)
(* and one-hour klines are fetched by three calls, one after the other,    *)
(* and the last kline of each answer is the one still forming.  From what  *)
(* the three calls returned, build_sleeve_b_candidate makes the candidate. *)
(***************************************************************************)
EXTENDS SleeveBSignals

CONSTANTS
    Prices,        \* prices the symbol may trade at
    StartPrice,    \* the price all of its history was traded at
    Histories,     \* numbers of bars the symbol has to begin with
    DailyLimit, FourLimit, HourLimit,  \* the limits of the three calls
    HoursPerFour,  \* one-hour bars in a four-hour bar
    FoursPerDay,   \* four-hour bars in a day
    MaxHours,      \* bound: hours that pass
    MaxTrades      \* bound: changes of the price

VARIABLES
    daily,     \* closes of the daily bars
    four,      \* the four-hour bars
    hour,      \* the one-hour bars
    hours,     \* hours that have passed
    trades,    \* changes of the price there have been
    pc,        \* the call the scan is at
    seen,      \* what the calls have returned
    candidate  \* what the last scan has come to

market == <<daily, four, hour, hours, trades>>
vars == <<daily, four, hour, hours, trades, pc, seen, candidate>>

ASSUME ScanAssumption ==
    /\ Prices \subseteq Nat \ {0} /\ StartPrice \in Prices
    /\ Histories \subseteq Nat \ {0}
    /\ {DailyLimit, FourLimit, HourLimit} \subseteq Nat \ {0}
    /\ {HoursPerFour, FoursPerDay} \subseteq Nat \ {0}
    /\ {MaxHours, MaxTrades} \subseteq Nat

Flat(price) == [open |-> price, high |-> price, low |-> price, close |-> price]
Price == LastOf(daily)
NothingSeen == [daily |-> <<>>, four |-> <<>>, hour |-> <<>>]

Init ==
    /\ \E n \in Histories :
          /\ daily = [i \in 1..n |-> StartPrice]
          /\ four = [i \in 1..n |-> Flat(StartPrice)]
          /\ hour = [i \in 1..n |-> Flat(StartPrice)]
    /\ hours = 0
    /\ trades = 0
    /\ pc = "idle"
    /\ seen = NothingSeen
    /\ candidate = NoCandidate

-----------------------------------------------------------------------------
(***************************************************************************)
(* The market.                                                             *)
(***************************************************************************)
\* The last n elements of a series.
Latest(s, n) == SubSeq(s, Max({1, Len(s) - n + 1}), Len(s))

Traded(bar, price) ==
    [bar EXCEPT !.close = price, !.high = Max({@, price}), !.low = Min({@, price})]

\* A series whose forming bar takes a price up, and one whose next bar opens with it.
TakesUp(bars, price) == [bars EXCEPT ![Len(bars)] = Traded(@, price)]
OpensWith(bars, price, limit) == Latest(Append(bars, Flat(price)), limit)

Changes(price) == IF price = Price THEN 0 ELSE 1

Trade(price) ==
    /\ price # Price /\ trades < MaxTrades
    /\ daily' = [daily EXCEPT ![Len(daily)] = price]
    /\ four' = TakesUp(four, price)
    /\ hour' = TakesUp(hour, price)
    /\ trades' = trades + 1
    /\ UNCHANGED <<hours, pc, seen, candidate>>

FourOf(h) == h \div HoursPerFour
DayOf(h) == FourOf(h) \div FoursPerDay

\* The hour's bar is complete, the four-hour and the daily bar may be with it, and the
\* first trade of the next hour may be away from the last of this one.  Bars older than
\* any call asks for are dropped.
HourEnds(price) ==
    /\ hours < MaxHours /\ trades + Changes(price) <= MaxTrades
    /\ hours' = hours + 1
    /\ trades' = trades + Changes(price)
    /\ hour' = OpensWith(hour, price, HourLimit)
    /\ four' = IF FourOf(hours') = FourOf(hours) THEN TakesUp(four, price)
               ELSE OpensWith(four, price, FourLimit)
    /\ daily' = IF DayOf(hours') = DayOf(hours) THEN [daily EXCEPT ![Len(daily)] = price]
                ELSE Latest(Append(daily, price), DailyLimit)
    /\ UNCHANGED <<pc, seen, candidate>>

-----------------------------------------------------------------------------
(***************************************************************************)
(* The scan.                                                               *)
(***************************************************************************)
FetchDaily ==
    /\ pc = "idle"
    /\ seen' = [NothingSeen EXCEPT !.daily = daily]
    /\ candidate' = NoCandidate
    /\ pc' = "four"
    /\ UNCHANGED market

FetchFour ==
    /\ pc = "four"
    /\ seen' = [seen EXCEPT !.four = four]
    /\ pc' = "hour"
    /\ UNCHANGED <<market, candidate>>

\* The last call, which may return no bars, and the candidate of what the three calls
\* have returned.
FetchHourAndBuild ==
    /\ pc = "hour"
    /\ \E bars \in {hour, <<>>} :
           /\ seen' = [seen EXCEPT !.hour = bars]
           /\ candidate' = CandidateOf(seen.daily, seen.four, bars)
    /\ pc' = "built"
    /\ UNCHANGED market

\* Mutation: the candidate outlives the scan it came from.
DeliverKept ==
    /\ pc = "built"
    /\ seen' = NothingSeen
    /\ pc' = "idle"
    /\ UNCHANGED <<market, candidate>>

\* The candidate is handed on.
Deliver ==
    /\ pc = "built"
    /\ seen' = NothingSeen
    /\ candidate' = NoCandidate
    /\ pc' = "idle"
    /\ UNCHANGED market

\* A call raises, and the scan with it.
FetchFails ==
    /\ pc \in {"four", "hour"}
    /\ seen' = NothingSeen
    /\ pc' = "idle"
    /\ UNCHANGED <<market, candidate>>

Next ==
    \/ \E price \in Prices : Trade(price) \/ HourEnds(price)
    \/ FetchDaily
    \/ FetchFour
    \/ FetchHourAndBuild
    \/ Deliver
    \/ FetchFails

Spec == Init /\ [][Next]_vars

-----------------------------------------------------------------------------
(***************************************************************************)
(* Properties.                                                             *)
(***************************************************************************)
BarRecords ==
    {b \in [open: Prices, high: Prices, low: Prices, close: Prices] :
        b.low <= Min({b.open, b.close}) /\ Max({b.open, b.close}) <= b.high}

TypeOK ==
    /\ daily \in Seq(Prices) /\ four \in Seq(BarRecords) /\ hour \in Seq(BarRecords)
    /\ LastOf(four).close = Price /\ LastOf(hour).close = Price
    /\ hours \in 0..MaxHours /\ trades \in 0..MaxTrades
    /\ pc \in {"idle", "four", "hour", "built"}
    /\ seen.daily \in Seq(Prices) /\ seen.four \in Seq(BarRecords)
    /\ seen.hour \in Seq(BarRecords)
    /\ candidate.side \in {"LONG", "SHORT", "NONE"}
    /\ candidate.side # "NONE" => pc = "built"

\* However the price moved between the three calls, a candidate's stop lies beyond its
\* limit, by a distance that is not zero, and its limit is on the passive side of the last
\* price the scan saw, or that very price where no one-hour bars were returned
\* (sleeve_b_candidate_builder.py:70-77, 119-131: a breakout forces a true range, which is
\* what allocate() divides the risk by).
CandidateIsTradable ==
    LET untimed == seen.hour = <<>>
        last    == PriceScale * LastOf(IF untimed THEN seen.four ELSE seen.hour).close
        entry   == candidate.entry
    IN  /\ candidate.side = "LONG" =>
               /\ candidate.stop < entry
               /\ IF untimed THEN entry = last ELSE entry < last
        /\ candidate.side = "SHORT" =>
               /\ candidate.stop > entry
               /\ IF untimed THEN entry = last ELSE entry > last

\* The series seen in a mirror that exchanges high and low, rise and fall.
Reflected(price) == 2 * StartPrice - price
ReflectedBar(b) ==
    [open |-> Reflected(b.open), high |-> Reflected(b.low),
     low |-> Reflected(b.high), close |-> Reflected(b.close)]
ReflectedBars(s) == [i \in DOMAIN s |-> ReflectedBar(s[i])]
Opposite(side) == IF side = "LONG" THEN "SHORT" ELSE IF side = "SHORT" THEN "LONG" ELSE "NONE"

\* The rules for LONG and for SHORT are mirror images, gate by gate and at every boundary:
\* prices turned upside down turn the decision round (sleeve_b.py:42-59,
\* sleeve_b_candidate_builder.py:96-143).
SidesMirror ==
    pc = "built" =>
        SideOf([i \in DOMAIN seen.daily |-> Reflected(seen.daily[i])],
               ReflectedBars(seen.four), ReflectedBars(seen.hour))
            = Opposite(SideOf(seen.daily, seen.four, seen.hour))

\* While a four-hour bar forms, a later scan never puts the stop nearer to the entry than an
\* earlier one, although the scan takes the unfinished bar for a whole one
\* (sleeve_b_candidate_builder.py:72-73, 146-160).
StopNeverTightens ==
    [][FourOf(hours') = FourOf(hours) /\ Len(four) > AtrPeriod =>
           StopDistanceOf(four') >= StopDistanceOf(four)]_vars

RegimeRank(closes) ==
    CASE Regime(closes) = "BEAR" -> 0 [] Regime(closes) = "CHOP" -> 1
      [] Regime(closes) = "BULL" -> 2

\* While a day's bar forms, a rising price never turns the regime towards BEAR and a
\* falling one never towards BULL, although both averages move with the same close
\* (sleeve_b.py:29-39).
RegimeFollowsPrice ==
    [][DayOf(hours') = DayOf(hours) =>
           /\ LastOf(daily') >= Price => RegimeRank(daily') >= RegimeRank(daily)
           /\ LastOf(daily') <= Price => RegimeRank(daily') <= RegimeRank(daily)]_vars

=============================================================================
