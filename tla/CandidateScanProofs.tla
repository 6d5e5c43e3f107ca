------------------------- MODULE CandidateScanProofs -------------------------
(***************************************************************************)
(* Theorems about CandidateScan, for all periods, multiples, prices,       *)
(* histories, limits and bar lengths.                                      *)
(***************************************************************************)
EXTENDS CandidateScan, SequenceTheorems, WellFoundedInduction, TLAPS

-----------------------------------------------------------------------------
(***************************************************************************)
(* Numbers and sequences.                                                  *)
(***************************************************************************)
LEMMA MaxOfTwo ==
    \A a, b \in Int : /\ Max({a, b}) \in Int /\ a <= Max({a, b}) /\ b <= Max({a, b})
                      /\ Max({a, b}) = a \/ Max({a, b}) = b
<1> SUFFICES ASSUME NEW a \in Int, NEW b \in Int
             PROVE  /\ Max({a, b}) \in Int /\ a <= Max({a, b}) /\ b <= Max({a, b})
                    /\ Max({a, b}) = a \/ Max({a, b}) = b
  OBVIOUS
<1> DEFINE S == {a, b}
<1>1. \E x \in S : \A y \in S : x >= y
  BY a >= b \/ b >= a
<1>2. Max(S) = CHOOSE x \in S : \A y \in S : x >= y
  BY DEF Max
<1>3. Max(S) \in S /\ \A y \in S : Max(S) >= y
  BY <1>1, <1>2
<1> QED  BY <1>3

LEMMA MinOfTwo ==
    \A a, b \in Int : /\ Min({a, b}) \in Int /\ Min({a, b}) <= a /\ Min({a, b}) <= b
                      /\ Min({a, b}) = a \/ Min({a, b}) = b
<1> SUFFICES ASSUME NEW a \in Int, NEW b \in Int
             PROVE  /\ Min({a, b}) \in Int /\ Min({a, b}) <= a /\ Min({a, b}) <= b
                    /\ Min({a, b}) = a \/ Min({a, b}) = b
  OBVIOUS
<1> DEFINE S == {a, b}
<1>1. \E x \in S : \A y \in S : x <= y
  BY a <= b \/ b <= a
<1>2. Min(S) = CHOOSE x \in S : \A y \in S : x <= y
  BY DEF Min
<1>3. Min(S) \in S /\ \A y \in S : Min(S) <= y
  BY <1>1, <1>2
<1> QED  BY <1>3

LEMMA MaxOfThree ==
    \A a, b, c \in Int : /\ Max({a, b, c}) \in Int
                         /\ a <= Max({a, b, c}) /\ b <= Max({a, b, c}) /\ c <= Max({a, b, c})
                         /\ \/ Max({a, b, c}) = a \/ Max({a, b, c}) = b
                            \/ Max({a, b, c}) = c
<1> SUFFICES ASSUME NEW a \in Int, NEW b \in Int, NEW c \in Int
             PROVE  /\ Max({a, b, c}) \in Int
                    /\ a <= Max({a, b, c}) /\ b <= Max({a, b, c}) /\ c <= Max({a, b, c})
                    /\ \/ Max({a, b, c}) = a \/ Max({a, b, c}) = b
                       \/ Max({a, b, c}) = c
  OBVIOUS
<1> DEFINE S == {a, b, c}
<1>1. \E x \in S : \A y \in S : x >= y
  <2>1. \/ a >= b /\ a >= c
        \/ b >= a /\ b >= c
        \/ c >= a /\ c >= b
    OBVIOUS
  <2> QED  BY <2>1
<1>2. Max(S) = CHOOSE x \in S : \A y \in S : x >= y
  BY DEF Max
<1>3. Max(S) \in S /\ \A y \in S : Max(S) >= y
  BY <1>1, <1>2
<1> QED  BY <1>3

LEMMA Positive ==
    /\ Prices \subseteq Nat \ {0} /\ StartPrice \in Prices
    /\ \A p \in Prices : p \in Int /\ p >= 1
    /\ MinDaily \in Nat /\ MinDaily >= 1 /\ FastPeriod \in Nat /\ FastPeriod >= 1
    /\ SlowPeriod \in Nat /\ FastPeriod < SlowPeriod
    /\ Lookback \in Nat /\ Lookback >= 1 /\ AtrPeriod \in Nat /\ AtrPeriod >= 1
    /\ HourPeriod \in Nat /\ HourPeriod >= 1
    /\ StopTenths \in Nat /\ StopTenths >= 1
    /\ ExtensionTenths \in Nat /\ ExtensionTenths >= 1
    /\ DailyLimit \in Nat /\ DailyLimit >= 1 /\ FourLimit \in Nat /\ FourLimit >= 1
    /\ HourLimit \in Nat /\ HourLimit >= 1
BY SignalAssumption, ScanAssumption

\* A series has a last element.
Series(S) == {s \in Seq(S) : Len(s) >= 1}

LEMMA SeriesFacts ==
    ASSUME NEW S, NEW s \in Series(S)
    PROVE  /\ s \in Seq(S) /\ Len(s) \in Nat /\ Len(s) >= 1 /\ DOMAIN s = 1..Len(s)
           /\ \A i \in 1..Len(s) : s[i] \in S
           /\ Len(s) \in 1..Len(s) /\ LastOf(s) \in S
<1>1. s \in Seq(S) /\ Len(s) >= 1
  BY DEF Series
<1>2. Len(s) \in Nat /\ DOMAIN s = 1..Len(s) /\ \A i \in 1..Len(s) : s[i] \in S
  BY <1>1, LenProperties
<1>3. Len(s) \in 1..Len(s)
  BY <1>1, <1>2
<1> QED  BY <1>1, <1>2, <1>3 DEF LastOf

LEMMA LatestFacts ==
    ASSUME NEW S, NEW s \in Series(S), NEW n \in Nat, n >= 1
    PROVE  Latest(s, n) \in Series(S) /\ LastOf(Latest(s, n)) = LastOf(s)
<1> DEFINE l == Len(s)
           m == Max({1, l - n + 1})
<1>1. l \in Nat /\ l >= 1 /\ \A i \in 1..l : s[i] \in S
  BY SeriesFacts
<1>2. l - n + 1 \in Int /\ l - n + 1 <= l
  BY <1>1
<1>3. m \in Int /\ 1 <= m /\ (m = 1 \/ m = l - n + 1)
  <2> DEFINE low == l - n + 1
  <2>1. 1 \in Int /\ low \in Int
    BY <1>2
  <2> HIDE DEF low
  <2>2. /\ Max({1, low}) \in Int /\ 1 <= Max({1, low})
        /\ Max({1, low}) = 1 \/ Max({1, low}) = low
    BY <2>1, MaxOfTwo
  <2> QED  BY <2>2 DEF low
<1>4. m <= l
  BY <1>1, <1>2, <1>3
<1>5. Latest(s, n) = SubSeq(s, m, l)
  BY DEF Latest
<1> HIDE DEF l, m
<1>6. \A i \in m..l : s[i] \in S
  BY <1>1, <1>3
<1>7. l \in Int
  BY <1>1
<1>8. /\ SubSeq(s, m, l) \in Seq(S)
      /\ Len(SubSeq(s, m, l)) = (IF m <= l THEN l - m + 1 ELSE 0)
      /\ \A i \in 1..(l - m + 1) : SubSeq(s, m, l)[i] = s[m + i - 1]
  BY <1>3, <1>6, <1>7, SubSeqProperties
<1>9. Len(Latest(s, n)) = l - m + 1 /\ l - m + 1 >= 1
  BY <1>3, <1>4, <1>5, <1>7, <1>8
<1>10. l - m + 1 \in 1..(l - m + 1) /\ m + (l - m + 1) - 1 = l
  BY <1>3, <1>7, <1>9
<1>11. Latest(s, n)[l - m + 1] = s[l]
  BY <1>5, <1>8, <1>10
<1> QED  BY <1>5, <1>8, <1>9, <1>11 DEF LastOf, Series, l

LEMMA NewLast ==
    ASSUME NEW S, NEW s \in Series(S), NEW e \in S
    PROVE  /\ [s EXCEPT ![Len(s)] = e] \in Series(S)
           /\ LastOf([s EXCEPT ![Len(s)] = e]) = e
           /\ Len([s EXCEPT ![Len(s)] = e]) = Len(s)
           /\ \A i \in 1..(Len(s) - 1) : [s EXCEPT ![Len(s)] = e][i] = s[i]
<1> DEFINE t == [s EXCEPT ![Len(s)] = e]
<1>1. s \in Seq(S) /\ Len(s) \in 1..Len(s) /\ Len(s) \in Nat /\ Len(s) >= 1
  BY SeriesFacts
<1>2. t \in Seq(S) /\ Len(t) = Len(s)
      /\ \A j \in 1..Len(s) : t[j] = IF j = Len(s) THEN e ELSE s[j]
  BY <1>1, ExceptSeq
<1> HIDE DEF t
<1>3. \A i \in 1..(Len(s) - 1) : i \in 1..Len(s) /\ i # Len(s)
  BY <1>1
<1> QED  BY <1>1, <1>2, <1>3 DEF Series, LastOf, t

LEMMA OneMore ==
    ASSUME NEW S, NEW s \in Series(S), NEW e \in S
    PROVE  Append(s, e) \in Series(S) /\ LastOf(Append(s, e)) = e
<1>1. s \in Seq(S) /\ Len(s) \in Nat
  BY SeriesFacts
<1>2. /\ Append(s, e) \in Seq(S) /\ Len(Append(s, e)) = Len(s) + 1
      /\ Append(s, e)[Len(s) + 1] = e
  BY <1>1, AppendProperties
<1> QED  BY <1>1, <1>2 DEF Series, LastOf

LEMMA SameThroughout ==
    ASSUME NEW S, NEW n \in Nat, n >= 1, NEW e \in S
    PROVE  [i \in 1..n |-> e] \in Series(S) /\ LastOf([i \in 1..n |-> e]) = e
<1> DEFINE s == [i \in 1..n |-> e]
<1>1. s \in [1..n -> S] /\ s[n] = e
  OBVIOUS
<1>2. s \in Seq(S) /\ Len(s) = n
  BY <1>1, SeqDef, LenProperties
<1> HIDE DEF s
<1> QED  BY <1>1, <1>2 DEF Series, LastOf, s

-----------------------------------------------------------------------------
(***************************************************************************)
(* Bars.                                                                   *)
(***************************************************************************)
LEMMA BarFacts ==
    \A b : b \in BarRecords <=>
        /\ b \in [open: Prices, high: Prices, low: Prices, close: Prices]
        /\ b.low <= b.open /\ b.low <= b.close /\ b.open <= b.high /\ b.close <= b.high
<1> SUFFICES ASSUME NEW b \in [open: Prices, high: Prices, low: Prices, close: Prices]
             PROVE  b.low <= Min({b.open, b.close}) /\ Max({b.open, b.close}) <= b.high
                    <=> /\ b.low <= b.open /\ b.low <= b.close
                        /\ b.open <= b.high /\ b.close <= b.high
  BY DEF BarRecords
<1>1. b.open \in Int /\ b.high \in Int /\ b.low \in Int /\ b.close \in Int
  BY Positive
<1> DEFINE least    == Min({b.open, b.close})
           greatest == Max({b.open, b.close})
<1>2. /\ least \in Int /\ least <= b.open /\ least <= b.close
      /\ least = b.open \/ least = b.close
  BY <1>1, MinOfTwo
<1>3. /\ greatest \in Int /\ b.open <= greatest /\ b.close <= greatest
      /\ greatest = b.open \/ greatest = b.close
  BY <1>1, MaxOfTwo
<1> HIDE DEF least, greatest
<1>4. b.low <= least /\ greatest <= b.high
      <=> b.low <= b.open /\ b.low <= b.close /\ b.open <= b.high /\ b.close <= b.high
  BY <1>1, <1>2, <1>3
<1> QED  BY <1>4 DEF least, greatest

LEMMA FlatIsBar ==
    \A p \in Prices : Flat(p) \in BarRecords /\ Flat(p).close = p
<1> SUFFICES ASSUME NEW p \in Prices
             PROVE  Flat(p) \in BarRecords /\ Flat(p).close = p
  OBVIOUS
<1>1. Flat(p) \in [open: Prices, high: Prices, low: Prices, close: Prices]
      /\ Flat(p).open = p /\ Flat(p).high = p /\ Flat(p).low = p /\ Flat(p).close = p
  BY DEF Flat
<1>2. p \in Int
  BY Positive
<1> QED  BY <1>1, <1>2, BarFacts

LEMMA TradedIsBar ==
    ASSUME NEW b \in BarRecords, NEW p \in Prices
    PROVE  /\ Traded(b, p) \in BarRecords /\ Traded(b, p).close = p
           /\ b.high <= Traded(b, p).high /\ Traded(b, p).low <= b.low
<1> DEFINE t == Traded(b, p)
           greatest == Max({b.high, p})
           least    == Min({b.low, p})
<1>1. /\ b \in [open: Prices, high: Prices, low: Prices, close: Prices]
      /\ b.low <= b.open /\ b.low <= b.close /\ b.open <= b.high /\ b.close <= b.high
  BY BarFacts
<1>2. b.open \in Int /\ b.high \in Int /\ b.low \in Int /\ b.close \in Int /\ p \in Int
  BY <1>1, Positive
<1>3. /\ least \in Int /\ least <= b.low /\ least <= p /\ (least = b.low \/ least = p)
      /\ greatest \in Int /\ b.high <= greatest /\ p <= greatest
      /\ greatest = b.high \/ greatest = p
  BY <1>2, MinOfTwo, MaxOfTwo
<1>4. t = [b EXCEPT !.close = p, !.high = greatest, !.low = least]
  BY <1>1 DEF Traded
<1> HIDE DEF least, greatest, t
<1>5. least \in Prices /\ greatest \in Prices
  BY <1>1, <1>3
<1>6. /\ t \in [open: Prices, high: Prices, low: Prices, close: Prices]
      /\ t.open = b.open /\ t.high = greatest /\ t.low = least /\ t.close = p
  BY <1>1, <1>4, <1>5
<1>7. t \in BarRecords
  <2>1. t.low <= t.open /\ t.low <= t.close /\ t.open <= t.high /\ t.close <= t.high
    BY <1>1, <1>2, <1>3, <1>6
  <2> QED  BY <1>6, <2>1, BarFacts
<1>8. b.high <= t.high /\ t.low <= b.low
  BY <1>3, <1>6
<1> QED  BY <1>6, <1>7, <1>8 DEF t

-----------------------------------------------------------------------------
(***************************************************************************)
(* The market and the scan.                                                *)
(***************************************************************************)
MarketTyped ==
    /\ daily \in Series(Prices) /\ four \in Series(BarRecords) /\ hour \in Series(BarRecords)
    /\ LastOf(four).close = Price /\ LastOf(hour).close = Price
    /\ hours \in 0..MaxHours /\ trades \in 0..MaxTrades

SeenRecords == [daily: Seq(Prices), four: Seq(BarRecords), hour: Seq(BarRecords)]

\* The candidate is what the last scan made of the series it has seen, until it is
\* delivered; the series themselves have moved on.
ScanTyped ==
    /\ pc \in {"idle", "four", "hour", "built"}
    /\ seen \in SeenRecords
    /\ pc = "built" => /\ candidate = CandidateOf(seen.daily, seen.four, seen.hour)
                       /\ seen.hour = <<>> \/ seen.hour \in Series(BarRecords)
    /\ pc # "built" => candidate = NoCandidate

ScanInv == MarketTyped /\ ScanTyped

LEMMA SeriesIsSeq ==
    \A S : \A s \in Series(S) : s \in Seq(S)
BY DEF Series

LEMMA NothingIsTyped == NothingSeen \in SeenRecords
<1>1. <<>> \in Seq(Prices) /\ <<>> \in Seq(BarRecords)
  BY EmptySeq
<1> QED  BY <1>1 DEF NothingSeen, SeenRecords

LEMMA ScanStarts == Init => ScanInv
<1> SUFFICES ASSUME Init
             PROVE  ScanInv
  OBVIOUS
<1>1. PICK n \in Histories : /\ daily = [i \in 1..n |-> StartPrice]
                             /\ four = [i \in 1..n |-> Flat(StartPrice)]
                             /\ hour = [i \in 1..n |-> Flat(StartPrice)]
  BY DEF Init
<1>2. n \in Nat /\ n >= 1 /\ StartPrice \in Prices /\ 0 \in 0..MaxHours /\ 0 \in 0..MaxTrades
  BY ScanAssumption
<1> DEFINE bar == Flat(StartPrice)
<1>3. bar \in BarRecords /\ bar.close = StartPrice
  BY <1>2, FlatIsBar
<1>4. daily \in Series(Prices) /\ LastOf(daily) = StartPrice
  BY <1>1, <1>2, SameThroughout
<1> HIDE DEF bar
<1>5. [i \in 1..n |-> bar] \in Series(BarRecords) /\ LastOf([i \in 1..n |-> bar]) = bar
  BY <1>2, <1>3, SameThroughout
<1>6. /\ four \in Series(BarRecords) /\ hour \in Series(BarRecords)
      /\ LastOf(four) = bar /\ LastOf(hour) = bar
  BY <1>1, <1>5 DEF bar
<1>7. MarketTyped
  BY <1>2, <1>3, <1>4, <1>6 DEF MarketTyped, Price, Init
<1>8. ScanTyped
  BY NothingIsTyped DEF Init, ScanTyped
<1> QED  BY <1>7, <1>8 DEF ScanInv

\* A price that comes in keeps the series and their last close in step.
LEMMA TakingUp ==
    ASSUME NEW bars \in Series(BarRecords), NEW price \in Prices
    PROVE  /\ TakesUp(bars, price) \in Series(BarRecords)
           /\ LastOf(TakesUp(bars, price)) = Traded(LastOf(bars), price)
           /\ LastOf(TakesUp(bars, price)).close = price
           /\ Len(TakesUp(bars, price)) = Len(bars)
           /\ \A i \in 1..(Len(bars) - 1) : TakesUp(bars, price)[i] = bars[i]
<1> DEFINE bar == Traded(LastOf(bars), price)
<1>1. LastOf(bars) \in BarRecords /\ Len(bars) \in 1..Len(bars)
      /\ DOMAIN bars = 1..Len(bars)
  BY SeriesFacts
<1>2. bar \in BarRecords /\ bar.close = price
  BY <1>1, TradedIsBar
<1>3. TakesUp(bars, price) = [bars EXCEPT ![Len(bars)] = bar]
  BY <1>1 DEF TakesUp, LastOf
<1> HIDE DEF bar
<1>4. /\ [bars EXCEPT ![Len(bars)] = bar] \in Series(BarRecords)
      /\ LastOf([bars EXCEPT ![Len(bars)] = bar]) = bar
      /\ Len([bars EXCEPT ![Len(bars)] = bar]) = Len(bars)
      /\ \A i \in 1..(Len(bars) - 1) : [bars EXCEPT ![Len(bars)] = bar][i] = bars[i]
  BY <1>2, NewLast
<1>5. /\ TakesUp(bars, price) \in Series(BarRecords) /\ LastOf(TakesUp(bars, price)) = bar
      /\ Len(TakesUp(bars, price)) = Len(bars)
      /\ \A i \in 1..(Len(bars) - 1) : TakesUp(bars, price)[i] = bars[i]
  BY <1>3, <1>4
<1> QED  BY <1>2, <1>5 DEF bar

LEMMA Opening ==
    ASSUME NEW bars \in Series(BarRecords), NEW price \in Prices, NEW limit \in Nat, limit >= 1
    PROVE  /\ OpensWith(bars, price, limit) \in Series(BarRecords)
           /\ LastOf(OpensWith(bars, price, limit)).close = price
<1> DEFINE bar == Flat(price)
           longer == Append(bars, bar)
<1>1. bar \in BarRecords /\ bar.close = price
  BY FlatIsBar
<1> HIDE DEF bar
<1>2. longer \in Series(BarRecords) /\ LastOf(longer) = bar
  BY <1>1, OneMore
<1> HIDE DEF longer
<1>3. Latest(longer, limit) \in Series(BarRecords) /\ LastOf(Latest(longer, limit)) = bar
  BY <1>2, LatestFacts
<1> QED  BY <1>1, <1>3 DEF OpensWith, longer, bar

LEMMA MarketStep ==
    ASSUME MarketTyped, NEW price \in Prices, Trade(price) \/ HourEnds(price)
    PROVE  MarketTyped'
<1>1. daily \in Series(Prices) /\ four \in Series(BarRecords) /\ hour \in Series(BarRecords)
      /\ hours \in 0..MaxHours /\ trades \in 0..MaxTrades
  BY DEF MarketTyped
<1>2. /\ [daily EXCEPT ![Len(daily)] = price] \in Series(Prices)
      /\ LastOf([daily EXCEPT ![Len(daily)] = price]) = price
  BY <1>1, NewLast
<1>3. /\ TakesUp(four, price) \in Series(BarRecords)
      /\ LastOf(TakesUp(four, price)).close = price
      /\ TakesUp(hour, price) \in Series(BarRecords)
      /\ LastOf(TakesUp(hour, price)).close = price
  BY <1>1, TakingUp
<1>4. /\ FourLimit \in Nat /\ FourLimit >= 1 /\ HourLimit \in Nat /\ HourLimit >= 1
      /\ DailyLimit \in Nat /\ DailyLimit >= 1 /\ MaxHours \in Nat /\ MaxTrades \in Nat
  BY Positive, ScanAssumption
<1>5. CASE Trade(price)
  <2>1. /\ daily' = [daily EXCEPT ![Len(daily)] = price]
        /\ four' = TakesUp(four, price) /\ hour' = TakesUp(hour, price)
        /\ trades' = trades + 1 /\ hours' = hours /\ trades < MaxTrades
    BY <1>5 DEF Trade
  <2>2. trades' \in 0..MaxTrades /\ hours' \in 0..MaxHours
    BY <1>1, <1>4, <2>1
  <2> QED  BY <1>2, <1>3, <2>1, <2>2 DEF MarketTyped, Price
<1>6. CASE HourEnds(price)
  <2>1. /\ hours < MaxHours /\ trades + Changes(price) <= MaxTrades
        /\ hours' = hours + 1 /\ trades' = trades + Changes(price)
        /\ hour' = OpensWith(hour, price, HourLimit)
        /\ four' = TakesUp(four, price) \/ four' = OpensWith(four, price, FourLimit)
        /\ \/ daily' = [daily EXCEPT ![Len(daily)] = price]
           \/ daily' = Latest(Append(daily, price), DailyLimit)
    BY <1>6 DEF HourEnds
  <2>2. trades' \in 0..MaxTrades /\ hours' \in 0..MaxHours
    BY <1>1, <1>4, <2>1 DEF Changes
  <2>3. /\ hour' \in Series(BarRecords) /\ LastOf(hour').close = price
        /\ four' \in Series(BarRecords) /\ LastOf(four').close = price
    BY <1>1, <1>3, <1>4, <2>1, Opening
  <2>4. daily' \in Series(Prices) /\ LastOf(daily') = price
    <3> DEFINE longer == Append(daily, price)
    <3>1. longer \in Series(Prices) /\ LastOf(longer) = price
      BY <1>1, OneMore
    <3> HIDE DEF longer
    <3>2. Latest(longer, DailyLimit) \in Series(Prices) /\ LastOf(Latest(longer, DailyLimit)) = price
      BY <1>4, <3>1, LatestFacts
    <3> QED  BY <1>2, <2>1, <3>2 DEF longer
  <2> QED  BY <2>2, <2>3, <2>4 DEF MarketTyped, Price
<1> QED  BY <1>5, <1>6

LEMMA ScanSteps == ScanInv /\ [Next]_vars => ScanInv'
<1> SUFFICES ASSUME ScanInv, [Next]_vars
             PROVE  ScanInv'
  OBVIOUS
<1>1. MarketTyped /\ ScanTyped
  BY DEF ScanInv
<1>2. daily \in Seq(Prices) /\ four \in Seq(BarRecords) /\ hour \in Seq(BarRecords)
  BY <1>1, SeriesIsSeq DEF MarketTyped
<1>3. UNCHANGED market => MarketTyped'
  BY <1>1 DEF market, MarketTyped, Price
<1>4. ASSUME NEW price \in Prices, Trade(price) \/ HourEnds(price)
      PROVE  ScanInv'
  <2>1. UNCHANGED <<pc, seen, candidate>>
    BY <1>4 DEF Trade, HourEnds
  <2>2. ScanTyped'
    BY <1>1, <2>1 DEF ScanTyped
  <2> QED  BY <1>1, <1>4, <2>2, MarketStep DEF ScanInv
<1>5. CASE FetchDaily
  <2>1. seen' = [NothingSeen EXCEPT !.daily = daily] /\ candidate' = NoCandidate /\ pc' = "four"
    BY <1>5 DEF FetchDaily
  <2>2. seen' \in SeenRecords
    BY <1>2, <2>1, NothingIsTyped DEF SeenRecords
  <2> QED  BY <1>3, <1>5, <2>1, <2>2 DEF FetchDaily, ScanTyped, ScanInv
<1>6. CASE FetchFour
  <2>1. /\ seen' = [seen EXCEPT !.four = four] /\ candidate' = candidate
        /\ pc = "four" /\ pc' = "hour"
    BY <1>6 DEF FetchFour
  <2>2. seen' \in SeenRecords
    BY <1>1, <1>2, <2>1 DEF SeenRecords, ScanTyped
  <2> QED  BY <1>1, <1>3, <1>6, <2>1, <2>2 DEF FetchFour, ScanTyped, ScanInv
<1>7. CASE FetchHourAndBuild
  <2>1. PICK bars \in {hour, <<>>} :
            /\ seen' = [seen EXCEPT !.hour = bars] /\ pc' = "built"
            /\ candidate' = CandidateOf(seen.daily, seen.four, bars)
    BY <1>7 DEF FetchHourAndBuild
  <2>2. /\ bars \in Seq(BarRecords)
        /\ bars = <<>> \/ bars \in Series(BarRecords)
    BY <1>1, <1>2, EmptySeq DEF MarketTyped
  <2>3. /\ seen' \in SeenRecords /\ seen'.daily = seen.daily /\ seen'.four = seen.four
        /\ seen'.hour = bars
    BY <1>1, <2>1, <2>2 DEF SeenRecords, ScanTyped
  <2>4. candidate' = CandidateOf(seen'.daily, seen'.four, seen'.hour)
    BY <2>1, <2>3
  <2>5. ScanTyped'
    BY <2>1, <2>2, <2>3, <2>4 DEF ScanTyped
  <2> QED  BY <1>3, <1>7, <2>5 DEF FetchHourAndBuild, ScanInv
<1>8. CASE Deliver
  BY <1>3, <1>8, NothingIsTyped DEF Deliver, ScanTyped, ScanInv
<1>9. CASE FetchFails
  BY <1>1, <1>3, <1>9, NothingIsTyped DEF FetchFails, ScanTyped, ScanInv
<1>10. CASE UNCHANGED vars
  <2>1. UNCHANGED market /\ UNCHANGED <<pc, seen, candidate>>
    BY <1>10 DEF vars, market
  <2> QED  BY <1>1, <1>3, <2>1 DEF ScanTyped, ScanInv
<1> QED  BY <1>4, <1>5, <1>6, <1>7, <1>8, <1>9, <1>10 DEF Next

LEMMA ScanHolds == Spec => []ScanInv
BY ScanStarts, ScanSteps, PTL DEF Spec

-----------------------------------------------------------------------------
(***************************************************************************)
(* Sides.                                                                  *)
(***************************************************************************)
LEMMA SideKinds ==
    \A d, f, h : SideOf(d, f, h) \in {"LONG", "SHORT", "NONE"}
BY DEF SideOf, Breakout

LEMMA CandidateSide ==
    \A d, f, h : CandidateOf(d, f, h).side = SideOf(d, f, h)
<1> SUFFICES ASSUME NEW d, NEW f, NEW h
             PROVE  CandidateOf(d, f, h).side = SideOf(d, f, h)
  OBVIOUS
<1> DEFINE side == SideOf(d, f, h)
<1> HIDE DEF side
<1> QED  BY DEF CandidateOf, NoCandidate, side

\* The market's series, what the scan has seen of them and its candidate keep their types.
THEOREM ScanTypeCorrect == Spec => []TypeOK
<1>1. ASSUME ScanInv
      PROVE  TypeOK
  <2>1. MarketTyped /\ ScanTyped
    BY <1>1 DEF ScanInv
  <2>2. daily \in Seq(Prices) /\ four \in Seq(BarRecords) /\ hour \in Seq(BarRecords)
    BY <2>1, SeriesIsSeq DEF MarketTyped
  <2>3. /\ seen.daily \in Seq(Prices) /\ seen.four \in Seq(BarRecords)
        /\ seen.hour \in Seq(BarRecords)
    BY <2>1 DEF ScanTyped, SeenRecords
  <2>4. candidate.side \in {"LONG", "SHORT", "NONE"} /\ (candidate.side # "NONE" => pc = "built")
    <3>1. CASE pc = "built"
      BY <2>1, <3>1, CandidateSide, SideKinds DEF ScanTyped
    <3>2. CASE pc # "built"
      BY <2>1, <3>2 DEF ScanTyped, NoCandidate
    <3> QED  BY <3>1, <3>2
  <2> QED  BY <2>1, <2>2, <2>3, <2>4 DEF TypeOK, MarketTyped, ScanTyped
<1> QED  BY <1>1, ScanHolds, PTL

-----------------------------------------------------------------------------
(***************************************************************************)
(* Recursive sums.  Induction over an interval is stated for the set of    *)
(* numbers for which something holds; it follows from the well-foundedness *)
(* of < on Nat.                                                            *)
(***************************************************************************)
LEMMA Upwards ==
    ASSUME NEW lo \in Nat, NEW hi \in Nat, NEW Good,
           lo \in Good, \A i \in (lo + 1)..hi : i - 1 \in Good => i \in Good
    PROVE  \A i \in lo..hi : i \in Good
<1> DEFINE Bad == {i \in lo..hi : i \notin Good}
<1> SUFFICES ASSUME Bad # {}
             PROVE  FALSE
  OBVIOUS
<1>1. Bad \subseteq Nat
  OBVIOUS
<1>2. PICK m \in Bad : \A i \in Bad : ~ (<<i, m>> \in OpToRel(<, Nat))
  <2> HIDE DEF Bad
  <2> QED  BY <1>1, NatLessThanWellFounded, WFMin
<1>3. \A i \in Bad : ~ (i < m)
  BY <1>1, <1>2 DEF OpToRel
<1>4. m # lo
  OBVIOUS
<1>5. m \in (lo + 1)..hi /\ m - 1 \in lo..hi /\ m - 1 < m
  BY <1>4
<1>6. m - 1 \in Good
  BY <1>3, <1>5
<1> QED  BY <1>5, <1>6

\* f takes the value start at lo and follows next from there to hi.
Follows(f, lo, hi, start, next) ==
    f = [i \in lo..hi |-> IF i = lo THEN start ELSE next[i][f[i - 1]]]

LEMMA FollowerExists ==
    ASSUME NEW lo \in Nat, NEW hi \in Nat, lo <= hi, NEW start \in Int,
           NEW next \in [(lo + 1)..hi -> [Int -> Int]]
    PROVE  \E f \in [lo..hi -> Int] : Follows(f, lo, hi, start, next)
<1> DEFINE Good == {i \in lo..hi : \E f \in [lo..i -> Int] : Follows(f, lo, i, start, next)}
<1>1. lo \in Good
  <2> DEFINE f == [i \in lo..lo |-> start]
  <2>1. f \in [lo..lo -> Int] /\ lo \in lo..hi
    OBVIOUS
  <2>2. f = [i \in lo..lo |-> IF i = lo THEN start ELSE next[i][f[i - 1]]]
    OBVIOUS
  <2> HIDE DEF f
  <2> QED  BY <2>1, <2>2 DEF Follows
<1>2. ASSUME NEW m \in (lo + 1)..hi, m - 1 \in Good
      PROVE  m \in Good
  <2>1. PICK g \in [lo..(m - 1) -> Int] : Follows(g, lo, m - 1, start, next)
    BY <1>2
  <2> DEFINE f == [i \in lo..m |-> IF i = m THEN next[m][g[m - 1]] ELSE g[i]]
  <2>2. m - 1 \in lo..(m - 1) /\ m \in lo..hi /\ m # lo /\ m - 1 # m /\ m - 1 \in lo..m
    OBVIOUS
  <2>3. next[m][g[m - 1]] \in Int
    BY <2>2
  <2>4. \A i \in lo..m : i # m => i \in lo..(m - 1)
    OBVIOUS
  <2>5. f \in [lo..m -> Int]
    BY <2>3, <2>4
  <2>6. \A i \in lo..m : f[i] = (IF i = lo THEN start ELSE next[i][f[i - 1]])
    <3> SUFFICES ASSUME NEW i \in lo..m
                 PROVE  f[i] = (IF i = lo THEN start ELSE next[i][f[i - 1]])
      OBVIOUS
    <3>1. CASE i = m
      BY <2>2, <3>1
    <3>2. CASE i # m /\ i = lo
      <4>1. g[lo] = start
        BY <2>1, <2>4, <3>2 DEF Follows
      <4> QED  BY <3>2, <4>1
    <3>3. CASE i # m /\ i # lo
      <4>1. i \in lo..(m - 1) /\ i - 1 \in lo..m /\ i - 1 # m
        BY <2>4, <3>3
      <4>2. g[i] = next[i][g[i - 1]]
        BY <2>1, <3>3, <4>1 DEF Follows
      <4> QED  BY <3>3, <4>1, <4>2
    <3> QED  BY <3>1, <3>2, <3>3
  <2>7. f = [i \in lo..m |-> f[i]]
    OBVIOUS
  <2> HIDE DEF f
  <2>8. Follows(f, lo, m, start, next)
    BY <2>6, <2>7 DEF Follows
  <2> QED  BY <2>2, <2>5, <2>8
<1>3. \A i \in lo..hi : i \in Good
  <2> HIDE DEF Good
  <2> QED  BY <1>1, <1>2, Upwards
<1>4. hi \in lo..hi
  OBVIOUS
<1> QED  BY <1>3, <1>4

-----------------------------------------------------------------------------
(***************************************************************************)
(* True ranges.                                                            *)
(***************************************************************************)
\* Bars of any numbers: a reflected bar is one.
AnyBar == [open: Int, high: Int, low: Int, close: Int]

LEMMA BarsAreAny ==
    /\ BarRecords \subseteq AnyBar
    /\ \A s \in Seq(BarRecords) : s \in Seq(AnyBar)
<1>1. ASSUME NEW b \in BarRecords
      PROVE  b \in AnyBar
  <2>1. b \in [open: Prices, high: Prices, low: Prices, close: Prices]
    BY BarFacts
  <2>2. b.open \in Int /\ b.high \in Int /\ b.low \in Int /\ b.close \in Int
    BY <2>1, Positive
  <2> QED  BY <2>1, <2>2 DEF AnyBar
<1>2. BarRecords \subseteq AnyBar
  BY <1>1
<1> QED  BY <1>2, SeqMonotonic

LEMMA DistanceFacts ==
    \A m, n \in Int : /\ Distance(m, n) \in Nat /\ (Distance(m, n) = 0 <=> m = n)
                      /\ m - n <= Distance(m, n) /\ n - m <= Distance(m, n)
                      /\ Distance(m, n) = m - n \/ Distance(m, n) = n - m
BY DEF Distance

\* The true range of bar i.
LEMMA RangeFacts ==
    ASSUME NEW bars \in Seq(AnyBar), NEW i \in 2..Len(bars)
    PROVE  LET b == bars[i]
               c == bars[i - 1].close
               r == TrueRange(bars, i)
           IN  /\ r \in Nat
               /\ b.high - b.low <= r /\ Distance(b.high, c) <= r /\ Distance(b.low, c) <= r
               /\ \/ r = b.high - b.low
                  \/ r = Distance(b.high, c)
                  \/ r = Distance(b.low, c)
<1> DEFINE b  == bars[i]
           c  == bars[i - 1].close
           r1 == b.high - b.low
           r2 == Distance(b.high, c)
           r3 == Distance(b.low, c)
           r  == TrueRange(bars, i)
<1>1. b \in AnyBar /\ bars[i - 1] \in AnyBar
  BY LenProperties
<1>2. b.high \in Int /\ b.low \in Int /\ c \in Int
  BY <1>1 DEF AnyBar
<1>3. r1 \in Int /\ r2 \in Nat /\ r3 \in Nat
  <2>1. r1 \in Int
    BY <1>2
  <2> HIDE DEF b, c
  <2>2. r2 \in Nat /\ r3 \in Nat
    BY <1>2, DistanceFacts
  <2> QED  BY <2>1, <2>2
<1>4. r = Max({r1, r2, r3})
  BY DEF TrueRange
<1> HIDE DEF r1, r2, r3, r
<1>5. /\ r \in Int /\ r1 <= r /\ r2 <= r /\ r3 <= r /\ (r = r1 \/ r = r2 \/ r = r3)
  <2>1. r2 \in Int /\ r3 \in Int
    BY <1>3
  <2>2. /\ Max({r1, r2, r3}) \in Int
        /\ r1 <= Max({r1, r2, r3}) /\ r2 <= Max({r1, r2, r3}) /\ r3 <= Max({r1, r2, r3})
        /\ \/ Max({r1, r2, r3}) = r1 \/ Max({r1, r2, r3}) = r2
           \/ Max({r1, r2, r3}) = r3
    BY <1>3, <2>1, MaxOfThree
  <2> QED  BY <1>4, <2>2
<1>6. r \in Nat
  BY <1>3, <1>5
<1> QED  BY <1>5, <1>6 DEF r1, r2, r3, r

\* AtrSum sums the true ranges of the last AtrPeriod bars.
LEMMA AtrIsASum ==
    ASSUME NEW bars \in Seq(AnyBar), Len(bars) > AtrPeriod
    PROVE  LET lo == Len(bars) - AtrPeriod
               hi == Len(bars)
           IN  /\ lo \in Nat /\ hi \in Nat /\ 1 <= lo /\ lo < hi
               /\ \E sum \in [lo..hi -> Int] :
                     /\ sum[lo] = 0
                     /\ \A i \in (lo + 1)..hi : sum[i] = sum[i - 1] + TrueRange(bars, i)
                     /\ AtrSum(bars) = sum[hi]
<1> DEFINE lo == Len(bars) - AtrPeriod
           hi == Len(bars)
           body(f) == [i \in lo..hi |-> IF i = lo THEN 0 ELSE f[i - 1] + TrueRange(bars, i)]
           next == [i \in (lo + 1)..hi |-> [x \in Int |-> x + TrueRange(bars, i)]]
<1>1. lo \in Nat /\ hi \in Nat /\ 1 <= lo /\ lo < hi /\ lo <= hi
  <2>1. hi \in Nat
    BY LenProperties
  <2> QED  BY <2>1, Positive
<1>2. \A i \in (lo + 1)..hi : i \in 2..hi
  BY <1>1
<1>3. \A i \in (lo + 1)..hi : TrueRange(bars, i) \in Int
  BY <1>2, RangeFacts
<1>4. next \in [(lo + 1)..hi -> [Int -> Int]]
  BY <1>3
<1>5. \A f \in [lo..hi -> Int] : Follows(f, lo, hi, 0, next) => f = body(f)
  <2> SUFFICES ASSUME NEW f \in [lo..hi -> Int], Follows(f, lo, hi, 0, next),
                      NEW i \in lo..hi, i # lo
               PROVE  next[i][f[i - 1]] = f[i - 1] + TrueRange(bars, i)
    BY DEF Follows
  <2>1. i \in (lo + 1)..hi /\ i - 1 \in lo..hi
    BY <1>1
  <2> QED  BY <2>1
<1>6. \E f \in [lo..hi -> Int] : Follows(f, lo, hi, 0, next)
  <2> HIDE DEF next, lo, hi
  <2> QED  BY <1>1, <1>4, FollowerExists, 0 \in Int
<1>7. \E f : f = body(f)
  BY <1>5, <1>6
<1> DEFINE sum == CHOOSE f : f = body(f)
<1>8. AtrSum(bars) = sum[hi]
  BY DEF AtrSum
<1>9. sum = body(sum)
  BY <1>7
<1> HIDE DEF sum
<1>10. lo \in lo..hi /\ \A i \in (lo + 1)..hi : i \in lo..hi /\ i # lo
  BY <1>1
<1>11. sum[lo] = 0 /\ \A i \in (lo + 1)..hi : sum[i] = sum[i - 1] + TrueRange(bars, i)
  BY <1>9, <1>10
<1>12. \A i \in lo..hi : sum[i] \in Int
  <2> DEFINE Good == {i \in lo..hi : sum[i] \in Int}
  <2>1. lo \in Good
    BY <1>10, <1>11
  <2>2. \A i \in (lo + 1)..hi : i - 1 \in Good => i \in Good
    BY <1>3, <1>10, <1>11
  <2>3. \A i \in lo..hi : i \in Good
    <3> HIDE DEF Good, lo, hi
    <3> QED  BY <1>1, <2>1, <2>2, Upwards
  <2> QED  BY <2>3
<1>13. sum = [i \in lo..hi |-> sum[i]]
  BY <1>9
<1>14. sum \in [lo..hi -> Int]
  BY <1>12, <1>13
<1> QED  BY <1>1, <1>8, <1>11, <1>14

\* The average true range is no less than the last bar's share of it.
LEMMA AtrIsAtLeastTheLast ==
    ASSUME NEW bars \in Seq(AnyBar), Len(bars) > AtrPeriod
    PROVE  /\ AtrSum(bars) \in Int /\ TrueRange(bars, Len(bars)) \in Nat
           /\ TrueRange(bars, Len(bars)) <= AtrSum(bars)
<1> DEFINE lo == Len(bars) - AtrPeriod
           hi == Len(bars)
<1>1. lo \in Nat /\ hi \in Nat /\ 1 <= lo /\ lo < hi
  BY AtrIsASum
<1>2. PICK sum \in [lo..hi -> Int] :
          /\ sum[lo] = 0
          /\ \A i \in (lo + 1)..hi : sum[i] = sum[i - 1] + TrueRange(bars, i)
          /\ AtrSum(bars) = sum[hi]
  BY AtrIsASum
<1>3. \A i \in (lo + 1)..hi : i \in 2..hi
  BY <1>1
<1>4. \A i \in (lo + 1)..hi : TrueRange(bars, i) \in Nat
  BY <1>3, RangeFacts
<1> HIDE DEF lo, hi
<1> DEFINE Good == {i \in lo..hi : sum[i] >= 0}
<1>5. \A i \in lo..hi : i \in Good
  <2>1. lo \in Good
    BY <1>1, <1>2
  <2>2. ASSUME NEW i \in (lo + 1)..hi, i - 1 \in Good
        PROVE  i \in Good
    <3>1. i \in lo..hi /\ i - 1 \in lo..hi /\ sum[i - 1] >= 0
      BY <1>1, <2>2
    <3>2. sum[i] = sum[i - 1] + TrueRange(bars, i) /\ sum[i - 1] \in Int
      BY <1>2, <3>1
    <3>3. TrueRange(bars, i) \in Nat
      BY <1>4
    <3>4. sum[i] >= 0
      BY <3>1, <3>2, <3>3
    <3> QED  BY <3>1, <3>4
  <2> HIDE DEF Good
  <2> QED  BY <1>1, <2>1, <2>2, Upwards
<1>6. hi \in (lo + 1)..hi /\ hi - 1 \in lo..hi /\ hi \in lo..hi
  BY <1>1
<1>7. sum[hi] = sum[hi - 1] + TrueRange(bars, hi) /\ sum[hi - 1] >= 0 /\ sum[hi - 1] \in Int
      /\ sum[hi] \in Int
  BY <1>2, <1>5, <1>6
<1>8. TrueRange(bars, hi) \in Nat
  BY <1>4, <1>6
<1>9. TrueRange(bars, hi) <= sum[hi]
  BY <1>7, <1>8
<1> QED  BY <1>2, <1>7, <1>8, <1>9 DEF hi

\* Wider bars have the larger average.
LEMMA AtrGrows ==
    ASSUME NEW bars \in Seq(AnyBar), NEW other \in Seq(AnyBar),
           Len(other) = Len(bars), Len(bars) > AtrPeriod,
           \A i \in (Len(bars) - AtrPeriod + 1)..Len(bars) :
               TrueRange(bars, i) <= TrueRange(other, i)
    PROVE  AtrSum(bars) <= AtrSum(other)
<1> DEFINE lo == Len(bars) - AtrPeriod
           hi == Len(bars)
<1>1. lo \in Nat /\ hi \in Nat /\ 1 <= lo /\ lo < hi
  BY AtrIsASum
<1>2. PICK sum \in [lo..hi -> Int] :
          /\ sum[lo] = 0
          /\ \A i \in (lo + 1)..hi : sum[i] = sum[i - 1] + TrueRange(bars, i)
          /\ AtrSum(bars) = sum[hi]
  BY AtrIsASum
<1>3. PICK sum2 \in [lo..hi -> Int] :
          /\ sum2[lo] = 0
          /\ \A i \in (lo + 1)..hi : sum2[i] = sum2[i - 1] + TrueRange(other, i)
          /\ AtrSum(other) = sum2[hi]
  <2>1. Len(other) - AtrPeriod = lo /\ Len(other) = hi
    OBVIOUS
  <2>2. \E f \in [(Len(other) - AtrPeriod)..Len(other) -> Int] :
          /\ f[Len(other) - AtrPeriod] = 0
          /\ \A i \in (Len(other) - AtrPeriod + 1)..Len(other) :
                f[i] = f[i - 1] + TrueRange(other, i)
          /\ AtrSum(other) = f[Len(other)]
    BY AtrIsASum
  <2> QED  BY <2>1, <2>2
<1>4. \A i \in (lo + 1)..hi : i \in 2..hi
  BY <1>1
<1>5. \A i \in (lo + 1)..hi : /\ TrueRange(bars, i) \in Nat /\ TrueRange(other, i) \in Nat
                              /\ TrueRange(bars, i) <= TrueRange(other, i)
  BY <1>4, RangeFacts
<1> HIDE DEF lo, hi
<1> DEFINE Good == {i \in lo..hi : sum[i] <= sum2[i]}
<1>6. \A i \in lo..hi : i \in Good
  <2>1. lo \in Good
    BY <1>1, <1>2, <1>3
  <2>2. ASSUME NEW i \in (lo + 1)..hi, i - 1 \in Good
        PROVE  i \in Good
    <3>1. i \in lo..hi /\ i - 1 \in lo..hi /\ sum[i - 1] <= sum2[i - 1]
      BY <1>1, <2>2
    <3>2. /\ sum[i] = sum[i - 1] + TrueRange(bars, i) /\ sum[i - 1] \in Int
          /\ sum2[i] = sum2[i - 1] + TrueRange(other, i) /\ sum2[i - 1] \in Int
      BY <1>2, <1>3, <3>1
    <3>3. /\ TrueRange(bars, i) \in Nat /\ TrueRange(other, i) \in Nat
          /\ TrueRange(bars, i) <= TrueRange(other, i)
      BY <1>5
    <3>4. sum[i] <= sum2[i]
      BY <3>1, <3>2, <3>3
    <3> QED  BY <3>1, <3>4
  <2> HIDE DEF Good
  <2> QED  BY <1>1, <2>1, <2>2, Upwards
<1>7. hi \in lo..hi
  BY <1>1
<1> QED  BY <1>2, <1>3, <1>6, <1>7

-----------------------------------------------------------------------------
(***************************************************************************)
(* The stop.                                                               *)
(***************************************************************************)
LEMMA TimesTens ==
    \A m, n \in Int, k \in Nat : m <= n => k * m <= k * n
OBVIOUS

LEMMA StopDistanceGrows ==
    ASSUME NEW m \in Int, NEW n \in Int, m <= n
    PROVE  1000 * StopTenths * m <= 1000 * StopTenths * n
<1>1. 1000 * StopTenths \in Nat
  BY Positive
<1> DEFINE k == 1000 * StopTenths
<1> HIDE DEF k
<1>2. k * m <= k * n
  BY <1>1, TimesTens DEF k
<1> QED  BY <1>2 DEF k

LEMMA WiderRange ==
    \A h, l, h2, l2, c, r \in Int :
        /\ h <= h2 /\ l2 <= l /\ l <= h
        /\ h2 - l2 <= r /\ Distance(h2, c) <= r /\ Distance(l2, c) <= r
        => h - l <= r /\ Distance(h, c) <= r /\ Distance(l, c) <= r
BY DEF Distance

\* A price that widens the forming bar never narrows its true range.
LEMMA FormingBarWidens ==
    ASSUME NEW bars \in Series(BarRecords), NEW price \in Prices, Len(bars) > AtrPeriod
    PROVE  StopDistanceOf(bars) <= StopDistanceOf(TakesUp(bars, price))
<1> DEFINE other == TakesUp(bars, price)
           l == Len(bars)
<1>1. /\ other \in Series(BarRecords) /\ LastOf(other) = Traded(LastOf(bars), price)
      /\ Len(other) = l /\ \A i \in 1..(l - 1) : other[i] = bars[i]
  BY TakingUp
<1>2. bars \in Seq(AnyBar) /\ other \in Seq(AnyBar)
  BY <1>1, SeriesIsSeq, BarsAreAny
<1>3. l \in Nat /\ l > AtrPeriod /\ AtrPeriod \in Nat /\ AtrPeriod >= 1
  BY SeriesFacts, Positive
<1>4. LastOf(bars) \in BarRecords
  BY SeriesFacts
<1>5. /\ bars[l] = LastOf(bars) /\ other[l] = Traded(LastOf(bars), price)
  BY <1>1 DEF LastOf
<1> HIDE DEF other
<1>6. ASSUME NEW i \in (l - AtrPeriod + 1)..l
      PROVE  TrueRange(bars, i) <= TrueRange(other, i)
  <2>1. i \in 2..l /\ i - 1 \in 1..(l - 1)
    BY <1>3
  <2>2. CASE i # l
    <3>1. i \in 1..(l - 1)
      BY <1>3, <2>1, <2>2
    <3>2. bars[i] = other[i] /\ bars[i - 1] = other[i - 1]
      BY <1>1, <2>1, <3>1
    <3>3. TrueRange(bars, i) = TrueRange(other, i) /\ TrueRange(bars, i) \in Nat
      BY <1>2, <2>1, <3>2, RangeFacts DEF TrueRange
    <3> QED  BY <3>3
  <2>3. CASE i = l
    <3> DEFINE b  == bars[l]
               b2 == other[l]
               c  == bars[l - 1].close
               r  == TrueRange(bars, l)
               r2 == TrueRange(other, l)
    <3>1. other[l - 1] = bars[l - 1]
      BY <1>1, <2>1, <2>3
    <3>2. b \in BarRecords /\ b2 \in BarRecords /\ b.high <= b2.high /\ b2.low <= b.low
      BY <1>4, <1>5, TradedIsBar
    <3>3. /\ b \in AnyBar /\ b2 \in AnyBar /\ bars[l - 1] \in AnyBar
      BY <1>2, <2>1, <2>3, <3>2, BarsAreAny, LenProperties
    <3>4. /\ b.high \in Int /\ b.low \in Int /\ b2.high \in Int /\ b2.low \in Int /\ c \in Int
      BY <3>3 DEF AnyBar
    <3>5. /\ r \in Nat
          /\ r = b.high - b.low \/ r = Distance(b.high, c) \/ r = Distance(b.low, c)
      BY <1>2, <2>1, <2>3, RangeFacts
    <3>6. /\ r2 \in Nat /\ b2.high - b2.low <= r2
          /\ Distance(b2.high, c) <= r2 /\ Distance(b2.low, c) <= r2
      BY <1>1, <1>2, <2>1, <2>3, <3>1, RangeFacts
    <3>7. b.low <= b.high
      <4>1. b.low <= b.close /\ b.close <= b.high /\ b.close \in Int
        BY <3>2, <3>3, BarFacts DEF AnyBar
      <4> QED  BY <3>4, <4>1
    <3> HIDE DEF b, b2, c, r, r2
    <3>8. r2 \in Int
      BY <3>6
    <3>9. b.high - b.low <= r2 /\ Distance(b.high, c) <= r2 /\ Distance(b.low, c) <= r2
      BY <3>2, <3>4, <3>6, <3>7, <3>8, WiderRange
    <3>10. r <= r2
      BY <3>5, <3>9
    <3> QED  BY <2>3, <3>10 DEF r, r2
  <2> QED  BY <2>2, <2>3
<1>7. AtrSum(bars) <= AtrSum(other)
  BY <1>1, <1>2, <1>6, AtrGrows
<1>8. AtrSum(bars) \in Int /\ AtrSum(other) \in Int
  BY <1>1, <1>2, AtrIsAtLeastTheLast
<1>9. 1000 * StopTenths * AtrSum(bars) <= 1000 * StopTenths * AtrSum(other)
  BY <1>7, <1>8, StopDistanceGrows
<1> QED  BY <1>9 DEF StopDistanceOf, other

\* While a four-hour bar forms, a later scan never puts the stop nearer
\* (sleeve_b_candidate_builder.py:72-73, 146-160).
THEOREM StopsNeverTighten == Spec => StopNeverTightens
<1> DEFINE Step == FourOf(hours') = FourOf(hours) /\ Len(four) > AtrPeriod =>
                       StopDistanceOf(four') >= StopDistanceOf(four)
<1>1. ASSUME ScanInv, Next
      PROVE  Step
  <2> SUFFICES ASSUME FourOf(hours') = FourOf(hours), Len(four) > AtrPeriod
               PROVE  StopDistanceOf(four') >= StopDistanceOf(four)
    OBVIOUS
  <2>1. four \in Series(BarRecords)
    BY <1>1 DEF ScanInv, MarketTyped
  <2>2. StopDistanceOf(four) \in Int
    <3>1. AtrSum(four) \in Int
      BY <2>1, SeriesIsSeq, BarsAreAny, AtrIsAtLeastTheLast
    <3> QED  BY <3>1, Positive DEF StopDistanceOf
  <2>3. four' = four \/ \E price \in Prices : four' = TakesUp(four, price)
    BY <1>1 DEF Next, Trade, HourEnds, FetchDaily, FetchFour, FetchHourAndBuild, Deliver,
                FetchFails, market
  <2>4. CASE four' = four
    <3>1. StopDistanceOf(four') = StopDistanceOf(four)
      BY <2>4 DEF StopDistanceOf, AtrSum
    <3> QED  BY <2>2, <3>1
  <2>5. ASSUME NEW price \in Prices, four' = TakesUp(four, price)
        PROVE  StopDistanceOf(four') >= StopDistanceOf(four)
    <3>1. StopDistanceOf(four) <= StopDistanceOf(TakesUp(four, price))
      BY <2>1, FormingBarWidens
    <3>2. TakesUp(four, price) \in Series(BarRecords) /\ Len(TakesUp(four, price)) > AtrPeriod
      BY <2>1, TakingUp
    <3>3. AtrSum(TakesUp(four, price)) \in Int
      BY <3>2, SeriesIsSeq, BarsAreAny, AtrIsAtLeastTheLast
    <3>4. StopDistanceOf(TakesUp(four, price)) \in Int
      BY <3>3, Positive DEF StopDistanceOf
    <3> QED  BY <2>2, <2>5, <3>1, <3>4
  <2> QED  BY <2>3, <2>4, <2>5
<1>2. ScanInv /\ [Next]_vars => [Step]_vars
  BY <1>1
<1> HIDE DEF Step
<1>3. Spec => [][Step]_vars
  BY <1>2, ScanHolds, PTL DEF Spec
<1> QED  BY <1>3 DEF StopNeverTightens, Step

-----------------------------------------------------------------------------
(***************************************************************************)
(* The candidate.                                                          *)
(***************************************************************************)
LEMMA SideMeansBreakout ==
    ASSUME NEW d, NEW f \in Seq(BarRecords), NEW h, NEW side \in {"LONG", "SHORT"},
           SideOf(d, f, h) = side
    PROVE  /\ Len(f) > AtrPeriod /\ Len(f) > Lookback
           /\ \A i \in Channel(f) : IF side = "LONG" THEN LastOf(f).close > f[i].high
                                                     ELSE LastOf(f).close < f[i].low
<1>1. EnoughBars(d, f, h) /\ Breakout(Regime(d), f) = side
  BY DEF SideOf
<1>2. Len(f) >= Max({Lookback, AtrPeriod}) + 1
  BY <1>1 DEF EnoughBars
<1> DEFINE greater == Max({Lookback, AtrPeriod})
<1>3. greater \in Int /\ Lookback <= greater /\ AtrPeriod <= greater
  <2>1. Lookback \in Int /\ AtrPeriod \in Int
    BY Positive
  <2> QED  BY <2>1, MaxOfTwo
<1>4. Len(f) \in Nat /\ Lookback \in Int /\ AtrPeriod \in Int /\ Len(f) >= greater + 1
  BY <1>2, LenProperties, Positive
<1> HIDE DEF greater
<1>5. Len(f) > AtrPeriod /\ Len(f) > Lookback
  BY <1>3, <1>4
<1>6. \A i \in Channel(f) : IF side = "LONG" THEN LastOf(f).close > f[i].high
                                              ELSE LastOf(f).close < f[i].low
  BY <1>1 DEF Breakout
<1> QED  BY <1>5, <1>6

\* A breakout forces a true range, hence a stop distance.
LEMMA BreakoutHasRange ==
    ASSUME NEW d, NEW f \in Seq(BarRecords), NEW h, NEW side \in {"LONG", "SHORT"},
           SideOf(d, f, h) = side
    PROVE  StopDistanceOf(f) \in Nat /\ StopDistanceOf(f) > 0
<1> DEFINE l == Len(f)
           b == f[l]
           c == f[l - 1].close
           r == TrueRange(f, l)
<1>1. l > AtrPeriod /\ l > Lookback /\ l \in Nat
  BY SideMeansBreakout, LenProperties
<1>2. l \in 2..l /\ l - 1 \in 1..l /\ l \in 1..l /\ l - 1 \in Channel(f)
  BY <1>1, Positive DEF Channel
<1>3. b \in BarRecords /\ f[l - 1] \in BarRecords
  BY <1>2, LenProperties
<1>4. f \in Seq(AnyBar) /\ b \in AnyBar /\ f[l - 1] \in AnyBar
  BY <1>3, BarsAreAny
<1>5. /\ b.high \in Int /\ b.low \in Int /\ b.close \in Int /\ c \in Int
      /\ f[l - 1].high \in Int /\ f[l - 1].low \in Int
  BY <1>4 DEF AnyBar
<1>6. /\ b.low <= b.close /\ b.close <= b.high
      /\ f[l - 1].low <= c /\ c <= f[l - 1].high
  BY <1>3, BarFacts
<1>7. IF side = "LONG" THEN b.close > f[l - 1].high ELSE b.close < f[l - 1].low
  BY <1>2, SideMeansBreakout DEF LastOf
<1>8. r \in Nat /\ Distance(b.high, c) <= r /\ Distance(b.low, c) <= r
  BY <1>2, <1>4, RangeFacts
<1>9. r > 0
  <2> HIDE DEF b, c, r, l
  <2>1. CASE side = "LONG"
    <3>1. b.high - c > 0
      BY <1>5, <1>6, <1>7, <2>1
    <3>2. b.high - c <= Distance(b.high, c) /\ Distance(b.high, c) \in Int
      BY <1>5 DEF Distance
    <3> QED  BY <1>5, <1>8, <3>1, <3>2
  <2>2. CASE side = "SHORT"
    <3>1. c - b.low > 0
      BY <1>5, <1>6, <1>7, <2>2
    <3>2. c - b.low <= Distance(b.low, c) /\ Distance(b.low, c) \in Int
      BY <1>5 DEF Distance
    <3> QED  BY <1>5, <1>8, <3>1, <3>2
  <2> QED  BY <2>1, <2>2
<1>10. AtrSum(f) \in Int /\ r <= AtrSum(f)
  BY <1>1, <1>4, AtrIsAtLeastTheLast
<1> HIDE DEF r
<1>11. AtrSum(f) \in Nat /\ AtrSum(f) >= 1
  BY <1>8, <1>9, <1>10
<1>12. StopTenths \in Nat /\ StopTenths >= 1
  BY Positive
<1>13. \A m, n \in Nat : m >= 1 /\ n >= 1 => 1000 * m * n \in Nat /\ 1000 * m * n > 0
  OBVIOUS
<1> QED  BY <1>11, <1>12, <1>13 DEF StopDistanceOf

\* The entry lies on the passive side of the last price, by the offset at least.
LEMMA EntryIsPassive ==
    ASSUME OffsetBps > 0, NEW f \in Series(BarRecords), NEW h \in Series(BarRecords),
           NEW side \in {"LONG", "SHORT"}
    PROVE  LET entry == EntryPrice(side, f, h)
               last  == PriceScale * LastOf(h).close
           IN  /\ entry \in Int
               /\ side = "LONG" => entry < last
               /\ side = "SHORT" => entry > last
<1> DEFINE x    == LastOf(h).close
           y    == 10000 * LastOf(f).close
           low  == x * (10000 - OffsetBps)
           high == x * (10000 + OffsetBps)
           least    == Min({y, low})
           greatest == Max({y, high})
<1>1. LastOf(h) \in BarRecords /\ LastOf(f) \in BarRecords
  BY SeriesFacts
<1>2. LastOf(h).close \in Prices /\ LastOf(f).close \in Prices
  BY <1>1, BarFacts
<1>3. x \in Int /\ x >= 1 /\ y \in Int
  <2>1. \A p \in Prices : p \in Int /\ p >= 1
    BY Positive
  <2>2. x \in Int /\ x >= 1 /\ LastOf(f).close \in Int
    BY <1>2, <2>1
  <2> QED  BY <2>2
<1>4. OffsetBps \in 1..9999 /\ AtrPeriod \in Nat /\ AtrPeriod >= 1
  BY Positive, SignalAssumption
<1> HIDE DEF x, y
<1>5. low \in Int /\ high \in Int /\ low < 10000 * x /\ high > 10000 * x
  BY <1>3, <1>4
<1>6. /\ side = "LONG" => Passive(side, x) = low
      /\ side = "SHORT" => Passive(side, x) = high
  BY DEF Passive
<1> HIDE DEF low, high
<1>7. /\ least \in Int /\ least <= low /\ greatest \in Int /\ high <= greatest
  <2>0. y \in Int /\ low \in Int /\ high \in Int
    BY <1>3, <1>5
  <2>1. least \in Int /\ least <= low
    BY <2>0, MinOfTwo
  <2>2. greatest \in Int /\ high <= greatest
    BY <2>0, MaxOfTwo
  <2> QED  BY <2>1, <2>2
<1>8. EntryPrice(side, f, h) = IF side = "LONG" THEN AtrPeriod * least ELSE AtrPeriod * greatest
  <2>1. h # <<>>
    BY EmptySeq DEF Series
  <2>2. EntryPrice(side, f, h)
            = AtrPeriod * IF side = "LONG" THEN Min({y, Passive(side, x)})
                                           ELSE Max({y, Passive(side, x)})
    BY <2>1 DEF EntryPrice, x, y
  <2>3. CASE side = "LONG"
    BY <1>6, <2>2, <2>3
  <2>4. CASE side = "SHORT"
    BY <1>6, <2>2, <2>4
  <2> QED  BY <2>3, <2>4
<1>9. PriceScale * x = AtrPeriod * (10000 * x)
  BY <1>3, <1>4 DEF PriceScale
<1> HIDE DEF least, greatest
<1>10. 10000 * x \in Int /\ least < 10000 * x /\ greatest > 10000 * x
  BY <1>3, <1>5, <1>7
<1>11. \A m, n \in Int, k \in Nat : k >= 1 /\ m < n => k * m < k * n
  OBVIOUS
<1>12. /\ AtrPeriod * least < AtrPeriod * (10000 * x)
       /\ AtrPeriod * (10000 * x) < AtrPeriod * greatest
  BY <1>4, <1>7, <1>10, <1>11
<1>13. AtrPeriod * least \in Int /\ AtrPeriod * greatest \in Int
  BY <1>4, <1>7
<1> QED  BY <1>8, <1>9, <1>12, <1>13 DEF x

\* Without one-hour bars it is the last price, the four-hour close.
LEMMA EntryUntimed ==
    ASSUME NEW f \in Series(BarRecords), NEW side
    PROVE  LET entry == EntryPrice(side, f, <<>>)
           IN  entry \in Int /\ entry = PriceScale * LastOf(f).close
<1> DEFINE y == LastOf(f).close
<1>1. y \in Prices
  BY SeriesFacts, BarFacts
<1>2. y \in Int /\ AtrPeriod \in Int
  <2>1. \A p \in Prices : p \in Int
    BY Positive
  <2>2. AtrPeriod \in Int
    BY Positive
  <2> QED  BY <1>1, <2>1, <2>2
<1>3. EntryPrice(side, f, <<>>) = AtrPeriod * (10000 * y)
  BY DEF EntryPrice
<1> HIDE DEF y
<1>4. AtrPeriod * (10000 * y) \in Int /\ PriceScale * y = AtrPeriod * (10000 * y)
  BY <1>2 DEF PriceScale
<1> QED  BY <1>3, <1>4 DEF y

\* A candidate's stop lies beyond its limit, which is on the passive side of the last price
\* the scan saw, or that price where it saw no one-hour bars, whatever the market did
\* between the three calls.  The hypothesis is needed: without an offset the limit may be
\* the last one-hour close itself (sleeve_b_candidate_builder.py:70-77, 119-131).
THEOREM CandidatesAreTradable ==
    ASSUME OffsetBps > 0
    PROVE  Spec => []CandidateIsTradable
<1>1. ASSUME ScanInv
      PROVE  CandidateIsTradable
  <2> DEFINE d     == seen.daily
             f     == seen.four
             h     == seen.hour
             side  == candidate.side
             entry == EntryPrice(side, f, h)
             untimed == h = <<>>
             last  == PriceScale * LastOf(IF untimed THEN f ELSE h).close
  <2> SUFFICES ASSUME side \in {"LONG", "SHORT"}
               PROVE  /\ side = "LONG" =>
                             /\ candidate.stop < candidate.entry
                             /\ IF untimed THEN candidate.entry = last
                                           ELSE candidate.entry < last
                      /\ side = "SHORT" =>
                             /\ candidate.stop > candidate.entry
                             /\ IF untimed THEN candidate.entry = last
                                           ELSE candidate.entry > last
    BY DEF CandidateIsTradable
  <2>1. pc = "built"
    BY <1>1 DEF ScanInv, ScanTyped, NoCandidate
  <2>2. /\ candidate = CandidateOf(d, f, h) /\ f \in Seq(BarRecords)
        /\ untimed \/ h \in Series(BarRecords)
    BY <1>1, <2>1 DEF ScanInv, ScanTyped, SeenRecords
  <2>3. SideOf(d, f, h) = side
    BY <2>2, CandidateSide
  <2>4. Len(f) > AtrPeriod /\ StopDistanceOf(f) \in Nat /\ StopDistanceOf(f) > 0
    BY <2>2, <2>3, SideMeansBreakout, BreakoutHasRange
  <2>5. f \in Series(BarRecords)
    <3>1. Len(f) \in Nat
      BY <2>2, LenProperties
    <3> QED  BY <2>2, <2>4, <3>1, Positive DEF Series
  <2>6. /\ entry \in Int
        /\ untimed => entry = last
        /\ ~ untimed /\ side = "LONG" => entry < last
        /\ ~ untimed /\ side = "SHORT" => entry > last
    <3>1. CASE untimed
      BY <2>5, <3>1, EntryUntimed
    <3>2. CASE ~ untimed
      BY <2>2, <2>5, <3>2, EntryIsPassive
    <3> QED  BY <3>1, <3>2
  <2>7. /\ candidate.entry = entry
        /\ candidate.stop = IF side = "LONG" THEN entry - StopDistanceOf(f)
                                             ELSE entry + StopDistanceOf(f)
    <3> HIDE DEF d, f, h, side
    <3>1. side # "NONE"
      OBVIOUS
    <3> QED  BY <2>2, <2>3, <3>1 DEF CandidateOf
  <2> HIDE DEF d, f, h, side, entry, last, untimed
  <2> QED  BY <2>4, <2>6, <2>7
<1> QED  BY <1>1, ScanHolds, PTL

-----------------------------------------------------------------------------
(***************************************************************************)
(* Averages.                                                               *)
(***************************************************************************)
LEMMA TimesPositive ==
    \A m, n \in Int : m >= 1 /\ n >= 1 => m * n >= 1
OBVIOUS

LEMMA PowerIsAFunction ==
    ASSUME NEW base \in Nat, NEW n \in Nat
    PROVE  \E f \in [0..n -> Int] :
              /\ f[0] = 1
              /\ \A k \in 1..n : f[k] = base * f[k - 1]
              /\ Power(base, n) = f[n]
<1> DEFINE body(f) == [k \in 0..n |-> IF k = 0 THEN 1 ELSE base * f[k - 1]]
           next == [k \in (0 + 1)..n |-> [x \in Int |-> base * x]]
<1>1. next \in [(0 + 1)..n -> [Int -> Int]]
  OBVIOUS
<1>2. \A f \in [0..n -> Int] : Follows(f, 0, n, 1, next) => f = body(f)
  <2> SUFFICES ASSUME NEW f \in [0..n -> Int], Follows(f, 0, n, 1, next),
                      NEW k \in 0..n, k # 0
               PROVE  next[k][f[k - 1]] = base * f[k - 1]
    BY DEF Follows
  <2>1. k \in (0 + 1)..n /\ k - 1 \in 0..n
    OBVIOUS
  <2> QED  BY <2>1
<1>3. \E f \in [0..n -> Int] : Follows(f, 0, n, 1, next)
  <2> HIDE DEF next
  <2>1. 0 \in Nat /\ 1 \in Int /\ 0 <= n
    OBVIOUS
  <2> QED  BY <1>1, <2>1, FollowerExists
<1>4. \E f : f = body(f)
  BY <1>2, <1>3
<1> DEFINE power == CHOOSE f : f = body(f)
<1>5. Power(base, n) = power[n]
  BY DEF Power
<1>6. power = body(power)
  BY <1>4
<1> HIDE DEF power
<1>7. power[0] = 1 /\ \A k \in 1..n : power[k] = base * power[k - 1]
  <2>1. 0 \in 0..n /\ \A k \in 1..n : k \in 0..n /\ k # 0
    OBVIOUS
  <2> QED  BY <1>6, <2>1
<1>8. \A k \in 0..n : power[k] \in Int
  <2> DEFINE Good == {k \in 0..n : power[k] \in Int}
  <2>1. 0 \in Good
    BY <1>7
  <2>2. \A k \in (0 + 1)..n : k - 1 \in Good => k \in Good
    BY <1>7
  <2>3. \A k \in 0..n : k \in Good
    <3> HIDE DEF Good
    <3>1. 0 \in Nat
      OBVIOUS
    <3> QED  BY <2>1, <2>2, <3>1, Upwards
  <2> QED  BY <2>3
<1>9. power = [k \in 0..n |-> power[k]]
  BY <1>6
<1>10. power \in [0..n -> Int]
  BY <1>8, <1>9
<1> QED  BY <1>5, <1>7, <1>10

LEMMA PowerFacts ==
    ASSUME NEW base \in Nat, base >= 1, NEW n \in Nat
    PROVE  /\ Power(base, 0) = 1
           /\ Power(base, n) \in Nat /\ Power(base, n) >= 1
           /\ Power(base, n + 1) = base * Power(base, n)
<1>1. PICK f \in [0..n -> Int] :
          /\ f[0] = 1
          /\ \A k \in 1..n : f[k] = base * f[k - 1]
          /\ Power(base, n) = f[n]
  BY PowerIsAFunction
<1>2. PICK g \in [0..(n + 1) -> Int] :
          /\ g[0] = 1
          /\ \A k \in 1..(n + 1) : g[k] = base * g[k - 1]
          /\ Power(base, n + 1) = g[n + 1]
  <2>1. n + 1 \in Nat
    OBVIOUS
  <2> QED  BY <2>1, PowerIsAFunction
<1>3. Power(base, 0) = 1
  <2>1. \E h \in [0..0 -> Int] : h[0] = 1 /\ Power(base, 0) = h[0]
    BY 0 \in Nat, PowerIsAFunction
  <2> QED  BY <2>1
<1> DEFINE Good == {k \in 0..n : f[k] = g[k] /\ f[k] >= 1}
<1>4. \A k \in 0..n : k \in Good
  <2>1. 0 \in Good
    BY <1>1, <1>2
  <2>2. ASSUME NEW k \in (0 + 1)..n, k - 1 \in Good
        PROVE  k \in Good
    <3>1. k \in 1..n /\ k \in 1..(n + 1) /\ k \in 0..n
      OBVIOUS
    <3>2. f[k] = base * f[k - 1] /\ g[k] = base * g[k - 1]
      BY <1>1, <1>2, <3>1
    <3>3. f[k - 1] = g[k - 1] /\ f[k - 1] >= 1 /\ f[k - 1] \in Int
      BY <2>2
    <3>4. f[k] >= 1
      BY <3>2, <3>3, TimesPositive
    <3> QED  BY <3>1, <3>2, <3>3, <3>4
  <2> HIDE DEF Good
  <2> QED  BY <2>1, <2>2, 0 \in Nat, Upwards
<1>5. f[n] = g[n] /\ f[n] >= 1 /\ f[n] \in Int
  BY <1>4
<1>6. g[n + 1] = base * g[n]
  BY <1>2
<1> QED  BY <1>1, <1>2, <1>3, <1>5, <1>6

\* EmaSum is the last of the sums its recursion makes, one for each value.
LEMMA EmaIsASum ==
    ASSUME NEW values \in Series(Int), NEW period \in Nat, period >= 1
    PROVE  \E sum \in [1..Len(values) -> Int] :
              /\ sum[1] = values[1]
              /\ \A n \in 2..Len(values) :
                    sum[n] = 2 * values[n] * Power(period + 1, n - 2) + (period - 1) * sum[n - 1]
              /\ EmaSum(values, period) = sum[Len(values)]
<1> DEFINE hi == Len(values)
           added(n) == 2 * values[n] * Power(period + 1, n - 2)
           body(f) == [n \in 1..hi |-> IF n = 1 THEN values[1]
                                       ELSE added(n) + (period - 1) * f[n - 1]]
           next == [n \in (1 + 1)..hi |-> [x \in Int |-> added(n) + (period - 1) * x]]
<1>1. hi \in Nat /\ 1 <= hi /\ DOMAIN values = 1..hi /\ \A n \in 1..hi : values[n] \in Int
  BY SeriesFacts
<1>2. \A n \in 2..hi : added(n) \in Int
  <2> SUFFICES ASSUME NEW n \in 2..hi
               PROVE  added(n) \in Int
    OBVIOUS
  <2>1. values[n] \in Int /\ n - 2 \in Nat /\ period + 1 \in Nat /\ period + 1 >= 1
    BY <1>1
  <2>2. Power(period + 1, n - 2) \in Int
    BY <2>1, PowerFacts
  <2> QED  BY <2>1, <2>2
<1>3. EmaSum(values, period) = (CHOOSE f : f = body(f))[hi]
  BY <1>1 DEF EmaSum
<1> HIDE DEF added
<1>4. next \in [(1 + 1)..hi -> [Int -> Int]]
  BY <1>2
<1>5. \A f \in [1..hi -> Int] : Follows(f, 1, hi, values[1], next) => f = body(f)
  <2> SUFFICES ASSUME NEW f \in [1..hi -> Int], Follows(f, 1, hi, values[1], next),
                      NEW n \in 1..hi, n # 1
               PROVE  next[n][f[n - 1]] = added(n) + (period - 1) * f[n - 1]
    BY DEF Follows
  <2>1. n \in (1 + 1)..hi /\ n - 1 \in 1..hi
    BY <1>1
  <2> QED  BY <2>1
<1>6. \E f \in [1..hi -> Int] : Follows(f, 1, hi, values[1], next)
  <2> HIDE DEF next, hi
  <2>1. 1 \in Nat /\ values[1] \in Int
    BY <1>1
  <2> QED  BY <1>1, <1>4, <2>1, FollowerExists
<1>7. \E f : f = body(f)
  BY <1>5, <1>6
<1> DEFINE sum == CHOOSE f : f = body(f)
<1>8. sum = body(sum)
  BY <1>7
<1>9. EmaSum(values, period) = sum[hi]
  BY <1>3
<1> HIDE DEF sum
<1>10. 1 \in 1..hi /\ \A n \in 2..hi : n \in 1..hi /\ n # 1
  BY <1>1
<1>11. sum[1] = values[1] /\ \A n \in 2..hi : sum[n] = added(n) + (period - 1) * sum[n - 1]
  BY <1>8, <1>10
<1>12. \A n \in 1..hi : sum[n] \in Int
  <2> DEFINE Good == {n \in 1..hi : sum[n] \in Int}
  <2>1. 1 \in Good
    BY <1>1, <1>10, <1>11
  <2>2. \A n \in (1 + 1)..hi : n - 1 \in Good => n \in Good
    BY <1>2, <1>10, <1>11
  <2>3. \A n \in 1..hi : n \in Good
    <3> HIDE DEF Good, hi
    <3> QED  BY <1>1, <2>1, <2>2, 1 \in Nat, Upwards
  <2> QED  BY <2>3
<1>13. sum = [n \in 1..hi |-> sum[n]]
  BY <1>8
<1>14. sum \in [1..hi -> Int]
  BY <1>12, <1>13
<1> QED  BY <1>9, <1>11, <1>14 DEF added

\* The product of powers and periods that both averages are compared over.
LEMMA ScaleFacts ==
    ASSUME NEW values \in Series(Int), NEW period \in Nat, period >= 1
    PROVE  /\ EmaScale(values, period) \in Nat /\ EmaScale(values, period) >= 1
           /\ Len(values) = 1 => EmaScale(values, period) = 1
           /\ Len(values) >= 2 =>
                 /\ Power(period + 1, Len(values) - 2) \in Nat
                 /\ Power(period + 1, Len(values) - 2) >= 1
                 /\ EmaScale(values, period)
                        = (period + 1) * Power(period + 1, Len(values) - 2)
<1> DEFINE l == Len(values)
           base == period + 1
<1>1. l \in Nat /\ l >= 1 /\ base \in Nat /\ base >= 1 /\ l - 1 \in Nat
  BY SeriesFacts
<1>2. EmaScale(values, period) = Power(base, l - 1)
  BY DEF EmaScale
<1> HIDE DEF l, base
<1>3. Power(base, l - 1) \in Nat /\ Power(base, l - 1) >= 1 /\ Power(base, 0) = 1
  BY <1>1, PowerFacts
<1>4. l = 1 => Power(base, l - 1) = 1
  BY <1>3
<1>5. ASSUME l >= 2
      PROVE  /\ Power(base, l - 2) \in Nat /\ Power(base, l - 2) >= 1
             /\ Power(base, l - 1) = base * Power(base, l - 2)
  <2>1. l - 2 \in Nat /\ (l - 2) + 1 = l - 1
    BY <1>1, <1>5
  <2> QED  BY <1>1, <2>1, PowerFacts
<1> QED  BY <1>2, <1>3, <1>4, <1>5 DEF l, base

LEMMA EmaIsInt ==
    ASSUME NEW values \in Series(Int), NEW period \in Nat, period >= 1
    PROVE  /\ EmaSum(values, period) \in Int
           /\ Len(values) = 1 => EmaSum(values, period) = LastOf(values)
<1>1. Len(values) \in 1..Len(values)
  BY SeriesFacts
<1> QED  BY <1>1, EmaIsASum DEF LastOf

\* Series that differ in their last value only have averages that differ in its share only.
LEMMA EmaOfLast ==
    ASSUME NEW s \in Series(Int), NEW t \in Series(Int), NEW period \in Nat, period >= 1,
           Len(t) = Len(s), Len(s) >= 2, \A n \in 1..(Len(s) - 1) : t[n] = s[n]
    PROVE  \E rest \in Int :
              /\ EmaSum(s, period) = 2 * LastOf(s) * Power(period + 1, Len(s) - 2) + rest
              /\ EmaSum(t, period) = 2 * LastOf(t) * Power(period + 1, Len(s) - 2) + rest
<1> DEFINE l == Len(s)
           power(n) == Power(period + 1, n - 2)
<1>1. l \in Nat /\ l >= 2
  BY SeriesFacts
<1>2. PICK f \in [1..l -> Int] :
          /\ f[1] = s[1]
          /\ \A n \in 2..l : f[n] = 2 * s[n] * power(n) + (period - 1) * f[n - 1]
          /\ EmaSum(s, period) = f[l]
  BY EmaIsASum
<1>3. PICK g \in [1..l -> Int] :
          /\ g[1] = t[1]
          /\ \A n \in 2..l : g[n] = 2 * t[n] * power(n) + (period - 1) * g[n - 1]
          /\ EmaSum(t, period) = g[l]
  <2>1. \E g \in [1..Len(t) -> Int] :
          /\ g[1] = t[1]
          /\ \A n \in 2..Len(t) : g[n] = 2 * t[n] * power(n) + (period - 1) * g[n - 1]
          /\ EmaSum(t, period) = g[Len(t)]
    BY EmaIsASum
  <2>2. Len(t) = l
    OBVIOUS
  <2> HIDE DEF power, l
  <2> QED  BY <2>1, <2>2
<1>4. \A n \in 1..(l - 1) : t[n] = s[n]
  OBVIOUS
<1> HIDE DEF power
<1>5. EmaSum(s, period) = f[l] /\ EmaSum(t, period) = g[l] /\ LastOf(s) = s[l] /\ LastOf(t) = t[l]
  BY <1>2, <1>3 DEF LastOf
<1> HIDE DEF l
<1> DEFINE Good == {n \in 1..(l - 1) : f[n] = g[n]}
<1>6. \A n \in 1..(l - 1) : n \in Good
  <2>1. 1 \in Good
    BY <1>1, <1>2, <1>3, <1>4
  <2>2. ASSUME NEW n \in (1 + 1)..(l - 1), n - 1 \in Good
        PROVE  n \in Good
    <3>1. n \in 2..l /\ n \in 1..(l - 1) /\ t[n] = s[n] /\ f[n - 1] = g[n - 1]
      BY <1>1, <1>4, <2>2
    <3> QED  BY <1>2, <1>3, <3>1
  <2>3. 1 \in Nat /\ l - 1 \in Nat
    BY <1>1
  <2> HIDE DEF Good
  <2> QED  BY <2>1, <2>2, <2>3, Upwards
<1> DEFINE rest == (period - 1) * f[l - 1]
<1>7. l - 1 \in 1..(l - 1) /\ l \in 2..l /\ l - 1 \in 1..l
  BY <1>1
<1>8. f[l - 1] = g[l - 1] /\ f[l - 1] \in Int
  BY <1>2, <1>6, <1>7
<1>9. rest \in Int
  BY <1>8
<1>10. f[l] = 2 * s[l] * power(l) + rest /\ g[l] = 2 * t[l] * power(l) + rest
  BY <1>2, <1>3, <1>7, <1>8
<1> HIDE DEF rest
<1>11. /\ EmaSum(s, period) = 2 * LastOf(s) * power(l) + rest
       /\ EmaSum(t, period) = 2 * LastOf(t) * power(l) + rest
  BY <1>5, <1>10
<1> QED  BY <1>9, <1>11 DEF power, l

-----------------------------------------------------------------------------
(***************************************************************************)
(* The regime.                                                             *)
(***************************************************************************)
LEMMA PeriodFacts ==
    /\ FastPeriod \in Nat /\ FastPeriod >= 1 /\ SlowPeriod \in Nat /\ SlowPeriod >= 1
    /\ FastPeriod < SlowPeriod
BY SignalAssumption

\* The comparisons that Regime makes, as differences: how far the last close is above the
\* fast average and the fast average above the slow one, in the scale of both.
LastOverFast(closes) ==
    LastOf(closes) * EmaScale(closes, FastPeriod) * EmaScale(closes, SlowPeriod)
        - EmaSum(closes, FastPeriod) * EmaScale(closes, SlowPeriod)
FastOverSlow(closes) ==
    EmaSum(closes, FastPeriod) * EmaScale(closes, SlowPeriod)
        - EmaSum(closes, SlowPeriod) * EmaScale(closes, FastPeriod)

LEMMA RegimeBySigns ==
    ASSUME NEW closes \in Series(Int)
    PROVE  /\ LastOverFast(closes) \in Int /\ FastOverSlow(closes) \in Int
           /\ Regime(closes) = IF LastOverFast(closes) > 0 /\ FastOverSlow(closes) > 0 THEN "BULL"
                               ELSE IF LastOverFast(closes) < 0 /\ FastOverSlow(closes) < 0
                               THEN "BEAR" ELSE "CHOP"
<1> DEFINE scaleFast == EmaScale(closes, FastPeriod)
           scaleSlow == EmaScale(closes, SlowPeriod)
           fast == EmaSum(closes, FastPeriod) * scaleSlow
           slow == EmaSum(closes, SlowPeriod) * scaleFast
           last == LastOf(closes) * scaleFast * scaleSlow
<1>1. scaleFast \in Int /\ scaleSlow \in Int /\ LastOf(closes) \in Int
      /\ EmaSum(closes, FastPeriod) \in Int /\ EmaSum(closes, SlowPeriod) \in Int
  BY PeriodFacts, ScaleFacts, EmaIsInt, SeriesFacts
<1>2. fast \in Int /\ slow \in Int /\ last \in Int
  <2> HIDE DEF scaleFast, scaleSlow
  <2> QED  BY <1>1
<1>3. LastOverFast(closes) = last - fast /\ FastOverSlow(closes) = fast - slow
  BY DEF LastOverFast, FastOverSlow
<1>4. Regime(closes) = IF last > fast /\ fast > slow THEN "BULL"
                       ELSE IF last < fast /\ fast < slow THEN "BEAR" ELSE "CHOP"
  BY DEF Regime
<1> HIDE DEF fast, slow, last
<1>5. /\ last - fast > 0 <=> last > fast
      /\ last - fast < 0 <=> last < fast
      /\ fast - slow > 0 <=> fast > slow
      /\ fast - slow < 0 <=> fast < slow
      /\ last - fast \in Int /\ fast - slow \in Int
  BY <1>2
<1> QED  BY <1>3, <1>4, <1>5

LEMMA RankBySigns ==
    ASSUME NEW s \in Series(Int), NEW t \in Series(Int),
           LastOverFast(s) <= LastOverFast(t), FastOverSlow(s) <= FastOverSlow(t)
    PROVE  RegimeRank(s) <= RegimeRank(t)
<1> DEFINE a == LastOverFast(s)
           b == FastOverSlow(s)
           c == LastOverFast(t)
           d == FastOverSlow(t)
<1>1. a \in Int /\ b \in Int /\ c \in Int /\ d \in Int /\ a <= c /\ b <= d
  BY RegimeBySigns
<1>2. /\ Regime(s) = IF a > 0 /\ b > 0 THEN "BULL" ELSE IF a < 0 /\ b < 0 THEN "BEAR" ELSE "CHOP"
      /\ Regime(t) = IF c > 0 /\ d > 0 THEN "BULL" ELSE IF c < 0 /\ d < 0 THEN "BEAR" ELSE "CHOP"
  BY RegimeBySigns
<1> HIDE DEF a, b, c, d
<1>3. \A closes : /\ Regime(closes) = "BEAR" => RegimeRank(closes) = 0
                  /\ Regime(closes) = "CHOP" => RegimeRank(closes) = 1
                  /\ Regime(closes) = "BULL" => RegimeRank(closes) = 2
  BY DEF RegimeRank
<1>4. CASE c > 0 /\ d > 0
  <2>1. RegimeRank(t) = 2
    BY <1>2, <1>3, <1>4
  <2>2. RegimeRank(s) \in 0..2
    BY <1>2, <1>3
  <2> QED  BY <2>1, <2>2
<1>5. CASE a < 0 /\ b < 0
  <2>1. ~ (a > 0 /\ b > 0)
    BY <1>1, <1>5
  <2>2. RegimeRank(s) = 0
    BY <1>2, <1>3, <1>5, <2>1
  <2>3. RegimeRank(t) \in 0..2
    BY <1>2, <1>3
  <2> QED  BY <2>2, <2>3
<1>6. CASE ~ (c > 0 /\ d > 0) /\ ~ (a < 0 /\ b < 0)
  <2>1. ~ (a > 0 /\ b > 0) /\ ~ (c < 0 /\ d < 0)
    BY <1>1, <1>6
  <2>2. RegimeRank(s) = 1 /\ RegimeRank(t) = 1
    BY <1>2, <1>3, <1>6, <2>1
  <2> QED  BY <2>2
<1> QED  BY <1>4, <1>5, <1>6

\* last - fast and fast - slow as functions of the last value v, over the power a of the
\* fast and the power b of the slow average and the shares m, n of the values before.
LEMMA DifferencesOfLast ==
    \A v, a, b, p, q, m, n \in Int :
        /\ v * ((p + 1) * a) * ((q + 1) * b) - (2 * v * a + m) * ((q + 1) * b)
               = ((q + 1) * b) * ((p - 1) * a * v - m)
        /\ (2 * v * a + m) * ((q + 1) * b) - (2 * v * b + n) * ((p + 1) * a)
               = 2 * (q - p) * (a * b) * v + (m * ((q + 1) * b) - n * ((p + 1) * a))
OBVIOUS

LEMMA ProductIsNat ==
    \A m, n \in Nat : m * n \in Nat
OBVIOUS

LEMMA LinearGrows ==
    \A v, w, n \in Int, k \in Nat : v <= w => k * v + n <= k * w + n
OBVIOUS

\* A series whose last value is larger has both differences larger.
LEMMA DifferencesGrow ==
    ASSUME NEW s \in Series(Int), NEW t \in Series(Int), Len(t) = Len(s),
           \A n \in 1..(Len(s) - 1) : t[n] = s[n], LastOf(s) <= LastOf(t)
    PROVE  LastOverFast(s) <= LastOverFast(t) /\ FastOverSlow(s) <= FastOverSlow(t)
<1> DEFINE l == Len(s)
           v == LastOf(s)
           w == LastOf(t)
           p == FastPeriod
           q == SlowPeriod
<1>1. /\ l \in Nat /\ l >= 1 /\ Len(t) = l /\ v \in Int /\ w \in Int /\ v <= w
      /\ p \in Nat /\ p >= 1 /\ q \in Nat /\ q >= 1 /\ p < q
  BY SeriesFacts, PeriodFacts
<1>2. CASE l = 1
  <2>1. /\ EmaScale(s, p) = 1 /\ EmaScale(s, q) = 1 /\ EmaScale(t, p) = 1 /\ EmaScale(t, q) = 1
    BY <1>1, <1>2, ScaleFacts
  <2>2. /\ EmaSum(s, p) = v /\ EmaSum(s, q) = v /\ EmaSum(t, p) = w /\ EmaSum(t, q) = w
    BY <1>1, <1>2, EmaIsInt
  <2>3. /\ LastOverFast(s) = v * 1 * 1 - v * 1 /\ FastOverSlow(s) = v * 1 - v * 1
        /\ LastOverFast(t) = w * 1 * 1 - w * 1 /\ FastOverSlow(t) = w * 1 - w * 1
    <3> HIDE DEF v, w
    <3> QED  BY <2>1, <2>2 DEF LastOverFast, FastOverSlow, v, w
  <2> HIDE DEF v, w
  <2> QED  BY <1>1, <2>3
<1>3. CASE l >= 2
  <2> DEFINE a == Power(p + 1, l - 2)
             b == Power(q + 1, l - 2)
  <2>1. PICK m \in Int : EmaSum(s, p) = 2 * v * a + m /\ EmaSum(t, p) = 2 * w * a + m
    BY <1>1, <1>3, EmaOfLast
  <2>2. PICK n \in Int : EmaSum(s, q) = 2 * v * b + n /\ EmaSum(t, q) = 2 * w * b + n
    BY <1>1, <1>3, EmaOfLast
  <2>3. /\ a \in Nat /\ b \in Nat
        /\ EmaScale(s, p) = (p + 1) * a /\ EmaScale(s, q) = (q + 1) * b
    BY <1>1, <1>3, ScaleFacts
  <2>4. EmaScale(t, p) = (p + 1) * a /\ EmaScale(t, q) = (q + 1) * b
    <3>1. Len(t) >= 2
      BY <1>1, <1>3
    <3>2. EmaScale(t, p) = (p + 1) * Power(p + 1, Len(t) - 2)
          /\ EmaScale(t, q) = (q + 1) * Power(q + 1, Len(t) - 2)
      BY <1>1, <3>1, ScaleFacts
    <3> QED  BY <1>1, <3>2
  <2> HIDE DEF a, b, v, w
  <2>5. /\ LastOverFast(s) = v * ((p + 1) * a) * ((q + 1) * b) - (2 * v * a + m) * ((q + 1) * b)
        /\ FastOverSlow(s) = (2 * v * a + m) * ((q + 1) * b) - (2 * v * b + n) * ((p + 1) * a)
    BY <2>1, <2>2, <2>3 DEF LastOverFast, FastOverSlow, v
  <2>6. /\ LastOverFast(t) = w * ((p + 1) * a) * ((q + 1) * b) - (2 * w * a + m) * ((q + 1) * b)
        /\ FastOverSlow(t) = (2 * w * a + m) * ((q + 1) * b) - (2 * w * b + n) * ((p + 1) * a)
    BY <2>1, <2>2, <2>4 DEF LastOverFast, FastOverSlow, w
  <2> HIDE DEF p, q, l
  <2>7. p \in Int /\ q \in Int /\ a \in Int /\ b \in Int
    BY <1>1, <2>3
  <2> DEFINE k1 == (q + 1) * b
             k2 == (p - 1) * a
             k3 == 2 * (q - p) * (a * b)
             n3 == m * ((q + 1) * b) - n * ((p + 1) * a)
  <2>8. k1 \in Nat /\ k2 \in Nat /\ k3 \in Nat /\ n3 \in Int
    <3>1. q + 1 \in Nat /\ p - 1 \in Nat /\ 2 * (q - p) \in Nat /\ p + 1 \in Int
      BY <1>1
    <3>2. k1 \in Nat /\ k2 \in Nat /\ a * b \in Nat
      BY <2>3, <3>1, ProductIsNat
    <3>3. k3 \in Nat
      BY <3>1, <3>2, ProductIsNat
    <3>4. n3 \in Int
      BY <2>7, <3>1
    <3> QED  BY <3>2, <3>3, <3>4
  <2>9. /\ LastOverFast(s) = k1 * (k2 * v - m) /\ FastOverSlow(s) = k3 * v + n3
        /\ LastOverFast(t) = k1 * (k2 * w - m) /\ FastOverSlow(t) = k3 * w + n3
    BY <1>1, <2>5, <2>6, <2>7, DifferencesOfLast
  <2> HIDE DEF k1, k2, k3, n3
  <2>10. FastOverSlow(s) <= FastOverSlow(t)
    BY <1>1, <2>8, <2>9, LinearGrows
  <2>11. k2 * v - m <= k2 * w - m /\ k2 * v - m \in Int /\ k2 * w - m \in Int
    <3>1. k2 * v <= k2 * w
      BY <1>1, <2>8, TimesTens
    <3> QED  BY <1>1, <2>8, <3>1
  <2>12. LastOverFast(s) <= LastOverFast(t)
    BY <2>8, <2>9, <2>11, TimesTens
  <2> QED  BY <2>10, <2>12
<1> QED  BY <1>1, <1>2, <1>3

\* While a day's bar forms the regime moves with the price: a rise never turns it towards
\* BEAR, a fall never towards BULL (sleeve_b.py:29-39).
THEOREM RegimesFollowPrice == Spec => RegimeFollowsPrice
<1> DEFINE Step == DayOf(hours') = DayOf(hours) =>
                       /\ LastOf(daily') >= Price => RegimeRank(daily') >= RegimeRank(daily)
                       /\ LastOf(daily') <= Price => RegimeRank(daily') <= RegimeRank(daily)
<1>1. ASSUME ScanInv, Next
      PROVE  Step
  <2> SUFFICES ASSUME DayOf(hours') = DayOf(hours)
               PROVE  /\ LastOf(daily') >= Price => RegimeRank(daily') >= RegimeRank(daily)
                      /\ LastOf(daily') <= Price => RegimeRank(daily') <= RegimeRank(daily)
    OBVIOUS
  <2>1. daily \in Series(Prices)
    BY <1>1 DEF ScanInv, MarketTyped
  <2>2. /\ daily' \in Series(Prices) /\ Len(daily') = Len(daily)
        /\ \A n \in 1..(Len(daily) - 1) : daily'[n] = daily[n]
    <3>1. daily' = daily \/ \E price \in Prices : daily' = [daily EXCEPT ![Len(daily)] = price]
      BY <1>1 DEF Next, Trade, HourEnds, FetchDaily, FetchFour, FetchHourAndBuild, Deliver,
                  FetchFails, market
    <3> QED  BY <2>1, <3>1, NewLast
  <2> DEFINE s == daily
             t == daily'
  <2>3. s \in Series(Int) /\ t \in Series(Int) /\ LastOf(s) \in Int /\ LastOf(t) \in Int
    <3>1. Prices \subseteq Int
      BY Positive
    <3>2. \A x \in Series(Prices) : x \in Series(Int)
      BY <3>1, SeqMonotonic DEF Series
    <3>3. s \in Series(Int) /\ t \in Series(Int)
      BY <2>1, <2>2, <3>2
    <3> QED  BY <3>3, SeriesFacts
  <2>4. RegimeRank(s) \in Int /\ RegimeRank(t) \in Int
    <3>1. \A closes : Regime(closes) \in {"BULL", "BEAR", "CHOP"}
      BY DEF Regime
    <3> QED  BY <3>1 DEF RegimeRank
  <2>5. /\ Len(t) = Len(s) /\ Len(s) \in Nat
        /\ \A n \in 1..(Len(s) - 1) : t[n] = s[n] /\ s[n] = t[n]
    BY <2>1, <2>2, SeriesFacts
  <2> HIDE DEF s, t
  <2>6. ASSUME LastOf(t) >= LastOf(s)
        PROVE  RegimeRank(t) >= RegimeRank(s)
    <3>1. LastOf(s) <= LastOf(t)
      BY <2>3, <2>6
    <3>2. LastOverFast(s) <= LastOverFast(t) /\ FastOverSlow(s) <= FastOverSlow(t)
      BY <2>3, <2>5, <3>1, DifferencesGrow
    <3> QED  BY <2>3, <2>4, <3>2, RankBySigns
  <2>7. ASSUME LastOf(t) <= LastOf(s)
        PROVE  RegimeRank(t) <= RegimeRank(s)
    <3>1. LastOverFast(t) <= LastOverFast(s) /\ FastOverSlow(t) <= FastOverSlow(s)
      BY <2>3, <2>5, <2>7, DifferencesGrow
    <3> QED  BY <2>3, <3>1, RankBySigns
  <2> QED  BY <2>6, <2>7 DEF s, t, Price
<1>2. ScanInv /\ [Next]_vars => [Step]_vars
  BY <1>1
<1> HIDE DEF Step
<1>3. Spec => [][Step]_vars
  BY <1>2, ScanHolds, PTL DEF Spec
<1> QED  BY <1>3 DEF RegimeFollowsPrice, Step

-----------------------------------------------------------------------------
(***************************************************************************)
(* The mirror.                                                             *)
(***************************************************************************)
ReflectedCloses(s) == [i \in DOMAIN s |-> Reflected(s[i])]

LEMMA StartIsInt == StartPrice \in Int
BY Positive

LEMMA ReflectedSeries ==
    ASSUME NEW s \in Series(Int)
    PROVE  /\ ReflectedCloses(s) \in Series(Int) /\ Len(ReflectedCloses(s)) = Len(s)
           /\ \A n \in 1..Len(s) : ReflectedCloses(s)[n] = 2 * StartPrice - s[n]
           /\ LastOf(ReflectedCloses(s)) = 2 * StartPrice - LastOf(s)
<1> DEFINE t == ReflectedCloses(s)
<1>1. /\ Len(s) \in Nat /\ Len(s) >= 1 /\ DOMAIN s = 1..Len(s) /\ Len(s) \in 1..Len(s)
      /\ \A n \in 1..Len(s) : s[n] \in Int
  BY SeriesFacts
<1>2. t = [n \in 1..Len(s) |-> 2 * StartPrice - s[n]]
  BY <1>1 DEF ReflectedCloses, Reflected
<1>3. t \in [1..Len(s) -> Int]
  BY <1>1, <1>2, StartIsInt
<1>4. \A n \in 1..Len(s) : t[n] = 2 * StartPrice - s[n]
  BY <1>2
<1>5. t \in Seq(Int) /\ Len(t) = Len(s)
  BY <1>1, <1>3, SeqDef, LenProperties
<1> HIDE DEF t
<1> QED  BY <1>1, <1>4, <1>5 DEF Series, LastOf, t

LEMMA ReflectedStep ==
    \A r, v, a, p, x \in Int :
        2 * (r - v) * a + (p - 1) * (r * a - x)
            = r * ((p + 1) * a) - (2 * v * a + (p - 1) * x)
OBVIOUS

\* The average of the reflected values is the reflected average.
LEMMA EmaReflected ==
    ASSUME NEW s \in Series(Int), NEW period \in Nat, period >= 1
    PROVE  /\ EmaScale(ReflectedCloses(s), period) = EmaScale(s, period)
           /\ EmaSum(ReflectedCloses(s), period)
                  = 2 * StartPrice * EmaScale(s, period) - EmaSum(s, period)
<1> DEFINE t == ReflectedCloses(s)
           l == Len(s)
           r == 2 * StartPrice
           power(n) == Power(period + 1, n - 1)
<1>1. /\ l \in Nat /\ l >= 1 /\ \A n \in 1..l : s[n] \in Int
  BY SeriesFacts
<1>2. t \in Series(Int) /\ Len(t) = l /\ \A n \in 1..l : t[n] = r - s[n]
  BY ReflectedSeries
<1>3. r \in Int
  BY StartIsInt
<1>4. PICK f \in [1..l -> Int] :
          /\ f[1] = s[1]
          /\ \A n \in 2..l :
                f[n] = 2 * s[n] * Power(period + 1, n - 2) + (period - 1) * f[n - 1]
          /\ EmaSum(s, period) = f[l]
  BY EmaIsASum
<1>5. PICK g \in [1..l -> Int] :
          /\ g[1] = t[1]
          /\ \A n \in 2..l :
                g[n] = 2 * t[n] * Power(period + 1, n - 2) + (period - 1) * g[n - 1]
          /\ EmaSum(t, period) = g[l]
  <2> HIDE DEF t, l, r
  <2>1. \E g \in [1..Len(t) -> Int] :
          /\ g[1] = t[1]
          /\ \A n \in 2..Len(t) :
                g[n] = 2 * t[n] * Power(period + 1, n - 2) + (period - 1) * g[n - 1]
          /\ EmaSum(t, period) = g[Len(t)]
    BY <1>2, EmaIsASum
  <2> QED  BY <1>2, <2>1
<1>6. EmaScale(t, period) = power(l) /\ EmaScale(s, period) = power(l)
  BY <1>2 DEF EmaScale
<1>7. power(1) = 1 /\ \A n \in 2..l : /\ Power(period + 1, n - 2) \in Int
                                      /\ power(n) = (period + 1) * Power(period + 1, n - 2)
  <2>1. power(1) = 1
    <3> DEFINE base == period + 1
    <3>1. 1 - 1 = 0 /\ base \in Nat /\ base >= 1 /\ 0 \in Nat
      OBVIOUS
    <3> HIDE DEF base
    <3>2. Power(base, 0) = 1
      BY <3>1, PowerFacts
    <3> QED  BY <3>1, <3>2 DEF base
  <2>2. ASSUME NEW n \in 2..l
        PROVE  /\ Power(period + 1, n - 2) \in Int
               /\ power(n) = (period + 1) * Power(period + 1, n - 2)
    <3> DEFINE m    == n - 2
               base == period + 1
    <3>1. m \in Nat /\ n - 1 = m + 1 /\ base \in Nat /\ base >= 1
      BY <1>1
    <3> HIDE DEF m, base
    <3>2. Power(base, m) \in Nat /\ Power(base, m + 1) = base * Power(base, m)
      BY <3>1, PowerFacts
    <3>3. Power(base, m) \in Int
      BY <3>2
    <3> QED  BY <3>1, <3>2, <3>3 DEF m, base
  <2> QED  BY <2>1, <2>2
<1> HIDE DEF t, l, r, power
<1> DEFINE Good == {n \in 1..l : g[n] = r * power(n) - f[n]}
<1>8. \A n \in 1..l : n \in Good
  <2>1. 1 \in Good
    <3>1. 1 \in 1..l /\ t[1] = r - s[1] /\ s[1] \in Int
      BY <1>1, <1>2
    <3> QED  BY <1>3, <1>4, <1>5, <1>7, <3>1
  <2>2. ASSUME NEW n \in (1 + 1)..l, n - 1 \in Good
        PROVE  n \in Good
    <3> DEFINE a == Power(period + 1, n - 2)
               b == power(n - 1)
               c == power(n)
               v == s[n]
               x == f[n - 1]
    <3>1. n \in 2..l /\ n \in 1..l /\ n - 1 \in 1..l
      BY <1>1
    <3>2. a \in Int /\ c = (period + 1) * a /\ b = a
      <4>1. b = a
        <5>1. (n - 1) - 1 = n - 2
          BY <3>1
        <5> QED  BY <5>1 DEF power
      <4> QED  BY <1>7, <3>1, <4>1
    <3>3. v \in Int /\ t[n] = r - v /\ x \in Int
      BY <1>1, <1>2, <1>4, <3>1
    <3>4. f[n] = 2 * v * a + (period - 1) * x
      BY <1>4, <3>1
    <3>5. g[n - 1] = r * a - x
      BY <2>2, <3>2
    <3>6. g[n] = 2 * (r - v) * a + (period - 1) * (r * a - x)
      BY <1>5, <3>1, <3>3, <3>5
    <3> HIDE DEF a, b, c, v, x
    <3>7. g[n] = r * ((period + 1) * a) - (2 * v * a + (period - 1) * x)
      BY <1>3, <3>2, <3>3, <3>6, ReflectedStep
    <3>8. g[n] = r * c - f[n]
      BY <3>2, <3>4, <3>7
    <3> QED  BY <3>1, <3>8 DEF c
  <2> HIDE DEF Good
  <2> QED  BY <1>1, <2>1, <2>2, 1 \in Nat, Upwards
<1>9. g[l] = r * power(l) - f[l]
  BY <1>1, <1>8
<1> QED  BY <1>4, <1>5, <1>6, <1>9 DEF t, r

LEMMA ReflectedDifferences ==
    \A r, v, a, b, x, y \in Int :
        /\ (r - v) * a * b - (r * a - x) * b = -(v * a * b - x * b)
        /\ (r * a - x) * b - (r * b - y) * a = -(x * b - y * a)
OBVIOUS

LEMMA Signs ==
    \A m \in Int : (-m > 0 <=> m < 0) /\ (-m < 0 <=> m > 0)
OBVIOUS

OppositeRegime(regime) ==
    IF regime = "BULL" THEN "BEAR" ELSE IF regime = "BEAR" THEN "BULL" ELSE "CHOP"

LEMMA RegimeReflected ==
    ASSUME NEW s \in Series(Int)
    PROVE  Regime(ReflectedCloses(s)) = OppositeRegime(Regime(s))
<1> DEFINE t == ReflectedCloses(s)
           r == 2 * StartPrice
           v == LastOf(s)
           a == EmaScale(s, FastPeriod)
           b == EmaScale(s, SlowPeriod)
           x == EmaSum(s, FastPeriod)
           y == EmaSum(s, SlowPeriod)
<1>1. t \in Series(Int) /\ LastOf(t) = r - v
  BY ReflectedSeries
<1>2. /\ EmaScale(t, FastPeriod) = a /\ EmaScale(t, SlowPeriod) = b
      /\ EmaSum(t, FastPeriod) = r * a - x /\ EmaSum(t, SlowPeriod) = r * b - y
  BY PeriodFacts, EmaReflected
<1>3. r \in Int /\ v \in Int /\ a \in Int /\ b \in Int /\ x \in Int /\ y \in Int
  BY StartIsInt, PeriodFacts, ScaleFacts, EmaIsInt, SeriesFacts
<1>4. LastOverFast(s) = v * a * b - x * b /\ FastOverSlow(s) = x * b - y * a
  BY DEF LastOverFast, FastOverSlow
<1> HIDE DEF t, r, v, a, b, x, y
<1>5. /\ LastOverFast(t) = (r - v) * a * b - (r * a - x) * b
      /\ FastOverSlow(t) = (r * a - x) * b - (r * b - y) * a
  BY <1>1, <1>2 DEF LastOverFast, FastOverSlow
<1>6. LastOverFast(t) = -LastOverFast(s) /\ FastOverSlow(t) = -FastOverSlow(s)
  BY <1>3, <1>4, <1>5, ReflectedDifferences
<1> DEFINE m == LastOverFast(s)
           n == FastOverSlow(s)
<1>7. /\ m \in Int /\ n \in Int
      /\ Regime(s) = IF m > 0 /\ n > 0 THEN "BULL" ELSE IF m < 0 /\ n < 0 THEN "BEAR" ELSE "CHOP"
      /\ Regime(t) = IF -m > 0 /\ -n > 0 THEN "BULL"
                     ELSE IF -m < 0 /\ -n < 0 THEN "BEAR" ELSE "CHOP"
  BY <1>1, <1>6, RegimeBySigns
<1> HIDE DEF m, n
<1>8. Regime(t) = IF m < 0 /\ n < 0 THEN "BULL" ELSE IF m > 0 /\ n > 0 THEN "BEAR" ELSE "CHOP"
  BY <1>7, Signs
<1>9. ~ (m < 0 /\ m > 0)
  BY <1>7
<1> QED  BY <1>7, <1>8, <1>9 DEF OppositeRegime, t

LEMMA BarReflected ==
    ASSUME NEW b \in AnyBar
    PROVE  /\ ReflectedBar(b) \in AnyBar
           /\ ReflectedBar(b).open = 2 * StartPrice - b.open
           /\ ReflectedBar(b).high = 2 * StartPrice - b.low
           /\ ReflectedBar(b).low = 2 * StartPrice - b.high
           /\ ReflectedBar(b).close = 2 * StartPrice - b.close
<1>1. /\ ReflectedBar(b).open = 2 * StartPrice - b.open
      /\ ReflectedBar(b).high = 2 * StartPrice - b.low
      /\ ReflectedBar(b).low = 2 * StartPrice - b.high
      /\ ReflectedBar(b).close = 2 * StartPrice - b.close
  BY DEF ReflectedBar, Reflected
<1>2. b.open \in Int /\ b.high \in Int /\ b.low \in Int /\ b.close \in Int
  BY DEF AnyBar
<1>3. ReflectedBar(b) \in AnyBar
  <2>1. /\ Reflected(b.open) \in Int /\ Reflected(b.high) \in Int
        /\ Reflected(b.low) \in Int /\ Reflected(b.close) \in Int
    BY <1>2, StartIsInt DEF Reflected
  <2> QED  BY <2>1 DEF ReflectedBar, AnyBar
<1> QED  BY <1>1, <1>3

LEMMA BarsReflected ==
    ASSUME NEW s \in Seq(AnyBar)
    PROVE  /\ ReflectedBars(s) \in Seq(AnyBar) /\ Len(ReflectedBars(s)) = Len(s)
           /\ \A i \in 1..Len(s) : ReflectedBars(s)[i] = ReflectedBar(s[i])
<1> DEFINE t == ReflectedBars(s)
<1>1. DOMAIN s = 1..Len(s) /\ Len(s) \in Nat /\ \A i \in 1..Len(s) : s[i] \in AnyBar
  BY LenProperties
<1>2. t = [i \in 1..Len(s) |-> ReflectedBar(s[i])]
  BY <1>1 DEF ReflectedBars
<1>3. \A i \in 1..Len(s) : ReflectedBar(s[i]) \in AnyBar
  BY <1>1, BarReflected
<1>4. t \in [1..Len(s) -> AnyBar]
  BY <1>2, <1>3
<1>5. t \in Seq(AnyBar) /\ Len(t) = Len(s)
  BY <1>1, <1>4, SeqDef, LenProperties
<1> QED  BY <1>2, <1>5

LEMMA RangeReflected ==
    ASSUME NEW s \in Seq(AnyBar), NEW i \in 2..Len(s)
    PROVE  TrueRange(ReflectedBars(s), i) = TrueRange(s, i)
<1> DEFINE t == ReflectedBars(s)
           b == s[i]
           c == s[i - 1].close
           r == 2 * StartPrice
<1>1. i \in 1..Len(s) /\ i - 1 \in 1..Len(s)
  BY LenProperties
<1>2. b \in AnyBar /\ s[i - 1] \in AnyBar
  BY <1>1, LenProperties
<1>3. /\ t[i] = ReflectedBar(b) /\ t[i - 1] = ReflectedBar(s[i - 1])
  BY <1>1, BarsReflected
<1>4. t[i].high = r - b.low /\ t[i].low = r - b.high /\ t[i - 1].close = r - c
  BY <1>2, <1>3, BarReflected
<1>5. b.high \in Int /\ b.low \in Int /\ c \in Int
  BY <1>2 DEF AnyBar
<1> HIDE DEF t, b, c
<1>6. /\ t[i].high - t[i].low = b.high - b.low
      /\ Distance(t[i].high, t[i - 1].close) = Distance(b.low, c)
      /\ Distance(t[i].low, t[i - 1].close) = Distance(b.high, c)
  <2> DEFINE h == b.high
             k == b.low
  <2>1. r \in Int /\ h \in Int /\ k \in Int
    BY <1>5, StartIsInt
  <2>2. t[i].high = r - k /\ t[i].low = r - h /\ t[i - 1].close = r - c
    BY <1>4
  <2> HIDE DEF r, h, k
  <2>3. /\ (r - k) - (r - h) = h - k
        /\ Distance(r - k, r - c) = Distance(k, c)
        /\ Distance(r - h, r - c) = Distance(h, c)
    BY <1>5, <2>1 DEF Distance
  <2> QED  BY <2>2, <2>3 DEF h, k
<1>7. {t[i].high - t[i].low, Distance(t[i].high, t[i - 1].close), Distance(t[i].low, t[i - 1].close)}
          = {b.high - b.low, Distance(b.high, c), Distance(b.low, c)}
  BY <1>6
<1> QED  BY <1>7 DEF TrueRange, t, b, c

LEMMA AtrReflected ==
    ASSUME NEW s \in Seq(AnyBar), Len(s) > AtrPeriod
    PROVE  AtrSum(ReflectedBars(s)) = AtrSum(s)
<1> DEFINE t == ReflectedBars(s)
<1>1. t \in Seq(AnyBar) /\ Len(t) = Len(s)
  BY BarsReflected
<1>2. Len(s) \in Nat /\ AtrPeriod \in Nat /\ Len(s) > AtrPeriod
  BY LenProperties, Positive
<1>3. \A i \in (Len(s) - AtrPeriod + 1)..Len(s) : i \in 2..Len(s)
  BY <1>2
<1>4. \A i \in (Len(s) - AtrPeriod + 1)..Len(s) :
          TrueRange(t, i) = TrueRange(s, i) /\ TrueRange(s, i) \in Nat
  BY <1>3, RangeReflected, RangeFacts
<1>5. \A i \in (Len(s) - AtrPeriod + 1)..Len(s) :
          TrueRange(t, i) <= TrueRange(s, i) /\ TrueRange(s, i) <= TrueRange(t, i)
  BY <1>4
<1> HIDE DEF t
<1>6. AtrSum(s) <= AtrSum(t)
  BY <1>1, <1>5, AtrGrows
<1>7. AtrSum(t) <= AtrSum(s)
  BY <1>1, <1>2, <1>5, AtrGrows
<1>8. AtrSum(s) \in Int /\ AtrSum(t) \in Int
  BY <1>1, AtrIsAtLeastTheLast
<1> QED  BY <1>6, <1>7, <1>8 DEF t

LEMMA BreakoutReflected ==
    ASSUME NEW regime, NEW s \in Seq(AnyBar), Len(s) > Lookback
    PROVE  Breakout(OppositeRegime(regime), ReflectedBars(s)) = Opposite(Breakout(regime, s))
<1> DEFINE t == ReflectedBars(s)
           r == 2 * StartPrice
           l == Len(s)
           x == LastOf(s).close
           y == LastOf(t).close
<1>1. /\ t \in Seq(AnyBar) /\ Len(t) = l /\ \A i \in 1..l : t[i] = ReflectedBar(s[i])
  BY BarsReflected
<1>2. l \in Nat /\ Lookback \in Nat /\ Lookback >= 1 /\ l > Lookback
  BY LenProperties, Positive
<1>3. Channel(t) = Channel(s) /\ l \in 1..l /\ \A i \in Channel(s) : i \in 1..l
  BY <1>1, <1>2 DEF Channel
<1>4. \A i \in 1..l : s[i] \in AnyBar
  BY LenProperties
<1>5. /\ r \in Int
      /\ \A i \in 1..l : /\ s[i].high \in Int /\ s[i].low \in Int /\ s[i].close \in Int
                         /\ t[i].high = r - s[i].low /\ t[i].low = r - s[i].high
                         /\ t[i].close = r - s[i].close
  <2>1. \A i \in 1..l : /\ t[i].high = r - s[i].low /\ t[i].low = r - s[i].high
                        /\ t[i].close = r - s[i].close
    BY <1>1, <1>4, BarReflected
  <2>2. \A i \in 1..l : s[i].high \in Int /\ s[i].low \in Int /\ s[i].close \in Int
    BY <1>4 DEF AnyBar
  <2> QED  BY <2>1, <2>2, StartIsInt
<1>6. x \in Int /\ y = r - x
  BY <1>1, <1>3, <1>5 DEF LastOf
<1> HIDE DEF t, r, l, x, y
<1> DEFINE above(bars, close) == \A i \in Channel(bars) : close > bars[i].high
           below(bars, close) == \A i \in Channel(bars) : close < bars[i].low
<1>7. above(t, y) <=> below(s, x)
  <2>1. \A i \in Channel(s) : y > t[i].high <=> x < s[i].low
    BY <1>3, <1>5, <1>6
  <2> QED  BY <1>3, <2>1
<1>8. below(t, y) <=> above(s, x)
  <2>1. \A i \in Channel(s) : y < t[i].low <=> x > s[i].high
    BY <1>3, <1>5, <1>6
  <2> QED  BY <1>3, <2>1
<1>9. /\ Breakout(regime, s) = IF regime = "BULL" /\ above(s, x) THEN "LONG"
                               ELSE IF regime = "BEAR" /\ below(s, x) THEN "SHORT" ELSE "NONE"
      /\ Breakout(OppositeRegime(regime), t)
             = IF OppositeRegime(regime) = "BULL" /\ above(t, y) THEN "LONG"
               ELSE IF OppositeRegime(regime) = "BEAR" /\ below(t, y) THEN "SHORT" ELSE "NONE"
  BY DEF Breakout, x, y
<1> HIDE DEF above, below
<1>10. /\ OppositeRegime(regime) = "BULL" <=> regime = "BEAR"
       /\ OppositeRegime(regime) = "BEAR" <=> regime = "BULL"
  BY DEF OppositeRegime
<1>11. CASE regime = "BULL"
  BY <1>8, <1>9, <1>10, <1>11 DEF Opposite, t
<1>12. CASE regime = "BEAR"
  BY <1>7, <1>9, <1>10, <1>12 DEF Opposite, t
<1>13. CASE regime # "BULL" /\ regime # "BEAR"
  BY <1>9, <1>10, <1>13 DEF Opposite, t
<1> QED  BY <1>11, <1>12, <1>13

LEMMA ClosesFacts ==
    ASSUME NEW s \in Seq(AnyBar), Len(s) >= 1
    PROVE  /\ Closes(s) \in Series(Int) /\ LastOf(Closes(s)) = LastOf(s).close
           /\ Closes(ReflectedBars(s)) = ReflectedCloses(Closes(s))
           /\ LastOf(s) \in AnyBar /\ LastOf(ReflectedBars(s)) = ReflectedBar(LastOf(s))
<1> DEFINE l == Len(s)
           t == ReflectedBars(s)
<1>1. l \in Nat /\ l \in 1..l /\ DOMAIN s = 1..l /\ \A i \in 1..l : s[i] \in AnyBar
  BY LenProperties
<1>2. t \in Seq(AnyBar) /\ Len(t) = l /\ \A i \in 1..l : t[i] = ReflectedBar(s[i])
  BY BarsReflected
<1>3. DOMAIN t = 1..l
  BY <1>2, LenProperties
<1>4. \A i \in 1..l : s[i].close \in Int /\ t[i].close = Reflected(s[i].close)
  <2>1. \A i \in 1..l : t[i].close = Reflected(s[i].close)
    <3>1. \A b : ReflectedBar(b).close = Reflected(b.close)
      BY DEF ReflectedBar
    <3> HIDE DEF t
    <3> QED  BY <1>2, <3>1
  <2>2. \A i \in 1..l : s[i].close \in Int
    BY <1>1 DEF AnyBar
  <2> QED  BY <2>1, <2>2
<1> HIDE DEF t
<1>5. Closes(s) = [i \in 1..l |-> s[i].close] /\ Closes(t) = [i \in 1..l |-> t[i].close]
  BY <1>1, <1>3 DEF Closes
<1>6. ReflectedCloses(Closes(s)) = [i \in 1..l |-> Reflected(s[i].close)]
  BY <1>5 DEF ReflectedCloses
<1>7. Closes(t) = ReflectedCloses(Closes(s))
  BY <1>4, <1>5, <1>6
<1>8. Closes(s) \in [1..l -> Int]
  BY <1>4, <1>5
<1>9. Closes(s) \in Seq(Int) /\ Len(Closes(s)) = l
  BY <1>1, <1>8, SeqDef, LenProperties
<1>10. Closes(s)[l] = s[l].close
  BY <1>1, <1>5
<1>11. LastOf(s) \in AnyBar /\ LastOf(t) = ReflectedBar(LastOf(s))
  BY <1>1, <1>2 DEF LastOf
<1> HIDE DEF l
<1>12. LastOf(Closes(s)) = LastOf(s).close
  BY <1>9, <1>10 DEF LastOf, l
<1>13. Closes(s) \in Series(Int)
  BY <1>9 DEF Series, l
<1> QED  BY <1>7, <1>11, <1>12, <1>13 DEF t

LEMMA ReversalReflected ==
    ASSUME NEW b \in AnyBar
    PROVE  /\ BearishReversal(ReflectedBar(b)) <=> BullishReversal(b)
           /\ BullishReversal(ReflectedBar(b)) <=> BearishReversal(b)
<1> DEFINE r == 2 * StartPrice
           c == ReflectedBar(b)
           o == b.open
           h == b.high
           k == b.low
           x == b.close
<1>1. r \in Int /\ o \in Int /\ h \in Int /\ k \in Int /\ x \in Int
  BY StartIsInt DEF AnyBar
<1>2. c.open = r - o /\ c.high = r - k /\ c.low = r - h /\ c.close = r - x
  BY BarReflected
<1> HIDE DEF c, r, o, h, k, x
<1>3. Distance(r - x, r - o) = Distance(x, o) /\ (r - k) - (r - h) = h - k
  BY <1>1 DEF Distance
<1>4. StrongBody(c) <=> StrongBody(b)
  <2>1. c.high > c.low <=> h > k
    BY <1>1, <1>2
  <2>2. c.high - c.low = h - k /\ Distance(c.close, c.open) = Distance(x, o)
    BY <1>2, <1>3
  <2> QED  BY <2>1, <2>2 DEF StrongBody, x, o, h, k
<1>5. (c.close < c.open <=> x > o) /\ (c.close > c.open <=> x < o)
  BY <1>1, <1>2
<1> QED  BY <1>4, <1>5 DEF BearishReversal, BullishReversal, c, x, o

LEMMA AboveReflected ==
    \A r, x, a, e \in Int : (r - x) * a - (r * a - e) = -(x * a - e)
OBVIOUS

LEMMA NegativeProduct ==
    \A n, m \in Int : /\ 10 * n * (-m) = -(10 * n * m)
                      /\ -(10 * n * (-m)) = 10 * n * m
                      /\ (-m <= 0 <=> m >= 0) /\ (-m >= 0 <=> m <= 0)
OBVIOUS

LEMMA TimingReflected ==
    ASSUME NEW s \in Seq(AnyBar), Len(s) > AtrPeriod
    PROVE  /\ TimingOk("SHORT", ReflectedBars(s)) <=> TimingOk("LONG", s)
           /\ TimingOk("LONG", ReflectedBars(s)) <=> TimingOk("SHORT", s)
<1> DEFINE t == ReflectedBars(s)
           last == LastOf(s)
           r == 2 * StartPrice
           scale == EmaScale(Closes(s), HourPeriod)
           sum == EmaSum(Closes(s), HourPeriod)
           above(bars) == LastOf(bars).close * EmaScale(Closes(bars), HourPeriod)
                              - EmaSum(Closes(bars), HourPeriod)
           length(bars) == ExtensionTenths * AtrSum(bars) * EmaScale(Closes(bars), HourPeriod)
<1>1. Len(s) >= 1
  BY LenProperties, Positive
<1>2. /\ Closes(s) \in Series(Int) /\ Closes(t) = ReflectedCloses(Closes(s))
      /\ last \in AnyBar /\ LastOf(t) = ReflectedBar(last)
  BY <1>1, ClosesFacts
<1>3. HourPeriod \in Nat /\ HourPeriod >= 1 /\ AtrPeriod \in Int
  BY Positive
<1>4. /\ EmaScale(Closes(t), HourPeriod) = scale
      /\ EmaSum(Closes(t), HourPeriod) = r * scale - sum
      /\ scale \in Int /\ sum \in Int /\ r \in Int
  BY <1>2, <1>3, EmaReflected, ScaleFacts, EmaIsInt, StartIsInt
<1>5. AtrSum(t) = AtrSum(s)
  BY AtrReflected
<1>6. length(t) = length(s)
  <2> HIDE DEF t
  <2> QED  BY <1>4, <1>5
<1>7. LastOf(t).close = r - last.close /\ last.close \in Int
  <2>1. ReflectedBar(last).close = r - last.close
    BY <1>2, BarReflected
  <2> QED  BY <1>2, <2>1 DEF AnyBar
<1>8. above(t) = -above(s) /\ above(s) \in Int
  <2> HIDE DEF t, r, scale, sum
  <2> DEFINE x == last.close
  <2>1. above(t) = (r - x) * scale - (r * scale - sum) /\ above(s) = x * scale - sum /\ x \in Int
    BY <1>4, <1>7 DEF scale, sum
  <2> HIDE DEF x, above
  <2> QED  BY <1>4, <2>1, AboveReflected
<1>9. /\ BearishReversal(LastOf(t)) <=> BullishReversal(last)
      /\ BullishReversal(LastOf(t)) <=> BearishReversal(last)
  BY <1>2, ReversalReflected
<1>10. \A bars :
          /\ TimingOk("LONG", bars) <=> /\ above(bars) >= 0 /\ ~ BearishReversal(LastOf(bars))
                                        /\ 10 * AtrPeriod * above(bars) <= length(bars)
          /\ TimingOk("SHORT", bars) <=> /\ above(bars) <= 0 /\ ~ BullishReversal(LastOf(bars))
                                         /\ -10 * AtrPeriod * above(bars) <= length(bars)
  BY DEF TimingOk
<1> DEFINE m == above(s)
           n == length(s)
<1>11. above(t) = -m /\ length(t) = n /\ m \in Int
  BY <1>6, <1>8
<1> HIDE DEF above, length, t, last, m, n
<1>12. /\ 10 * AtrPeriod * above(t) = -(10 * AtrPeriod * m)
       /\ -10 * AtrPeriod * above(t) = 10 * AtrPeriod * m
       /\ (above(t) <= 0 <=> m >= 0) /\ (above(t) >= 0 <=> m <= 0)
  <2>1. AtrPeriod \in Int
    BY <1>3
  <2>2. /\ 10 * AtrPeriod * (-m) = -(10 * AtrPeriod * m)
        /\ -(10 * AtrPeriod * (-m)) = 10 * AtrPeriod * m
        /\ (-m <= 0 <=> m >= 0) /\ (-m >= 0 <=> m <= 0)
    BY <1>11, <2>1, NegativeProduct
  <2> QED  BY <1>11, <2>2
<1> QED  BY <1>9, <1>10, <1>11, <1>12 DEF m, n, t, last

LEMMA FunctionIsSeq ==
    ASSUME NEW S, NEW n \in Nat, NEW f \in [1..n -> S]
    PROVE  f \in Seq(S) /\ Len(f) = n
BY SeqDef, LenProperties

\* The decision for the mirrored series is the opposite one.
LEMMA SideReflected ==
    ASSUME NEW d \in Seq(Int), NEW f \in Seq(AnyBar), NEW h \in Seq(AnyBar)
    PROVE  SideOf(ReflectedCloses(d), ReflectedBars(f), ReflectedBars(h)) = Opposite(SideOf(d, f, h))
<1> DEFINE d2 == ReflectedCloses(d)
           f2 == ReflectedBars(f)
           h2 == ReflectedBars(h)
<1>1. Len(d2) = Len(d) /\ Len(f2) = Len(f) /\ Len(h2) = Len(h)
  <2>1. Len(f2) = Len(f) /\ Len(h2) = Len(h)
    BY BarsReflected
  <2>2. DOMAIN d = 1..Len(d) /\ Len(d) \in Nat
    BY LenProperties
  <2>3. d2 = [i \in 1..Len(d) |-> Reflected(d[i])]
    BY <2>2 DEF ReflectedCloses
  <2>4. d2 \in Seq(Int) /\ Len(d2) = Len(d)
    <3>1. \A i \in 1..Len(d) : Reflected(d[i]) \in Int
      BY LenProperties, StartIsInt DEF Reflected
    <3>2. d2 \in [1..Len(d) -> Int]
      BY <2>3, <3>1
    <3> HIDE DEF d2
    <3> QED  BY <2>2, <3>2, FunctionIsSeq
  <2> QED  BY <2>1, <2>4
<1>2. EnoughBars(d2, f2, h2) <=> EnoughBars(d, f, h)
  <2> HIDE DEF d2, f2, h2
  <2> QED  BY <1>1 DEF EnoughBars
<1>3. CASE ~ EnoughBars(d, f, h)
  <2> HIDE DEF d2, f2, h2
  <2> QED  BY <1>2, <1>3 DEF SideOf, Opposite, d2, f2, h2
<1>4. CASE EnoughBars(d, f, h)
  <2> DEFINE side  == Breakout(Regime(d), f)
             side2 == Breakout(Regime(d2), f2)
  <2>1. d \in Series(Int)
    <3>1. Len(d) >= MinDaily
      BY <1>4 DEF EnoughBars
    <3>2. Len(d) \in Nat /\ MinDaily \in Nat /\ MinDaily >= 1
      BY LenProperties, Positive
    <3> QED  BY <3>1, <3>2 DEF Series
  <2>2. Len(f) > Lookback
    <3> DEFINE greater == Max({Lookback, AtrPeriod})
    <3>1. Lookback \in Int /\ AtrPeriod \in Int /\ Len(f) \in Nat
      BY LenProperties, Positive
    <3>2. greater \in Int /\ Lookback <= greater
      BY <3>1, MaxOfTwo
    <3>3. Len(f) >= greater + 1
      BY <1>4 DEF EnoughBars
    <3> HIDE DEF greater
    <3> QED  BY <3>1, <3>2, <3>3
  <2>3. RequireTiming => Len(h) > AtrPeriod
    <3> DEFINE next    == AtrPeriod + 1
               greater == Max({HourPeriod, next})
    <3>1. HourPeriod \in Int /\ AtrPeriod \in Int /\ next \in Int /\ Len(h) \in Nat
      BY LenProperties, Positive
    <3>2. RequireTiming => Len(h) >= greater
      BY <1>4 DEF EnoughBars
    <3> HIDE DEF next
    <3>3. greater \in Int /\ next <= greater
      BY <3>1, MaxOfTwo
    <3> HIDE DEF greater
    <3> QED  BY <3>1, <3>2, <3>3 DEF next
  <2>4. side2 = Opposite(side)
    <3>1. Regime(d2) = OppositeRegime(Regime(d))
      BY <2>1, RegimeReflected
    <3>2. Breakout(OppositeRegime(Regime(d)), f2) = Opposite(Breakout(Regime(d), f))
      BY <2>2, BreakoutReflected
    <3> HIDE DEF d2
    <3> QED  BY <3>1, <3>2
  <2>5. side \in {"LONG", "SHORT", "NONE"}
    BY DEF Breakout
  <2>6. RequireTiming => /\ TimingOk("SHORT", h2) <=> TimingOk("LONG", h)
                         /\ TimingOk("LONG", h2) <=> TimingOk("SHORT", h)
    BY <2>3, TimingReflected
  <2>7. /\ SideOf(d, f, h) = IF side # "NONE" /\ RequireTiming /\ ~ TimingOk(side, h)
                             THEN "NONE" ELSE side
        /\ SideOf(d2, f2, h2) = IF side2 # "NONE" /\ RequireTiming /\ ~ TimingOk(side2, h2)
                                THEN "NONE" ELSE side2
    <3> HIDE DEF d2, f2, h2
    <3> QED  BY <1>2, <1>4 DEF SideOf
  <2> HIDE DEF side, side2, d2, f2, h2
  <2>8. CASE side = "LONG"
    BY <2>4, <2>6, <2>7, <2>8 DEF Opposite, d2, f2, h2
  <2>9. CASE side = "SHORT"
    BY <2>4, <2>6, <2>7, <2>9 DEF Opposite, d2, f2, h2
  <2>10. CASE side = "NONE"
    BY <2>4, <2>7, <2>10 DEF Opposite, d2, f2, h2
  <2> QED  BY <2>5, <2>8, <2>9, <2>10
<1> QED  BY <1>3, <1>4

\* The rules for LONG and for SHORT are mirror images at every boundary, whatever series a
\* scan has seen (sleeve_b.py:42-59, sleeve_b_candidate_builder.py:96-143).
THEOREM SidesAreMirrored == Spec => []SidesMirror
<1>1. ASSUME ScanInv
      PROVE  SidesMirror
  <2>1. /\ seen.daily \in Seq(Prices) /\ seen.four \in Seq(BarRecords)
        /\ seen.hour \in Seq(BarRecords)
    BY <1>1 DEF ScanInv, ScanTyped, SeenRecords
  <2>2. seen.daily \in Seq(Int)
    <3>1. Prices \subseteq Int
      BY Positive
    <3> QED  BY <2>1, <3>1, SeqMonotonic
  <2>3. seen.four \in Seq(AnyBar) /\ seen.hour \in Seq(AnyBar)
    BY <2>1, BarsAreAny
  <2>4. SideOf(ReflectedCloses(seen.daily), ReflectedBars(seen.four), ReflectedBars(seen.hour))
            = Opposite(SideOf(seen.daily, seen.four, seen.hour))
    BY <2>2, <2>3, SideReflected
  <2> QED  BY <2>4 DEF SidesMirror, ReflectedCloses
<1> QED  BY <1>1, ScanHolds, PTL

=============================================================================
