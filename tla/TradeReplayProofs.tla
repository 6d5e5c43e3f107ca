-------------------------- MODULE TradeReplayProofs --------------------------
(***************************************************************************)
(* Theorems about TradeReplay, for every number of bars, every stop, every *)
(* ladder of targets and fractions, every time stop and every set of       *)
(* prices.                                                                 *)
(***************************************************************************)
EXTENDS TradeReplay, SequenceTheorems, WellFoundedInduction, TLAPS

-----------------------------------------------------------------------------
(***************************************************************************)
(* The ladder.                                                             *)
(***************************************************************************)
\* What has been hit after n targets.
Prefix(n) == CASE n = 0 -> <<>> [] n = 1 -> <<1>> [] n = 2 -> <<1, 2>> [] n = 3 -> <<1, 2, 3>>

Steps == 0..3

LEMMA OneSeq ==
    ASSUME NEW s \in Seq(Ladder), NEW t \in Seq(Ladder), NEW n \in Nat,
           Len(s) = n, Len(t) = n, \A i \in 1..n : s[i] = t[i]
    PROVE  s = t
BY SeqEqual

LEMMA PrefixFacts ==
    /\ \A n \in Steps : /\ Prefix(n) \in Seq(Ladder) /\ Len(Prefix(n)) = n
                        /\ Prefix(n) = SubSeq(<<1, 2, 3>>, 1, n)
    /\ Append(Prefix(0), 1) = Prefix(1)
    /\ Append(Prefix(1), 2) = Prefix(2)
    /\ Append(Prefix(2), 3) = Prefix(3)
<1>1. /\ Prefix(0) = <<>> /\ Prefix(1) = <<1>> /\ Prefix(2) = <<1, 2>>
      /\ Prefix(3) = <<1, 2, 3>>
  BY DEF Prefix
<1>2. /\ Len(<<>>) = 0 /\ Len(<<1>>) = 1 /\ Len(<<1, 2>>) = 2 /\ Len(<<1, 2, 3>>) = 3
      /\ <<>> \in Seq(Ladder) /\ <<1>> \in Seq(Ladder) /\ <<1, 2>> \in Seq(Ladder)
      /\ <<1, 2, 3>> \in Seq(Ladder)
  BY DEF Ladder
<1>3. /\ SubSeq(<<1, 2, 3>>, 1, 0) = <<>> /\ SubSeq(<<1, 2, 3>>, 1, 1) = <<1>>
      /\ SubSeq(<<1, 2, 3>>, 1, 2) = <<1, 2>>
      /\ SubSeq(<<1, 2, 3>>, 1, 3) = <<1, 2, 3>>
  <2> DEFINE all == <<1, 2, 3>>
  <2>1. \A i \in 1..3 : all[i] = i /\ i \in Ladder
    BY DEF Ladder
  <2>2. \A n \in 1..3 : /\ SubSeq(all, 1, n) \in Seq(Ladder) /\ Len(SubSeq(all, 1, n)) = n
                        /\ \A i \in 1..n : SubSeq(all, 1, n)[i] = i
    <3> SUFFICES ASSUME NEW n \in 1..3
                 PROVE  /\ SubSeq(all, 1, n) \in Seq(Ladder) /\ Len(SubSeq(all, 1, n)) = n
                        /\ \A i \in 1..n : SubSeq(all, 1, n)[i] = i
      OBVIOUS
    <3> HIDE DEF all
    <3>1. \A i \in 1..n : all[i] \in Ladder
      BY <2>1
    <3>2. /\ SubSeq(all, 1, n) \in Seq(Ladder)
          /\ Len(SubSeq(all, 1, n)) = IF 1 <= n THEN n - 1 + 1 ELSE 0
          /\ \A i \in 1..(n - 1 + 1) : SubSeq(all, 1, n)[i] = all[1 + i - 1]
      BY <3>1, SubSeqProperties, n \in Int, 1 \in Int
    <3>3. n - 1 + 1 = n /\ \A i \in 1..n : 1 + i - 1 = i /\ all[i] = i
      BY <2>1
    <3> QED  BY <3>2, <3>3
  <2>3. SubSeq(all, 1, 0) = <<>>
    BY SubSeqEmpty
  <2> HIDE DEF all
  <2>4. SubSeq(all, 1, 1) = <<1>>
    <3>1. \A i \in 1..1 : <<1>>[i] = i
      OBVIOUS
    <3> DEFINE other == <<1>>
    <3>2. other \in Seq(Ladder) /\ Len(other) = 1 /\ \A i \in 1..1 : other[i] = i
      BY <1>2, <3>1
    <3> HIDE DEF other
    <3>3. SubSeq(all, 1, 1) = other
      BY <2>2, <3>2, OneSeq
    <3> QED  BY <3>3 DEF other
  <2>5. SubSeq(all, 1, 2) = <<1, 2>>
    <3>1. \A i \in 1..2 : <<1, 2>>[i] = i
      OBVIOUS
    <3> DEFINE other == <<1, 2>>
    <3>2. other \in Seq(Ladder) /\ Len(other) = 2 /\ \A i \in 1..2 : other[i] = i
      BY <1>2, <3>1
    <3> HIDE DEF other
    <3>3. SubSeq(all, 1, 2) = other
      BY <2>2, <3>2, OneSeq
    <3> QED  BY <3>3 DEF other
  <2>6. SubSeq(all, 1, 3) = <<1, 2, 3>>
    <3>1. all \in Seq(Ladder) /\ Len(all) = 3 /\ \A i \in 1..3 : all[i] = i
      BY <1>2, <2>1 DEF all
    <3>2. SubSeq(all, 1, 3) = all
      BY <2>2, <3>1, OneSeq
    <3> QED  BY <3>2 DEF all
  <2> QED  BY <2>3, <2>4, <2>5, <2>6 DEF all
<1>4. \A n \in Steps : n = 0 \/ n = 1 \/ n = 2 \/ n = 3
  BY DEF Steps
<1>5. /\ Append(<<>>, 1) = <<1>> /\ Append(<<1>>, 2) = <<1, 2>>
      /\ Append(<<1, 2>>, 3) = <<1, 2, 3>>
  <2>1. 1 \in Ladder /\ 2 \in Ladder /\ 3 \in Ladder
    BY DEF Ladder
  <2>2. Append(<<>>, 1) = <<1>>
    <3>1. /\ Append(<<>>, 1) \in Seq(Ladder) /\ Len(Append(<<>>, 1)) = Len(<<>>) + 1
          /\ Append(<<>>, 1)[Len(<<>>) + 1] = 1
      BY <1>2, <2>1, AppendProperties
    <3> QED  BY <1>2, <3>1, SeqEqual
  <2>3. Append(<<1>>, 2) = <<1, 2>>
    <3>1. /\ Append(<<1>>, 2) \in Seq(Ladder) /\ Len(Append(<<1>>, 2)) = Len(<<1>>) + 1
          /\ \A i \in 1..Len(<<1>>) : Append(<<1>>, 2)[i] = <<1>>[i]
          /\ Append(<<1>>, 2)[Len(<<1>>) + 1] = 2
      BY <1>2, <2>1, AppendProperties
    <3> DEFINE longer == Append(<<1>>, 2)
               other == <<1, 2>>
    <3>2. \A i \in 1..2 : longer[i] = other[i]
      BY <1>2, <3>1
    <3>3. /\ longer \in Seq(Ladder) /\ other \in Seq(Ladder)
          /\ Len(longer) = 2 /\ Len(other) = 2
      BY <1>2, <3>1
    <3> HIDE DEF longer, other
    <3>4. longer = other
      BY <3>2, <3>3, OneSeq
    <3> QED  BY <3>4 DEF longer, other
  <2>4. Append(<<1, 2>>, 3) = <<1, 2, 3>>
    <3>1. /\ Append(<<1, 2>>, 3) \in Seq(Ladder) /\ Len(Append(<<1, 2>>, 3)) = Len(<<1, 2>>) + 1
          /\ \A i \in 1..Len(<<1, 2>>) : Append(<<1, 2>>, 3)[i] = <<1, 2>>[i]
          /\ Append(<<1, 2>>, 3)[Len(<<1, 2>>) + 1] = 3
      BY <1>2, <2>1, AppendProperties
    <3> DEFINE longer == Append(<<1, 2>>, 3)
               other == <<1, 2, 3>>
    <3>2. \A i \in 1..3 : longer[i] = other[i]
      BY <1>2, <3>1
    <3>3. /\ longer \in Seq(Ladder) /\ other \in Seq(Ladder)
          /\ Len(longer) = 3 /\ Len(other) = 3
      BY <1>2, <3>1
    <3> HIDE DEF longer, other
    <3>4. longer = other
      BY <3>2, <3>3, OneSeq
    <3> QED  BY <3>4 DEF longer, other
  <2> QED  BY <2>2, <2>3, <2>4
<1>6. \A n \in Steps : /\ Prefix(n) \in Seq(Ladder) /\ Len(Prefix(n)) = n
                       /\ Prefix(n) = SubSeq(<<1, 2, 3>>, 1, n)
  BY <1>1, <1>2, <1>3, <1>4
<1> QED  BY <1>1, <1>5, <1>6

LEMMA HitIsWithin ==
    ASSUME NEW t, NEW n \in Steps, t.hits = Prefix(n), NEW k \in Ladder
    PROVE  Hit(t, k) <=> k <= n
<1>1. /\ Prefix(0) = <<>> /\ Prefix(1) = <<1>> /\ Prefix(2) = <<1, 2>>
      /\ Prefix(3) = <<1, 2, 3>>
  BY DEF Prefix
<1>2. n = 0 \/ n = 1 \/ n = 2 \/ n = 3
  BY DEF Steps
<1> QED
  BY <1>1, <1>2 DEF Hit, Ladder

LEMMA Constants ==
    /\ \A k \in Ladder : Targets[k] \in Nat \ {0} /\ Fractions[k] \in Nat
    /\ Targets[1] < Targets[2] /\ Targets[2] < Targets[3]
    /\ Fractions[1] + Fractions[2] + Fractions[3] = 10
    /\ StopDistance \in Nat \ {0} /\ TimeStopBars \in Nat \ {0}
    /\ Bars \subseteq Nat /\ Offsets \subseteq Int
    /\ 1 \in Ladder /\ 2 \in Ladder /\ 3 \in Ladder
BY ReplayAssumption DEF Ladder

LEMMA BarFacts ==
    \A b \in BarShapes : /\ b.up \in Int /\ b.down \in Int /\ b.close \in Int
                         /\ b.close \in Offsets /\ b.down <= b.close /\ b.close <= b.up
<1> SUFFICES ASSUME NEW b \in BarShapes
             PROVE  /\ b.up \in Int /\ b.down \in Int /\ b.close \in Int
                    /\ b.close \in Offsets /\ b.down <= b.close /\ b.close <= b.up
  OBVIOUS
<1>1. b \in [up: Offsets, down: Offsets, close: Offsets]
      /\ b.down <= b.close /\ b.close <= b.up
  BY DEF BarShapes
<1>2. b.up \in Offsets /\ b.down \in Offsets /\ b.close \in Offsets
  BY <1>1
<1> QED  BY <1>1, <1>2, Constants

LEMMA Times == \A a, b \in Nat : a * b \in Nat
OBVIOUS

\* What the first n targets close and bring.
LEMMA LadderSums ==
    /\ LadderClosed(0) = 0 /\ LadderGain(0) = 0
    /\ LadderClosed(1) = Fractions[1]
    /\ LadderClosed(2) = Fractions[1] + Fractions[2]
    /\ LadderClosed(3) = 10
    /\ LadderGain(1) = Targets[1] * Fractions[1]
    /\ LadderGain(2) = Targets[1] * Fractions[1] + Targets[2] * Fractions[2]
    /\ LadderGain(3) = Targets[1] * Fractions[1] + Targets[2] * Fractions[2]
                           + Targets[3] * Fractions[3]
    /\ \A k \in Ladder : Targets[k] * Fractions[k] \in Nat
<1>1. \A k \in Ladder : Targets[k] * Fractions[k] \in Nat /\ Targets[k] * 0 = 0
  BY Constants, Times
<1>2. /\ Share(0, 1) = 0 /\ Share(0, 2) = 0 /\ Share(0, 3) = 0
      /\ Share(1, 1) = Fractions[1] /\ Share(1, 2) = 0 /\ Share(1, 3) = 0
      /\ Share(2, 1) = Fractions[1] /\ Share(2, 2) = Fractions[2] /\ Share(2, 3) = 0
      /\ Share(3, 1) = Fractions[1] /\ Share(3, 2) = Fractions[2]
      /\ Share(3, 3) = Fractions[3]
  BY DEF Share
<1>3. /\ LadderClosed(0) = 0 /\ LadderClosed(1) = Fractions[1]
      /\ LadderClosed(2) = Fractions[1] + Fractions[2] /\ LadderClosed(3) = 10
  BY <1>2, Constants DEF LadderClosed
<1>4. LadderGain(0) = 0
  BY <1>1, <1>2, Constants DEF LadderGain
<1>5. LadderGain(1) = Targets[1] * Fractions[1]
  BY <1>1, <1>2, Constants DEF LadderGain
<1>6. LadderGain(2) = Targets[1] * Fractions[1] + Targets[2] * Fractions[2]
  BY <1>1, <1>2, Constants DEF LadderGain
<1>7. LadderGain(3) = Targets[1] * Fractions[1] + Targets[2] * Fractions[2]
                          + Targets[3] * Fractions[3]
  BY <1>2 DEF LadderGain
<1> QED  BY <1>1, <1>3, <1>4, <1>5, <1>6, <1>7

LEMMA LadderTypes ==
    \A n \in Steps : /\ LadderClosed(n) \in 0..10 /\ LadderGain(n) \in Nat
                     /\ 10 - LadderClosed(n) \in 0..10
<1>1. \A n \in Steps : n = 0 \/ n = 1 \/ n = 2 \/ n = 3
  BY DEF Steps
<1>2. /\ Targets[1] * Fractions[1] \in Nat /\ Targets[2] * Fractions[2] \in Nat
      /\ Targets[3] * Fractions[3] \in Nat
      /\ Fractions[1] \in Nat /\ Fractions[2] \in Nat /\ Fractions[3] \in Nat
      /\ Fractions[1] + Fractions[2] + Fractions[3] = 10
  BY LadderSums, Constants
<1> QED  BY <1>1, <1>2, LadderSums

\* Closing the rest after n targets at a price below the next target brings no more than
\* the ladder, and above the stop loses no more than one R.
LEMMA RestIsBounded ==
    ASSUME NEW n \in 0..2, NEW price \in Int, price <= Targets[n + 1],
           -StopDistance <= price
    PROVE  LET rest == 10 - LadderClosed(n)
           IN  /\ LadderGain(n) + price * rest <= LadderGain(3)
               /\ -10 * StopDistance <= LadderGain(n) + price * rest
<1> DEFINE rest == 10 - LadderClosed(n)
           f1 == Fractions[1]
           f2 == Fractions[2]
           f3 == Fractions[3]
           t1 == Targets[1]
           t2 == Targets[2]
           t3 == Targets[3]
<1>1. /\ f1 \in Nat /\ f2 \in Nat /\ f3 \in Nat /\ f1 + f2 + f3 = 10
      /\ t1 \in Nat /\ t2 \in Nat /\ t3 \in Nat /\ t1 < t2 /\ t2 < t3
      /\ StopDistance \in Nat
  BY Constants
<1>2. \A f \in Nat, p, q \in Int : p <= q => p * f <= q * f
  OBVIOUS
<1>3. rest \in 0..10 /\ LadderGain(n) \in Nat /\ price * rest \in Int
  BY LadderTypes DEF Steps
<1>4. -10 * StopDistance <= LadderGain(n) + price * rest
  <2>1. (-StopDistance) * rest <= price * rest
    BY <1>1, <1>2, <1>3
  <2>2. -10 * StopDistance <= (-StopDistance) * rest
    <3> HIDE DEF rest
    <3> QED  BY <1>1, <1>3
  <2>3. (-StopDistance) * rest \in Int
    BY <1>1, <1>3
  <2> HIDE DEF rest
  <2> QED  BY <1>1, <1>3, <2>1, <2>2, <2>3
<1>5. LadderGain(n) + price * rest <= LadderGain(3)
  <2>1. /\ price * f1 \in Int /\ price * f2 \in Int /\ price * f3 \in Int
        /\ t1 * f1 \in Int /\ t2 * f2 \in Int /\ t3 * f3 \in Int
    BY <1>1
  <2>2. LadderGain(3) = t1 * f1 + t2 * f2 + t3 * f3
    BY LadderSums
  <2>3. CASE n = 0
    <3>1. rest = f1 + f2 + f3 /\ LadderGain(n) = 0 /\ price <= t1
      BY <1>1, <2>3, LadderSums
    <3>2. price * f1 <= t1 * f1 /\ price * f2 <= t2 * f2 /\ price * f3 <= t3 * f3
      <4> HIDE DEF f1, f2, f3, t1, t2, t3, rest
      <4> QED  BY <1>1, <1>2, <3>1
    <3>3. price * (f1 + f2 + f3) = price * f1 + price * f2 + price * f3
      BY <1>1
    <3> HIDE DEF f1, f2, f3, t1, t2, t3, rest
    <3> QED  BY <1>3, <2>1, <2>2, <3>1, <3>2, <3>3
  <2>4. CASE n = 1
    <3>1. rest = f2 + f3 /\ LadderGain(n) = t1 * f1 /\ price <= t2
      BY <1>1, <2>4, LadderSums
    <3>2. price * f2 <= t2 * f2 /\ price * f3 <= t3 * f3
      <4> HIDE DEF f1, f2, f3, t1, t2, t3, rest
      <4> QED  BY <1>1, <1>2, <3>1
    <3>3. price * (f2 + f3) = price * f2 + price * f3
      BY <1>1
    <3> HIDE DEF f1, f2, f3, t1, t2, t3, rest
    <3> QED  BY <1>3, <2>1, <2>2, <3>1, <3>2, <3>3
  <2>5. CASE n = 2
    <3>1. rest = f3 /\ LadderGain(n) = t1 * f1 + t2 * f2 /\ price <= t3
      BY <1>1, <2>5, LadderSums
    <3>2. price * f3 <= t3 * f3
      <4> HIDE DEF f1, f2, f3, t1, t2, t3, rest
      <4> QED  BY <1>1, <1>2, <3>1
    <3> HIDE DEF f1, f2, f3, t1, t2, t3, rest
    <3> QED  BY <1>3, <2>1, <2>2, <3>1, <3>2
  <2> QED  BY <2>3, <2>4, <2>5
<1> QED  BY <1>4, <1>5

-----------------------------------------------------------------------------
(***************************************************************************)
(* One trade.                                                              *)
(***************************************************************************)
\* A trade that has taken n targets and closed nothing else.
Running(t, n) ==
    /\ t.hits = Prefix(n)
    /\ t.level = (IF n = 0 THEN -StopDistance ELSE 0)
    /\ t.remaining = 10 - LadderClosed(n)
    /\ t.realized = LadderGain(n)

LEMMA NewTradeRuns ==
    \A i \in Nat : NewTrade(i) \in TradeRecords /\ Running(NewTrade(i), 0)
<1> SUFFICES ASSUME NEW i \in Nat
             PROVE  NewTrade(i) \in TradeRecords /\ Running(NewTrade(i), 0)
  OBVIOUS
<1>1. Prefix(0) = <<>> /\ <<>> \in Seq(Ladder)
  BY PrefixFacts DEF Prefix, Steps
<1>2. LadderClosed(0) = 0 /\ LadderGain(0) = 0
  BY LadderSums
<1> HIDE DEF Ladder
<1> QED  BY <1>1, <1>2 DEF NewTrade, TradeRecords, Running, Reasons

\* The next target of a running trade closes its own fraction, whatever Lesser allows.
LEMMA TargetTaken ==
    ASSUME NEW t \in TradeRecords, NEW k \in Ladder, Running(t, k - 1),
           NEW b \in BarShapes, Targets[k] <= b.up
    PROVE  LET u == TakeTarget(t, k, b)
           IN  /\ u \in TradeRecords /\ Running(u, k) /\ u.reason = "TARGET"
               /\ u.entry = t.entry /\ u.held = t.held /\ u.close = t.close
<1> DEFINE u == TakeTarget(t, k, b)
           fraction == Lesser(Fractions[k], t.remaining)
<1>1. k = 1 \/ k = 2 \/ k = 3
  BY DEF Ladder
<1>2. k - 1 \in Steps /\ k \in Steps
  BY <1>1 DEF Steps
<1>3. ~ Hit(t, k)
  BY <1>1, <1>2, HitIsWithin DEF Running
<1>4. ~ (b.up < Targets[k])
  BY Constants, BarFacts
<1>5. u = [t EXCEPT !.realized = @ + Targets[k] * fraction,
                    !.remaining = @ - fraction,
                    !.hits = Append(@, k), !.reason = "TARGET",
                    !.level = IF k = 1 THEN 0 ELSE @]
  BY <1>3, <1>4 DEF TakeTarget
<1>6. /\ t.remaining = 10 - LadderClosed(k - 1) /\ t.realized = LadderGain(k - 1)
      /\ t.hits = Prefix(k - 1) /\ t.level = (IF k - 1 = 0 THEN -StopDistance ELSE 0)
  BY DEF Running
<1>7. /\ fraction = Fractions[k]
      /\ 10 - LadderClosed(k) = t.remaining - Fractions[k]
  BY <1>1, <1>6, LadderSums, Constants DEF Lesser
<1>8. LadderGain(k) = t.realized + Targets[k] * Fractions[k]
  <2>1. /\ Targets[1] * Fractions[1] \in Nat /\ Targets[2] * Fractions[2] \in Nat
        /\ Targets[3] * Fractions[3] \in Nat
    BY LadderSums, Constants
  <2> QED  BY <1>1, <1>6, <2>1, LadderSums
<1>9. Append(t.hits, k) = Prefix(k)
  <2>1. 1 - 1 = 0 /\ 2 - 1 = 1 /\ 3 - 1 = 2
    OBVIOUS
  <2> QED  BY <1>1, <1>6, <2>1, PrefixFacts
<1> HIDE DEF fraction
<1>10. /\ u.realized = LadderGain(k) /\ u.remaining = 10 - LadderClosed(k)
       /\ u.hits = Prefix(k) /\ u.reason = "TARGET"
       /\ u.level = (IF k = 1 THEN 0 ELSE t.level)
       /\ u.entry = t.entry /\ u.held = t.held /\ u.close = t.close
  <2>1. t = [entry |-> t.entry, held |-> t.held, level |-> t.level, hits |-> t.hits,
             remaining |-> t.remaining, realized |-> t.realized, close |-> t.close,
             reason |-> t.reason]
    BY DEF TradeRecords
  <2> QED  BY <1>5, <1>7, <1>8, <1>9, <2>1
<1>11. u.level = 0
  BY <1>1, <1>6, <1>10
<1>12. Running(u, k)
  BY <1>1, <1>10, <1>11 DEF Running
<1>13. u \in TradeRecords
  <2>1. u = [entry |-> t.entry, held |-> t.held, level |-> 0, hits |-> Prefix(k),
             remaining |-> 10 - LadderClosed(k), realized |-> LadderGain(k),
             close |-> t.close, reason |-> "TARGET"]
    BY <1>5, <1>10, <1>11 DEF TradeRecords
  <2>2. /\ 10 - LadderClosed(k) \in 0..10 /\ LadderGain(k) \in Int
        /\ Prefix(k) \in Seq(Ladder)
    BY <1>2, LadderTypes, PrefixFacts
  <2> QED  BY <2>1, <2>2 DEF TradeRecords, Reasons
<1> QED  BY <1>10, <1>12, <1>13

LEMMA TargetLeft ==
    ASSUME NEW t, NEW n \in Steps, Running(t, n), NEW k \in Ladder, NEW b \in BarShapes,
           k <= n \/ b.up < Targets[k]
    PROVE  TakeTarget(t, k, b) = t
BY HitIsWithin DEF Running, TakeTarget

\* A bar takes every target it reaches and no other, in order.
LEMMA TargetsTaken ==
    ASSUME NEW t \in TradeRecords, NEW n \in Steps, Running(t, n), NEW b \in BarShapes
    PROVE  LET u == TakeTargets(t, b)
           IN  /\ u \in TradeRecords
               /\ u.entry = t.entry /\ u.held = t.held /\ u.close = t.close
               /\ \E m \in Steps : /\ n <= m /\ Running(u, m)
                                   /\ m < 3 => b.up < Targets[m + 1]
                                   /\ m > n => u.reason = "TARGET"
                                   /\ m = n => u = t
<1> DEFINE Reached(u, k, m) ==
               /\ u \in TradeRecords
               /\ u.entry = t.entry /\ u.held = t.held /\ u.close = t.close
               /\ m \in Steps /\ n <= m /\ Running(u, m)
               /\ m > n => u.reason = "TARGET"
               /\ m = n => u = t
               /\ k <= m \/ b.up < Targets[k]
<1>1. /\ b.up \in Int /\ Targets[1] \in Nat /\ Targets[2] \in Nat /\ Targets[3] \in Nat
      /\ Targets[1] < Targets[2] /\ Targets[2] < Targets[3]
  BY Constants, BarFacts
<1>2. ASSUME NEW u, NEW k \in Ladder, NEW m \in Steps, Reached(u, k - 1, m) \/ (k = 1 /\ u = t /\ m = n)
      PROVE  \E l \in Steps : Reached(TakeTarget(u, k, b), k, l) /\ (m <= l)
  <2>1. /\ u \in TradeRecords /\ u.entry = t.entry /\ u.held = t.held /\ u.close = t.close
        /\ n <= m /\ Running(u, m)
        /\ m > n => u.reason = "TARGET"
        /\ m = n => u = t
    BY <1>2 DEF Steps
  <2>2. CASE k <= m \/ b.up < Targets[k]
    <3>1. TakeTarget(u, k, b) = u
      BY <2>1, <2>2, TargetLeft
    <3>2. Reached(TakeTarget(u, k, b), k, m)
      BY <2>1, <2>2, <3>1
    <3> QED  BY <3>2 DEF Steps
  <2>3. CASE ~ (k <= m \/ b.up < Targets[k])
    <3>1. k \in {1, 2, 3}
      BY DEF Ladder
    <3>2. Targets[k] <= b.up
      BY <1>1, <2>3, <3>1
    <3>3. m = k - 1
      <4>1. k = 1 \/ k - 1 <= m \/ b.up < Targets[k - 1]
        BY <1>2
      <4>2. m \in 0..3
        BY DEF Steps
      <4> QED  BY <1>1, <2>3, <3>1, <3>2, <4>1, <4>2
    <3>4. /\ TakeTarget(u, k, b) \in TradeRecords /\ Running(TakeTarget(u, k, b), k)
          /\ TakeTarget(u, k, b).reason = "TARGET"
          /\ TakeTarget(u, k, b).entry = u.entry /\ TakeTarget(u, k, b).held = u.held
          /\ TakeTarget(u, k, b).close = u.close
      BY <2>1, <3>2, <3>3, TargetTaken
    <3>5. k \in Steps /\ m < k /\ n < k
      BY <2>1, <3>1, <3>3 DEF Steps
    <3>6. Reached(TakeTarget(u, k, b), k, k)
      BY <2>1, <3>4, <3>5 DEF Steps
    <3> QED  BY <3>5, <3>6 DEF Steps
  <2> QED  BY <2>2, <2>3
<1>3. 1 \in Ladder /\ 2 \in Ladder /\ 3 \in Ladder /\ 2 - 1 = 1 /\ 3 - 1 = 2
  BY DEF Ladder
<1> HIDE DEF Reached
<1>4. PICK m1 \in Steps : Reached(TakeTarget(t, 1, b), 1, m1)
  BY <1>2, <1>3
<1>5. PICK m2 \in Steps : Reached(TakeTarget(TakeTarget(t, 1, b), 2, b), 2, m2) /\ m1 <= m2
  BY <1>2, <1>3, <1>4
<1>6. PICK m3 \in Steps : Reached(TakeTargets(t, b), 3, m3) /\ m2 <= m3
  BY <1>2, <1>3, <1>5 DEF TakeTargets
<1>7. m3 < 3 => b.up < Targets[m3 + 1]
  <2>1. /\ 3 <= m3 \/ b.up < Targets[3]
        /\ 2 <= m2 \/ b.up < Targets[2]
        /\ 1 <= m1 \/ b.up < Targets[1]
    BY <1>4, <1>5, <1>6 DEF Reached
  <2>2. m1 \in 0..3 /\ m2 \in 0..3 /\ m3 \in 0..3
    BY DEF Steps
  <2>3. m3 = 0 \/ m3 = 1 \/ m3 = 2 \/ m3 = 3
    BY <2>2
  <2> QED  BY <1>1, <1>5, <1>6, <2>1, <2>2, <2>3
<1> QED  BY <1>6, <1>7 DEF Reached

\* What an open trade is: the targets it has taken leave something open, and the last
\* close it saw was above the stop and below the next target.
Open(t) ==
    /\ t \in TradeRecords /\ t.remaining > 0
    /\ \E n \in 0..2 : /\ Running(t, n)
                       /\ -StopDistance <= t.close /\ t.close <= Targets[n + 1]

\* What a trade that has ended is.
ReasonHolds(t, n) ==
    /\ t.reason = "STOP_LOSS" => t.realized = -10 * StopDistance
    /\ t.reason = "BREAKEVEN_STOP" => n > 0 /\ t.realized = LadderGain(n)
    /\ t.reason = "TARGET" => t.realized = LadderGain(3)
    /\ t.reason # "OPEN"

Finished(t) ==
    /\ t \in TradeRecords /\ t.remaining = 0
    /\ -10 * StopDistance <= t.realized /\ t.realized <= LadderGain(3)
    /\ \E n \in Steps : /\ t.hits = Prefix(n)
                        /\ t.level = (IF n = 0 THEN -StopDistance ELSE 0)
                        /\ ReasonHolds(t, n)

LEMMA NewTradeIsOpen ==
    \A i \in Nat : Open(NewTrade(i))
<1> SUFFICES ASSUME NEW i \in Nat
             PROVE  Open(NewTrade(i))
  OBVIOUS
<1>1. NewTrade(i) \in TradeRecords /\ Running(NewTrade(i), 0)
  BY NewTradeRuns
<1>2. NewTrade(i).close = 0 /\ NewTrade(i).remaining = 10
  BY DEF NewTrade
<1>3. -StopDistance <= 0 /\ 0 <= Targets[0 + 1] /\ 0 \in 0..2
  BY Constants
<1> QED  BY <1>1, <1>2, <1>3 DEF Open

LEMMA RestCloses ==
    ASSUME NEW t \in TradeRecords, NEW n \in 0..2, Running(t, n),
           NEW price \in Int, -StopDistance <= price, price <= Targets[n + 1],
           NEW reason \in {"STOP_LOSS", "BREAKEVEN_STOP", "TIME_STOP", "END_OF_DATA"},
           reason = "STOP_LOSS" => n = 0 /\ price = -StopDistance,
           reason = "BREAKEVEN_STOP" => n > 0 /\ price = 0
    PROVE  LET u == CloseRest(t, price, reason)
           IN  Finished(u) /\ u.entry = t.entry /\ u.held = t.held
<1> DEFINE u == CloseRest(t, price, reason)
<1>1. /\ u.entry = t.entry /\ u.held = t.held /\ u.level = t.level /\ u.hits = t.hits
      /\ u.remaining = 0 /\ u.realized = t.realized + price * t.remaining
      /\ u.reason = reason
  BY DEF CloseRest, TradeRecords
<1>2. t.remaining \in 0..10 /\ t.realized \in Int /\ t.realized + price * t.remaining \in Int
  BY DEF TradeRecords
<1>3. u \in TradeRecords
  <2> DEFINE sum == t.realized + price * t.remaining
  <2>1. u = [t EXCEPT !.realized = sum, !.remaining = 0, !.reason = reason]
    BY DEF CloseRest, TradeRecords
  <2>2. sum \in Int /\ reason \in Reasons /\ 0 \in 0..10
    BY <1>2 DEF Reasons
  <2> HIDE DEF sum, u
  <2> QED  BY <2>1, <2>2 DEF TradeRecords
<1>4. n \in Steps
  BY DEF Steps
<1>5. /\ t.hits = Prefix(n) /\ t.level = (IF n = 0 THEN -StopDistance ELSE 0)
      /\ t.remaining = 10 - LadderClosed(n) /\ t.realized = LadderGain(n)
  BY DEF Running
<1>6. /\ u.realized = LadderGain(n) + price * (10 - LadderClosed(n))
      /\ u.remaining = 0 /\ u.hits = Prefix(n) /\ u.level = t.level
      /\ u.reason = reason /\ u.entry = t.entry /\ u.held = t.held
  BY <1>1, <1>5
<1>7. -10 * StopDistance <= u.realized /\ u.realized <= LadderGain(3)
  BY <1>6, RestIsBounded
<1>8. ReasonHolds(u, n)
  <2>1. CASE reason = "STOP_LOSS"
    <3>1. LadderGain(n) = 0 /\ 10 - LadderClosed(n) = 10
      BY <2>1, LadderSums
    <3>2. u.realized = -10 * StopDistance
      BY <1>6, <2>1, <3>1, Constants
    <3> QED  BY <1>6, <2>1, <3>2 DEF ReasonHolds
  <2>2. CASE reason = "BREAKEVEN_STOP"
    <3>1. 0 * (10 - LadderClosed(n)) = 0 /\ LadderGain(n) \in Nat
      BY <1>4, LadderTypes
    <3>2. u.realized = LadderGain(n) /\ n > 0
      BY <1>6, <2>2, <3>1
    <3> QED  BY <1>6, <2>2, <3>2 DEF ReasonHolds
  <2>3. CASE reason \in {"TIME_STOP", "END_OF_DATA"}
    BY <1>6, <2>3 DEF ReasonHolds
  <2> QED  BY <2>1, <2>2, <2>3
<1>9. Finished(u)
  <2> HIDE DEF u
  <2> QED  BY <1>3, <1>4, <1>5, <1>6, <1>7, <1>8 DEF Finished
<1> QED  BY <1>6, <1>9

\* When nothing is left after m targets, they have brought all the ladder can.
LEMMA EmptyIsWhole ==
    ASSUME NEW m \in Steps, 10 - LadderClosed(m) = 0
    PROVE  LadderGain(m) = LadderGain(3)
<1>1. m = 0 \/ m = 1 \/ m = 2 \/ m = 3
  BY DEF Steps
<1>2. /\ Fractions[1] \in Nat /\ Fractions[2] \in Nat /\ Fractions[3] \in Nat
      /\ Fractions[1] + Fractions[2] + Fractions[3] = 10
      /\ Targets[1] * Fractions[1] \in Nat /\ Targets[2] * Fractions[2] \in Nat
      /\ Targets[3] \in Nat /\ Targets[2] \in Nat /\ Targets[2] * 0 = 0 /\ Targets[3] * 0 = 0
  BY Constants, LadderSums
<1>3. CASE m = 0
  BY <1>3, LadderSums
<1>4. CASE m = 1
  <2>1. Fractions[2] = 0 /\ Fractions[3] = 0
    BY <1>2, <1>4, LadderSums
  <2> QED  BY <1>2, <1>4, <2>1, LadderSums
<1>5. CASE m = 2
  <2>1. Fractions[3] = 0
    BY <1>2, <1>5, LadderSums
  <2> QED  BY <1>2, <1>5, <2>1, LadderSums
<1>6. CASE m = 3
  BY <1>6
<1> QED  BY <1>1, <1>3, <1>4, <1>5, <1>6

\* What one bar makes of an open trade is an open trade again, younger than the time
\* stop, or one that has ended as its reason says.
LEMMA BarFollowed ==
    ASSUME NEW t, Open(t), NEW b \in BarShapes
    PROVE  LET u == AfterBar(t, b)
           IN  /\ u \in TradeRecords /\ u.entry = t.entry /\ u.held = t.held + 1
               /\ u.remaining <= 0 => Finished(u)
               /\ u.remaining > 0 => Open(u) /\ u.held < TimeStopBars
<1> DEFINE seen  == [t EXCEPT !.held = @ + 1, !.close = b.close]
           taken == TakeTargets(seen, b)
           u     == AfterBar(t, b)
<1> SUFFICES /\ u \in TradeRecords /\ u.entry = t.entry /\ u.held = t.held + 1
             /\ u.remaining <= 0 => Finished(u)
             /\ u.remaining > 0 => Open(u) /\ u.held < TimeStopBars
  OBVIOUS
<1>1. PICK n \in 0..2 : Running(t, n)
  BY DEF Open
<1>2. t \in TradeRecords /\ t.remaining > 0 /\ n \in Steps
  BY DEF Open, Steps
<1>3. /\ seen.entry = t.entry /\ seen.held = t.held + 1 /\ seen.level = t.level
      /\ seen.hits = t.hits /\ seen.remaining = t.remaining
      /\ seen.realized = t.realized /\ seen.close = b.close
  BY <1>2 DEF TradeRecords
<1>4. /\ seen \in TradeRecords /\ Running(seen, n) /\ seen.remaining > 0
      /\ seen.entry = t.entry /\ seen.held = t.held + 1 /\ seen.close = b.close
  <2>1. b.close \in Offsets \cup {0} /\ t.held + 1 \in Nat
    BY <1>2, BarFacts DEF TradeRecords
  <2>2. seen \in TradeRecords
    BY <1>2, <2>1 DEF TradeRecords
  <2>3. Running(seen, n)
    BY <1>1, <1>3 DEF Running
  <2> QED  BY <1>2, <1>3, <2>2, <2>3
<1>5. t.level = (IF n = 0 THEN -StopDistance ELSE 0)
  BY <1>1 DEF Running
<1> HIDE DEF seen
<1>6. u = (IF Stopped(t, b) THEN CloseRest(seen, t.level, StopReason(t))
           ELSE IF taken.remaining > 0 /\ seen.held >= TimeStopBars
                THEN CloseRest(taken, b.close, "TIME_STOP")
           ELSE taken)
  BY DEF AfterBar, seen
<1>7. /\ StopDistance \in Nat \ {0} /\ Targets[n + 1] \in Nat /\ TimeStopBars \in Nat
      /\ b.up \in Int /\ b.down \in Int /\ b.close \in Int
      /\ b.down <= b.close /\ b.close <= b.up
  BY Constants, BarFacts DEF Ladder
<1> HIDE DEF u, taken
<1>8. CASE Stopped(t, b)
  <2>1. u = CloseRest(seen, t.level, StopReason(t))
    BY <1>6, <1>8
  <2>2. /\ t.level \in Int /\ -StopDistance <= t.level /\ t.level <= Targets[n + 1]
    BY <1>5, <1>7
  <2>3. CASE n = 0
    <3>1. StopReason(t) = "STOP_LOSS" /\ t.level = -StopDistance
      BY <1>5, <2>3 DEF StopReason
    <3>2. Finished(u) /\ u.entry = seen.entry /\ u.held = seen.held
      BY <1>4, <2>1, <2>2, <2>3, <3>1, RestCloses
    <3> QED  BY <1>4, <3>2 DEF Finished
  <2>4. CASE n > 0
    <3>1. StopReason(t) = "BREAKEVEN_STOP" /\ t.level = 0
      BY <1>5, <1>7, <2>4 DEF StopReason
    <3>2. Finished(u) /\ u.entry = seen.entry /\ u.held = seen.held
      BY <1>4, <2>1, <2>2, <2>4, <3>1, RestCloses
    <3> QED  BY <1>4, <3>2 DEF Finished
  <2> QED  BY <2>3, <2>4
<1>9. CASE ~ Stopped(t, b)
  <2>1. t.level < b.down
    BY <1>5, <1>7, <1>9 DEF Stopped
  <2>2. -StopDistance <= b.close
    BY <1>5, <1>7, <2>1
  <2>3. PICK m \in Steps : /\ n <= m /\ Running(taken, m)
                           /\ m < 3 => b.up < Targets[m + 1]
                           /\ m > n => taken.reason = "TARGET"
                           /\ m = n => taken = seen
    BY <1>2, <1>4, TargetsTaken DEF taken
  <2>4. /\ taken \in TradeRecords /\ taken.entry = seen.entry
        /\ taken.held = seen.held /\ taken.close = seen.close
    BY <1>2, <1>4, TargetsTaken DEF taken
  <2>5. taken.remaining = 10 - LadderClosed(m) /\ 10 - LadderClosed(m) \in 0..10
    BY <2>3, LadderTypes DEF Running
  <2>6. CASE taken.remaining > 0
    <3>1. m \in 0..2
      BY <2>5, <2>6, LadderSums DEF Steps
    <3>2. Targets[m + 1] \in Nat
      BY <3>1, Constants DEF Ladder
    <3>3. b.close <= Targets[m + 1]
      BY <1>7, <2>3, <3>1, <3>2
    <3>4. CASE seen.held >= TimeStopBars
      <4>1. u = CloseRest(taken, b.close, "TIME_STOP")
        BY <1>6, <1>9, <2>6, <3>4
      <4>2. Finished(u) /\ u.entry = taken.entry /\ u.held = taken.held
        BY <1>7, <2>2, <2>3, <2>4, <3>1, <3>3, <4>1, RestCloses
      <4> QED  BY <1>4, <2>4, <4>2 DEF Finished
    <3>5. CASE ~ (seen.held >= TimeStopBars)
      <4>1. u = taken
        BY <1>6, <1>9, <3>5
      <4>2. Open(u)
        BY <1>4, <2>2, <2>3, <2>4, <2>6, <3>1, <3>3, <4>1 DEF Open
      <4>3. seen.held \in Nat
        BY <1>4 DEF TradeRecords
      <4>4. seen.held < TimeStopBars
        BY <1>7, <3>5, <4>3
      <4> QED  BY <1>4, <2>4, <2>5, <2>6, <4>1, <4>2, <4>4
    <3> QED  BY <3>4, <3>5
  <2>7. CASE ~ (taken.remaining > 0)
    <3>1. u = taken /\ taken.remaining = 0
      BY <1>6, <1>9, <2>5, <2>7
    <3>2. m > n /\ taken.reason = "TARGET"
      <4>1. m # n
        BY <1>4, <2>3, <3>1
      <4> QED  BY <2>3, <4>1 DEF Steps
    <3>3. taken.realized = LadderGain(m) /\ taken.hits = Prefix(m)
          /\ taken.level = (IF m = 0 THEN -StopDistance ELSE 0)
      BY <2>3 DEF Running
    <3>4. taken.realized = LadderGain(3)
      BY <2>5, <3>1, <3>3, EmptyIsWhole
    <3>5. -10 * StopDistance <= taken.realized /\ taken.realized <= LadderGain(3)
      <4>1. LadderGain(3) \in Nat
        BY LadderTypes DEF Steps
      <4> QED  BY <1>7, <3>4, <4>1
    <3>6. ReasonHolds(taken, m)
      BY <3>2, <3>4 DEF ReasonHolds
    <3>7. Finished(u)
      BY <2>4, <3>1, <3>3, <3>5, <3>6 DEF Finished
    <3> QED  BY <1>4, <2>4, <3>1, <3>7
  <2> QED  BY <2>6, <2>7
<1> QED  BY <1>8, <1>9

-----------------------------------------------------------------------------
(***************************************************************************)
(* The walk.                                                               *)
(***************************************************************************)
Typed ==
    /\ last \in Bars /\ index \in Nat /\ pc \in {"scan", "trade"}
    /\ Open(trade)
    /\ trades \in Seq(TradeRecords)

Ended == \A i \in 1..Len(trades) : Finished(trades[i])

Walked ==
    /\ pc = "trade" => /\ trade.entry = index
                       /\ trade.held < TimeStopBars /\ index + trade.held < last
    /\ \A i \in 1..Len(trades) :
          /\ trades[i].held <= TimeStopBars
          /\ ExitBar(trades[i]) < last
          /\ ExitBar(trades[i]) <= index /\ trades[i].entry < index
    /\ \A i, j \in 1..Len(trades) : i < j =>
          /\ trades[i].entry < trades[j].entry
          /\ ExitBar(trades[i]) <= trades[j].entry

WalkInv == Typed /\ Ended /\ Walked

LEMMA WalkStarts == Init => WalkInv
<1> SUFFICES ASSUME Init
             PROVE  WalkInv
  OBVIOUS
<1>1. trades = <<>> /\ trades \in Seq(TradeRecords) /\ Len(trades) = 0
  BY EmptySeq DEF Init
<1>2. Open(trade)
  BY NewTradeIsOpen DEF Init
<1>3. \A i \in 1..Len(trades) : FALSE
  BY <1>1
<1>4. Typed
  BY <1>1, <1>2 DEF Init, Typed
<1>5. Ended /\ Walked
  BY <1>3 DEF Init, Ended, Walked
<1> QED  BY <1>4, <1>5 DEF WalkInv

\* A trade that ends in time is added to those that have ended, and the walk goes on
\* after its entry and no earlier than its last bar.
LEMMA EndKeeps ==
    ASSUME WalkInv, pc = "trade", NEW u, Finished(u), u.entry = index,
           u.held <= TimeStopBars, index + u.held < last, EndTrade(u)
    PROVE  WalkInv'
<1>1. /\ last \in Bars /\ index \in Nat /\ trades \in Seq(TradeRecords) /\ last \in Nat
      /\ u \in TradeRecords /\ u.held \in Nat /\ u.entry \in Nat
  BY Constants DEF WalkInv, Typed, Finished, TradeRecords
<1>2. /\ trades' = Append(trades, u) /\ pc' = "scan" /\ trade' = NewTrade(0) /\ last' = last
      /\ index' = index + (IF u.held > 1 THEN u.held ELSE 1)
  BY DEF EndTrade
<1>3. index' \in Nat /\ index < index' /\ index + u.held <= index'
  BY <1>1, <1>2
<1> DEFINE n == Len(trades)
<1>4. /\ n \in Nat /\ trades' \in Seq(TradeRecords) /\ Len(trades') = n + 1
      /\ \A i \in 1..n : trades'[i] = trades[i]
      /\ trades'[n + 1] = u
  BY <1>1, <1>2, AppendProperties, LenProperties
<1>5. Typed'
  BY <1>1, <1>2, <1>3, <1>4, NewTradeIsOpen DEF Typed
<1>6. \A i \in 1..(n + 1) : i \in 1..n \/ i = n + 1
  BY <1>4
<1>7. Ended'
  BY <1>4, <1>6 DEF WalkInv, Ended
<1>8. \A i \in 1..n : trades[i].entry \in Nat /\ trades[i].held \in Nat
  <2>1. \A i \in 1..n : trades[i] \in TradeRecords
    BY <1>1, LenProperties
  <2> QED  BY <2>1 DEF TradeRecords
<1>9. \A i \in 1..n : /\ trades[i].held <= TimeStopBars
                      /\ trades[i].entry + trades[i].held < last
                      /\ trades[i].entry + trades[i].held <= index
                      /\ trades[i].entry < index
  BY DEF WalkInv, Walked, ExitBar
<1>10. ASSUME NEW i \in 1..(n + 1)
       PROVE  /\ trades'[i].held <= TimeStopBars
              /\ trades'[i].entry + trades'[i].held < last'
              /\ trades'[i].entry + trades'[i].held <= index'
              /\ trades'[i].entry < index'
  <2>1. CASE i \in 1..n
    BY <1>1, <1>2, <1>3, <1>4, <1>8, <1>9, <2>1
  <2>2. CASE i = n + 1
    BY <1>1, <1>2, <1>3, <1>4, <2>2
  <2> QED  BY <1>6, <2>1, <2>2
<1>11. ASSUME NEW i \in 1..(n + 1), NEW j \in 1..(n + 1), i < j
       PROVE  /\ trades'[i].entry < trades'[j].entry
              /\ trades'[i].entry + trades'[i].held <= trades'[j].entry
  <2>1. i \in 1..n
    BY <1>4, <1>11
  <2>2. CASE j \in 1..n
    <3>1. /\ trades[i].entry < trades[j].entry
          /\ trades[i].entry + trades[i].held <= trades[j].entry
      BY <1>11, <2>1, <2>2 DEF WalkInv, Walked, ExitBar
    <3> QED  BY <1>4, <2>1, <2>2, <3>1
  <2>3. CASE j = n + 1
    BY <1>4, <1>9, <2>1, <2>3
  <2> QED  BY <1>6, <2>2, <2>3
<1>12. Walked'
  BY <1>2, <1>4, <1>10, <1>11 DEF Walked, ExitBar
<1> QED  BY <1>5, <1>7, <1>12 DEF WalkInv

LEMMA WalkSteps == WalkInv /\ [Next]_vars => WalkInv'
<1> SUFFICES ASSUME WalkInv, [Next]_vars
             PROVE  WalkInv'
  OBVIOUS
<1>1. /\ last \in Nat /\ index \in Nat /\ TimeStopBars \in Nat /\ 1 <= TimeStopBars
      /\ Open(trade) /\ trade \in TradeRecords
      /\ trade.held \in Nat /\ trade.entry \in Nat /\ trade.close \in Int
  <2>1. last \in Bars /\ index \in Nat /\ Open(trade) /\ trade \in TradeRecords
    BY DEF WalkInv, Typed, Open
  <2>2. trade.held \in Nat /\ trade.entry \in Nat /\ trade.close \in Offsets \cup {0}
    BY <2>1 DEF TradeRecords
  <2>3. Offsets \cup {0} \subseteq Int
    <3>1. Offsets \subseteq Int
      BY Constants
    <3> QED  BY <3>1
  <2>4. trade.close \in Int
    BY <2>2, <2>3
  <2>5. last \in Nat
    BY <2>1, Constants
  <2>6. TimeStopBars \in Nat /\ 1 <= TimeStopBars
    BY Constants
  <2> QED  BY <2>1, <2>2, <2>4, <2>5, <2>6
<1>2. CASE Pass
  <2>1. /\ last' = last /\ pc' = "scan" /\ pc = "scan" /\ trade' = trade /\ trades' = trades
        /\ index' = index + 1 /\ index' \in Nat
    BY <1>1, <1>2 DEF Pass
  <2>2. Typed' /\ Ended'
    BY <2>1 DEF WalkInv, Typed, Ended
  <2>3. \A i \in 1..Len(trades) : trades[i].entry \in Nat /\ trades[i].held \in Nat
    <3>1. \A i \in 1..Len(trades) : trades[i] \in TradeRecords
      BY LenProperties DEF WalkInv, Typed
    <3> QED  BY <3>1 DEF TradeRecords
  <2>4. ASSUME NEW i \in 1..Len(trades)
        PROVE  /\ trades[i].held <= TimeStopBars /\ ExitBar(trades[i]) < last
               /\ ExitBar(trades[i]) <= index + 1 /\ trades[i].entry < index + 1
    <3>1. /\ trades[i].held <= TimeStopBars /\ ExitBar(trades[i]) < last
          /\ ExitBar(trades[i]) <= index /\ trades[i].entry < index
      BY DEF WalkInv, Walked
    <3>2. ExitBar(trades[i]) \in Nat
      BY <2>3 DEF ExitBar
    <3> QED  BY <1>1, <2>3, <3>1, <3>2
  <2>5. Walked'
    BY <2>1, <2>4 DEF WalkInv, Walked, ExitBar
  <2> QED  BY <2>2, <2>5 DEF WalkInv
<1>3. CASE Enter
  <2>1. /\ last' = last /\ pc' = "trade" /\ trade' = NewTrade(index) /\ trades' = trades
        /\ index' = index /\ index < last
    BY <1>3 DEF Enter
  <2>2. Typed' /\ Ended'
    BY <1>1, <2>1, NewTradeIsOpen DEF WalkInv, Typed, Ended
  <2>3. trade'.entry = index' /\ trade'.held = 0
    BY <2>1 DEF NewTrade
  <2>4. trade'.held < TimeStopBars /\ index' + trade'.held < last'
    BY <1>1, <2>1, <2>3
  <2>5. Walked'
    BY <2>1, <2>3, <2>4 DEF WalkInv, Walked, ExitBar
  <2> QED  BY <2>2, <2>5 DEF WalkInv
<1>4. ASSUME NEW b \in BarShapes, FollowBar(b)
      PROVE  WalkInv'
  <2> DEFINE u == AfterBar(trade, b)
  <2>1. /\ u \in TradeRecords /\ u.entry = trade.entry /\ u.held = trade.held + 1
        /\ u.remaining <= 0 => Finished(u)
        /\ u.remaining > 0 => Open(u) /\ u.held < TimeStopBars
    BY <1>1, BarFollowed
  <2>2. pc = "trade" /\ trade.entry + trade.held < last - 1
    BY <1>4 DEF FollowBar, BarsLeft
  <2>3. /\ trade.entry = index /\ trade.held < TimeStopBars
    BY <2>2 DEF WalkInv, Walked
  <2>4. /\ u.entry = index /\ u.held <= TimeStopBars /\ index + u.held < last
    BY <1>1, <2>1, <2>2, <2>3
  <2>5. CASE u.remaining <= 0 /\ EndTrade(u)
    BY <2>1, <2>2, <2>4, <2>5, EndKeeps
  <2>6. CASE u.remaining > 0 /\ trade' = u /\ UNCHANGED <<last, index, pc, trades>>
    <3>1. Typed' /\ Ended'
      BY <2>1, <2>6 DEF WalkInv, Typed, Ended
    <3>2. Walked'
      BY <2>1, <2>4, <2>6 DEF WalkInv, Walked, ExitBar
    <3> QED  BY <3>1, <3>2 DEF WalkInv
  <2> QED  BY <1>4, <2>5, <2>6 DEF FollowBar
<1>5. CASE EndOfData
  <2> DEFINE u == CloseRest(trade, trade.close, "END_OF_DATA")
  <2>1. pc = "trade" /\ EndTrade(u)
    BY <1>5 DEF EndOfData
  <2>2. PICK n \in 0..2 : /\ Running(trade, n) /\ -StopDistance <= trade.close
                          /\ trade.close <= Targets[n + 1]
    BY <1>1 DEF Open
  <2>3. trade.close \in Int
    BY <1>1
  <2>4. Finished(u) /\ u.entry = trade.entry /\ u.held = trade.held
    BY <1>1, <2>2, <2>3, RestCloses
  <2>5. /\ trade.entry = index /\ trade.held < TimeStopBars /\ index + trade.held < last
    BY <2>1 DEF WalkInv, Walked
  <2>6. u.entry = index /\ u.held <= TimeStopBars /\ index + u.held < last
    BY <1>1, <2>4, <2>5
  <2> QED  BY <2>1, <2>4, <2>6, EndKeeps
<1>6. CASE UNCHANGED vars
  BY <1>6 DEF vars, WalkInv, Typed, Ended, Walked, ExitBar
<1> QED  BY <1>2, <1>3, <1>4, <1>5, <1>6 DEF Next

LEMMA WalkHolds == Spec => []WalkInv
BY WalkStarts, WalkSteps, PTL DEF Spec

-----------------------------------------------------------------------------
(***************************************************************************)
(* What holds of the replay.                                               *)
(***************************************************************************)
\* The replay keeps trades whose fields are in their ranges: no fraction is closed that
\* was not open, and no trade is older than the data.
THEOREM ReplayTypeCorrect == Spec => []TypeOK
<1>1. WalkInv => TypeOK
  BY DEF WalkInv, Typed, Open, TypeOK
<1> QED  BY <1>1, WalkHolds, PTL

LEMMA EveryTrade ==
    ASSUME WalkInv, NEW t \in AllTrades
    PROVE  Open(t) \/ Finished(t)
<1>1. DOMAIN trades = 1..Len(trades)
  BY LenProperties DEF WalkInv, Typed
<1> QED  BY <1>1 DEF WalkInv, Typed, Ended, AllTrades

\* No trade loses more than one R or gains more than its whole ladder (_simulate_trade
\* looks at the stop before it books anything else).
THEOREM ResultsKeepToPlan == Spec => []ResultWithinPlan
<1>1. ASSUME WalkInv, NEW t \in AllTrades
      PROVE  -10 * StopDistance <= t.realized /\ t.realized <= LadderGain(3)
  <2>1. CASE Finished(t)
    BY <2>1 DEF Finished
  <2>2. CASE Open(t)
    <3>1. PICK n \in 0..2 : Running(t, n)
      BY <2>2 DEF Open
    <3>2. n = 0 \/ n = 1 \/ n = 2
      OBVIOUS
    <3>3. /\ Targets[1] * Fractions[1] \in Nat /\ Targets[2] * Fractions[2] \in Nat
          /\ Targets[3] * Fractions[3] \in Nat /\ StopDistance \in Nat
      BY Constants, LadderSums
    <3>4. t.realized = LadderGain(n)
      BY <3>1 DEF Running
    <3>5. 0 <= LadderGain(n) /\ LadderGain(n) <= LadderGain(3) /\ LadderGain(n) \in Nat
      BY <3>2, <3>3, LadderSums
    <3> QED  BY <3>3, <3>4, <3>5
  <2> QED  BY <1>1, <2>1, <2>2, EveryTrade
<1>2. WalkInv => ResultWithinPlan
  BY <1>1 DEF ResultWithinPlan
<1> QED  BY <1>2, WalkHolds, PTL

\* The targets are taken in order and once, the first of them moves the stop to the
\* entry, and an open trade has booked exactly what its targets bring.
THEOREM LadderIsTakenInOrder == Spec => []LadderTakenInOrder
<1>1. ASSUME WalkInv, NEW t \in AllTrades
      PROVE  LET n == Len(t.hits)
             IN  /\ n <= 3 /\ t.hits = SubSeq(<<1, 2, 3>>, 1, n)
                 /\ t.level = (IF n = 0 THEN -StopDistance ELSE 0)
                 /\ t.remaining > 0 => /\ t.realized = LadderGain(n)
                                       /\ t.remaining = 10 - LadderClosed(n)
  <2>1. CASE Finished(t)
    <3>1. PICK n \in Steps : t.hits = Prefix(n)
                             /\ t.level = (IF n = 0 THEN -StopDistance ELSE 0)
      BY <2>1 DEF Finished
    <3>2. Len(t.hits) = n /\ t.hits = SubSeq(<<1, 2, 3>>, 1, n)
      BY <3>1, PrefixFacts
    <3>4. n <= 3
      BY DEF Steps
    <3>3. ~ (t.remaining > 0)
      BY <2>1 DEF Finished
    <3> QED  BY <3>1, <3>2, <3>3, <3>4
  <2>2. CASE Open(t)
    <3>1. PICK n \in 0..2 : Running(t, n)
      BY <2>2 DEF Open
    <3>2. n \in Steps /\ n <= 3
      BY DEF Steps
    <3>3. Len(t.hits) = n /\ t.hits = SubSeq(<<1, 2, 3>>, 1, n)
      BY <3>1, <3>2, PrefixFacts DEF Running
    <3> QED  BY <3>1, <3>2, <3>3 DEF Running
  <2> QED  BY <1>1, <2>1, <2>2, EveryTrade
<1>2. WalkInv => LadderTakenInOrder
  BY <1>1 DEF LadderTakenInOrder
<1> QED  BY <1>2, WalkHolds, PTL

\* The exit reason of a trade agrees with its result.
THEOREM ReasonsFitResults == Spec => []ReasonFitsResult
<1>1. ASSUME WalkInv, NEW i \in DOMAIN trades
      PROVE  LET t == trades[i]
                 n == Len(t.hits)
             IN  /\ t.reason = "STOP_LOSS" => t.realized = -10 * StopDistance
                 /\ t.reason = "BREAKEVEN_STOP" => n > 0 /\ t.realized = LadderGain(n)
                 /\ t.reason = "TARGET" => t.realized = LadderGain(3)
                 /\ t.remaining = 0 /\ t.reason # "OPEN"
  <2> DEFINE t == trades[i]
  <2>1. Finished(t)
    <3>1. DOMAIN trades = 1..Len(trades)
      BY <1>1, LenProperties DEF WalkInv, Typed
    <3> QED  BY <1>1, <3>1 DEF WalkInv, Ended
  <2>2. PICK n \in Steps : t.hits = Prefix(n) /\ ReasonHolds(t, n)
    BY <2>1 DEF Finished
  <2>3. Len(t.hits) = n
    BY <2>2, PrefixFacts
  <2> QED  BY <2>1, <2>2, <2>3 DEF Finished, ReasonHolds
<1>2. WalkInv => ReasonFitsResult
  BY <1>1 DEF ReasonFitsResult
<1> QED  BY <1>2, WalkHolds, PTL

\* One position at a time: run_sleeve_b_replay goes on where a trade ended, and every
\* trade ends within the time stop and the data.
THEOREM OneTradeAtATime == Spec => []TradesDoNotOverlap
<1>1. ASSUME WalkInv
      PROVE  TradesDoNotOverlap
  <2>1. DOMAIN trades = 1..Len(trades)
    BY <1>1, LenProperties DEF WalkInv, Typed
  <2> QED  BY <1>1, <2>1 DEF WalkInv, Walked, TradesDoNotOverlap
<1> QED  BY <1>1, WalkHolds, PTL

-----------------------------------------------------------------------------
(***************************************************************************)
(* The summary: one pass with a running peak finds the deepest fall.       *)
(* Equity, Peak and Drawdown are recursive functions; that they exist, and *)
(* what they are, is shown by least counterexample.                        *)
(***************************************************************************)
LEMMA LeastNumber ==
    ASSUME NEW S, S \subseteq Nat, S # {}
    PROVE  \E m \in S : \A n \in S : m <= n
<1>1. PICK m \in S : \A n \in S : ~ (<<n, m>> \in OpToRel(<, Nat))
  BY NatLessThanWellFounded, WFMin
<1>2. \A n \in S : ~ (n < m)
  BY <1>1 DEF OpToRel
<1> QED  BY <1>2

\* f follows next from the value start, up to N.
Follows(f, start, next, N) ==
    f = [n \in 0..N |-> IF n = 0 THEN start ELSE next[n][f[n - 1]]]

LEMMA FollowerExists ==
    ASSUME NEW N \in Nat, NEW start \in Int, NEW next \in [1..N -> [Int -> Int]]
    PROVE  \E f \in [0..N -> Int] : Follows(f, start, next, N)
<1> DEFINE Bad == {n \in 0..N : ~ \E f \in [0..n -> Int] : Follows(f, start, next, n)}
<1> SUFFICES ASSUME Bad # {}
             PROVE  FALSE
  <2>1. N \in 0..N
    OBVIOUS
  <2> QED  BY <2>1
<1>1. PICK m \in Bad : \A n \in Bad : m <= n
  <2>1. Bad \subseteq Nat
    OBVIOUS
  <2> HIDE DEF Bad
  <2> QED  BY <2>1, LeastNumber
<1>2. m \in 0..N /\ ~ \E f \in [0..m -> Int] : Follows(f, start, next, m)
  OBVIOUS
<1>3. CASE m = 0
  <2> DEFINE f == [n \in 0..0 |-> start]
  <2>1. f \in [0..0 -> Int]
    OBVIOUS
  <2>2. f = [n \in 0..0 |-> IF n = 0 THEN start ELSE next[n][f[n - 1]]]
    OBVIOUS
  <2> HIDE DEF f
  <2> QED  BY <1>2, <1>3, <2>1, <2>2 DEF Follows
<1>4. CASE m # 0
  <2>1. m - 1 \in 0..N /\ ~ (m <= m - 1) /\ m \in 1..N
    BY <1>2, <1>4
  <2>2. m - 1 \notin Bad
    BY <1>1, <2>1
  <2>3. PICK g \in [0..(m - 1) -> Int] : Follows(g, start, next, m - 1)
    BY <2>1, <2>2
  <2> DEFINE f == [n \in 0..m |-> IF n = m THEN next[m][g[m - 1]] ELSE g[n]]
  <2>4. next[m][g[m - 1]] \in Int
    BY <2>1
  <2>5. f \in [0..m -> Int]
    <3>1. \A n \in 0..m : n # m => n \in 0..(m - 1)
      BY <2>1
    <3> QED  BY <2>4, <3>1
  <2>6. \A n \in 0..m : f[n] = (IF n = 0 THEN start ELSE next[n][f[n - 1]])
    <3> SUFFICES ASSUME NEW n \in 0..m
                 PROVE  f[n] = (IF n = 0 THEN start ELSE next[n][f[n - 1]])
      OBVIOUS
    <3>1. CASE n = m
      <4>1. m - 1 \in 0..m /\ m - 1 # m /\ n # 0
        BY <1>4, <2>1, <3>1
      <4> QED  BY <3>1, <4>1
    <3>2. CASE n # m /\ n = 0
      <4>1. g[0] = start
        BY <2>1, <2>3 DEF Follows
      <4> QED  BY <3>2, <4>1
    <3>3. CASE n # m /\ n # 0
      <4>1. n \in 0..(m - 1) /\ n - 1 \in 0..m /\ n - 1 # m
        BY <2>1, <3>3
      <4>2. g[n] = next[n][g[n - 1]]
        BY <2>3, <3>3, <4>1 DEF Follows
      <4> QED  BY <3>3, <4>1, <4>2
    <3> QED  BY <3>1, <3>2, <3>3
  <2>7. f = [n \in 0..m |-> f[n]]
    OBVIOUS
  <2> HIDE DEF f
  <2>8. Follows(f, start, next, m)
    BY <2>6, <2>7 DEF Follows
  <2> QED  BY <1>2, <2>5, <2>8
<1> QED  BY <1>3, <1>4

LEMMA StaysInt ==
    ASSUME NEW N \in Nat, NEW f, f[0] \in Int,
           \A n \in 1..N : f[n - 1] \in Int => f[n] \in Int
    PROVE  \A n \in 0..N : f[n] \in Int
<1> DEFINE Bad == {n \in 0..N : f[n] \notin Int}
<1> SUFFICES ASSUME Bad # {}
             PROVE  FALSE
  OBVIOUS
<1>1. PICK m \in Bad : \A n \in Bad : m <= n
  <2>1. Bad \subseteq Nat
    OBVIOUS
  <2> HIDE DEF Bad
  <2> QED  BY <2>1, LeastNumber
<1>2. m # 0
  OBVIOUS
<1>3. m - 1 \in 0..N /\ ~ (m <= m - 1) /\ m \in 1..N
  BY <1>2
<1> QED  BY <1>1, <1>3

\* The three recursions of the summary.
LEMMA Summary ==
    ASSUME trades \in Seq(TradeRecords)
    PROVE  LET N == Len(trades)
           IN  /\ N \in Nat
               /\ Equity \in [0..N -> Int] /\ Peak \in [0..N -> Int]
               /\ Drawdown \in [0..N -> Int]
               /\ Equity[0] = 0 /\ Peak[0] = 0 /\ Drawdown[0] = 0
               /\ \A n \in 1..N : /\ Peak[n] = Larger(Peak[n - 1], Equity[n])
                                  /\ Drawdown[n] = Lesser(Drawdown[n - 1], FallFromPeak(n))
<1> DEFINE N == Len(trades)
<1>1. N \in Nat
  BY LenProperties
<1>2. \A n \in 1..N : trades[n].realized \in Int
  <2>1. \A n \in 1..N : trades[n] \in TradeRecords
    BY LenProperties
  <2> QED  BY <2>1 DEF TradeRecords
<1>3. \A n \in 1..N : n \in 0..N
  BY <1>1
<1>4. /\ Equity \in [0..N -> Int] /\ Equity[0] = 0
      /\ \A n \in 1..N : Equity[n] = Equity[n - 1] + trades[n].realized
  <2> DEFINE body(f) == [n \in 0..N |-> IF n = 0 THEN 0 ELSE f[n - 1] + trades[n].realized]
             next    == [n \in 1..N |-> [x \in Int |-> x + trades[n].realized]]
  <2>1. \A n \in 1..N, x \in Int : x + trades[n].realized \in Int
    BY <1>2
  <2>2. next \in [1..N -> [Int -> Int]]
    BY <2>1
  <2>3. \A f \in [0..N -> Int] : Follows(f, 0, next, N) => f = body(f)
    <3> SUFFICES ASSUME NEW f \in [0..N -> Int], Follows(f, 0, next, N), NEW n \in 0..N, n # 0
                 PROVE  next[n][f[n - 1]] = f[n - 1] + trades[n].realized
      BY DEF Follows
    <3>1. n \in 1..N /\ n - 1 \in 0..N
      BY <1>1
    <3> QED  BY <3>1
  <2>4. \E f \in [0..N -> Int] : Follows(f, 0, next, N)
    <3> HIDE DEF next, N
    <3> QED  BY <1>1, <2>2, FollowerExists, 0 \in Int
  <2>5. \E f : f = body(f)
    BY <2>3, <2>4
  <2>6. Equity = CHOOSE f : f = body(f)
    BY DEF Equity
  <2>7. Equity = body(Equity)
    BY <2>5, <2>6
  <2>8. 0 \in 0..N /\ \A n \in 1..N : n \in 0..N /\ n # 0
    BY <1>1
  <2>9. /\ Equity[0] = 0
        /\ \A n \in 1..N : Equity[n] = Equity[n - 1] + trades[n].realized
    BY <2>7, <2>8
  <2>10. \A n \in 0..N : Equity[n] \in Int
    <3>1. \A n \in 1..N : Equity[n - 1] \in Int => Equity[n] \in Int
      BY <2>1, <2>9
    <3>2. Equity[0] \in Int
      BY <2>9
    <3> HIDE DEF N
    <3> QED  BY ONLY <1>1, <3>1, <3>2, StaysInt
  <2>11. Equity = [n \in 0..N |-> Equity[n]]
    BY <2>7
  <2> QED  BY <2>9, <2>10, <2>11
<1>5. /\ Peak \in [0..N -> Int] /\ Peak[0] = 0
      /\ \A n \in 1..N : Peak[n] = Larger(Peak[n - 1], Equity[n])
  <2> DEFINE body(f) == [n \in 0..N |-> IF n = 0 THEN 0 ELSE Larger(f[n - 1], Equity[n])]
             next    == [n \in 1..N |-> [x \in Int |-> Larger(x, Equity[n])]]
  <2>1. \A n \in 1..N, x \in Int : Larger(x, Equity[n]) \in Int
    BY <1>3, <1>4 DEF Larger
  <2>2. next \in [1..N -> [Int -> Int]]
    BY <2>1
  <2>3. \A f \in [0..N -> Int] : Follows(f, 0, next, N) => f = body(f)
    <3> SUFFICES ASSUME NEW f \in [0..N -> Int], Follows(f, 0, next, N), NEW n \in 0..N, n # 0
                 PROVE  next[n][f[n - 1]] = Larger(f[n - 1], Equity[n])
      BY DEF Follows
    <3>1. n \in 1..N /\ n - 1 \in 0..N
      BY <1>1
    <3> QED  BY <3>1
  <2>4. \E f \in [0..N -> Int] : Follows(f, 0, next, N)
    <3> HIDE DEF next, N
    <3> QED  BY <1>1, <2>2, FollowerExists, 0 \in Int
  <2>5. \E f : f = body(f)
    BY <2>3, <2>4
  <2>6. Peak = CHOOSE f : f = body(f)
    BY DEF Peak
  <2>7. Peak = body(Peak)
    BY <2>5, <2>6
  <2>8. 0 \in 0..N /\ \A n \in 1..N : n \in 0..N /\ n # 0
    BY <1>1
  <2>9. /\ Peak[0] = 0
        /\ \A n \in 1..N : Peak[n] = Larger(Peak[n - 1], Equity[n])
    BY <2>7, <2>8
  <2>10. \A n \in 0..N : Peak[n] \in Int
    <3>1. \A n \in 1..N : Peak[n - 1] \in Int => Peak[n] \in Int
      BY <2>1, <2>9
    <3>2. Peak[0] \in Int
      BY <2>9
    <3> HIDE DEF N
    <3> QED  BY ONLY <1>1, <3>1, <3>2, StaysInt
  <2>11. Peak = [n \in 0..N |-> Peak[n]]
    BY <2>7
  <2> QED  BY <2>9, <2>10, <2>11
<1>6. /\ Drawdown \in [0..N -> Int] /\ Drawdown[0] = 0
      /\ \A n \in 1..N : Drawdown[n] = Lesser(Drawdown[n - 1], FallFromPeak(n))
  <2> DEFINE body(f) == [n \in 0..N |-> IF n = 0 THEN 0 ELSE Lesser(f[n - 1], FallFromPeak(n))]
             next    == [n \in 1..N |-> [x \in Int |-> Lesser(x, FallFromPeak(n))]]
  <2>1. \A n \in 1..N, x \in Int : Lesser(x, FallFromPeak(n)) \in Int
    BY <1>3, <1>4, <1>5 DEF Lesser, FallFromPeak
  <2>2. next \in [1..N -> [Int -> Int]]
    BY <2>1
  <2>3. \A f \in [0..N -> Int] : Follows(f, 0, next, N) => f = body(f)
    <3> SUFFICES ASSUME NEW f \in [0..N -> Int], Follows(f, 0, next, N), NEW n \in 0..N, n # 0
                 PROVE  next[n][f[n - 1]] = Lesser(f[n - 1], FallFromPeak(n))
      BY DEF Follows
    <3>1. n \in 1..N /\ n - 1 \in 0..N
      BY <1>1
    <3> QED  BY <3>1
  <2>4. \E f \in [0..N -> Int] : Follows(f, 0, next, N)
    <3> HIDE DEF next, N
    <3> QED  BY <1>1, <2>2, FollowerExists, 0 \in Int
  <2>5. \E f : f = body(f)
    BY <2>3, <2>4
  <2>6. Drawdown = CHOOSE f : f = body(f)
    BY DEF Drawdown
  <2>7. Drawdown = body(Drawdown)
    BY <2>5, <2>6
  <2>8. 0 \in 0..N /\ \A n \in 1..N : n \in 0..N /\ n # 0
    BY <1>1
  <2>9. /\ Drawdown[0] = 0
        /\ \A n \in 1..N : Drawdown[n] = Lesser(Drawdown[n - 1], FallFromPeak(n))
    BY <2>7, <2>8
  <2>10. \A n \in 0..N : Drawdown[n] \in Int
    <3>1. \A n \in 1..N : Drawdown[n - 1] \in Int => Drawdown[n] \in Int
      BY <2>1, <2>9
    <3>2. Drawdown[0] \in Int
      BY <2>9
    <3> HIDE DEF N
    <3> QED  BY ONLY <1>1, <3>1, <3>2, StaysInt
  <2>11. Drawdown = [n \in 0..N |-> Drawdown[n]]
    BY <2>7
  <2> QED  BY <2>9, <2>10, <2>11
<1> QED  BY <1>1, <1>4, <1>5, <1>6

LEMMA FallsFurther ==
    \A low, high, before, now \in Int :
        now <= before /\ before <= low - high => now <= low - high
OBVIOUS

\* A running peak is the highest point so far, and the least distance below it the
\* deepest fall so far.
LEMMA OnePassIsEnough ==
    ASSUME NEW N \in Nat, NEW e \in [0..N -> Int], NEW p \in [0..N -> Int],
           NEW d \in [0..N -> Int],
           p[0] = e[0], d[0] = 0,
           \A n \in 1..N : /\ p[n] = Larger(p[n - 1], e[n])
                           /\ d[n] = Lesser(d[n - 1], e[n] - p[n])
    PROVE  \A n \in 0..N :
              /\ \E i, j \in 0..n : i <= j /\ d[n] = e[j] - e[i]
              /\ \A i, j \in 0..n : i <= j => d[n] <= e[j] - e[i]
<1> DEFINE Highest(n) == /\ \E i \in 0..n : p[n] = e[i]
                         /\ \A i \in 0..n : e[i] <= p[n]
           Deepest(n) == /\ \E i, j \in 0..n : i <= j /\ d[n] = e[j] - e[i]
                         /\ \A i, j \in 0..n : i <= j => d[n] <= e[j] - e[i]
           Bad == {n \in 0..N : ~ (Highest(n) /\ Deepest(n))}
<1> SUFFICES ASSUME Bad # {}
             PROVE  FALSE
  OBVIOUS
<1>1. PICK m \in Bad : \A n \in Bad : m <= n
  <2>1. Bad \subseteq Nat
    OBVIOUS
  <2> HIDE DEF Bad
  <2> QED  BY <2>1, LeastNumber
<1>2. m \in 0..N /\ ~ (Highest(m) /\ Deepest(m))
  OBVIOUS
<1>3. CASE m = 0
  <2>1. \A i \in 0..0 : i = 0
    OBVIOUS
  <2>2. 0 \in 0..0 /\ e[0] \in Int
    OBVIOUS
  <2>3. Highest(0)
    BY <2>1, <2>2
  <2>4. Deepest(0)
    <3>1. 0 <= 0 /\ d[0] = e[0] - e[0]
      BY <2>2
    <3>2. \A i, j \in 0..0 : d[0] <= e[j] - e[i]
      BY <2>1, <2>2
    <3> QED  BY <2>2, <3>1, <3>2
  <2> QED  BY <1>2, <1>3, <2>3, <2>4
<1>4. CASE m # 0
  <2> DEFINE k == m - 1
  <2>1. k \in 0..N /\ m \in 1..N /\ ~ (m <= k) /\ k \in Nat /\ m = k + 1
    BY <1>2, <1>4
  <2>2. Highest(k) /\ Deepest(k)
    BY <1>1, <2>1
  <2>3. p[m] = Larger(p[k], e[m]) /\ d[m] = Lesser(d[k], e[m] - p[m])
    BY <2>1
  <2>4. /\ p[k] \in Int /\ d[k] \in Int /\ p[m] \in Int /\ d[m] \in Int
        /\ \A i \in 0..m : e[i] \in Int
    <3>1. m \in 0..N /\ \A i \in 0..m : i \in 0..N
      BY <2>1
    <3> HIDE DEF k
    <3> QED  BY <2>1, <3>1
  <2>5. \A i \in 0..m : i \in 0..k \/ i = m
    BY <2>1
  <2>6. m \in 0..m /\ \A i \in 0..k : i \in 0..m /\ i <= m
    BY <2>1
  <2> HIDE DEF k
  <2>7. Highest(m)
    <3>1. p[k] <= p[m] /\ e[m] <= p[m] /\ (p[m] = p[k] \/ p[m] = e[m])
      BY <2>3, <2>4, <2>6 DEF Larger
    <3>2. \E i \in 0..m : p[m] = e[i]
      BY <2>2, <2>6, <3>1
    <3>3. ASSUME NEW i \in 0..m
          PROVE  e[i] <= p[m]
      <4>1. CASE i \in 0..k
        <5>1. e[i] <= p[k] /\ e[i] \in Int
          BY <2>2, <2>4, <4>1
        <5>2. e[i] \in Int /\ p[k] \in Int /\ p[m] \in Int
          BY <2>4
        <5>3. p[k] <= p[m]
          BY <3>1
        <5> QED  BY ONLY <5>1, <5>2, <5>3
      <4>2. CASE i = m
        BY <3>1, <4>2
      <4> QED  BY <2>5, <4>1, <4>2
    <3> QED  BY <3>2, <3>3
  <2>8. /\ d[m] <= d[k] /\ d[m] <= e[m] - p[m]
        /\ d[m] = d[k] \/ d[m] = e[m] - p[m]
    <3> DEFINE fall == e[m] - p[m]
    <3>1. fall \in Int /\ d[m] = Lesser(d[k], fall)
      BY <2>3, <2>4, <2>6
    <3> HIDE DEF fall
    <3>2. d[m] <= d[k] /\ d[m] <= fall /\ (d[m] = d[k] \/ d[m] = fall)
      BY <2>4, <3>1 DEF Lesser
    <3> QED  BY <3>2 DEF fall
  <2>9. \E i, j \in 0..m : i <= j /\ d[m] = e[j] - e[i]
    <3>1. CASE d[m] = d[k]
      BY <2>2, <2>6, <3>1
    <3>2. CASE d[m] = e[m] - p[m]
      <4>1. PICK i \in 0..m : p[m] = e[i]
        BY <2>7
      <4>2. i <= m
        BY <2>1
      <4> QED  BY <2>6, <3>2, <4>1, <4>2
    <3> QED  BY <2>8, <3>1, <3>2
  <2>10. ASSUME NEW i \in 0..m, NEW j \in 0..m, i <= j
         PROVE  d[m] <= e[j] - e[i]
    <3>1. CASE j = m
      <4>1. e[i] <= p[m]
        BY <2>7
      <4> QED  BY <2>4, <2>8, <3>1, <4>1
    <3>2. CASE j # m
      <4>1. i \in 0..k /\ j \in 0..k
        BY <2>1, <2>10, <3>2
      <4>2. d[k] <= e[j] - e[i]
        BY <2>2, <2>10, <4>1
      <4>3. e[i] \in Int /\ e[j] \in Int /\ d[k] \in Int /\ d[m] \in Int
        BY <2>4
      <4>4. d[m] <= d[k]
        BY <2>8
      <4> QED  BY <4>2, <4>3, <4>4, FallsFurther
    <3> QED  BY <3>1, <3>2
  <2> QED  BY <1>2, <2>7, <2>9, <2>10
<1> QED  BY <1>3, <1>4

\* max_drawdown of _summarize, kept in one pass, is the deepest fall of the equity from
\* any earlier point, the start included, for every sequence of trades.
THEOREM DrawdownIsTheWorstFall == Spec => []DrawdownIsWorstFall
<1>1. ASSUME WalkInv
      PROVE  DrawdownIsWorstFall
  <2> DEFINE N    == Len(trades)
             fell == {Equity[q[2]] - Equity[q[1]] : q \in {r \in (0..N) \X (0..N) : r[1] <= r[2]}}
  <2>1. trades \in Seq(TradeRecords)
    BY <1>1 DEF WalkInv, Typed
  <2>2. /\ N \in Nat
        /\ Equity \in [0..N -> Int] /\ Peak \in [0..N -> Int] /\ Drawdown \in [0..N -> Int]
        /\ Equity[0] = 0 /\ Peak[0] = 0 /\ Drawdown[0] = 0
        /\ \A n \in 1..N : /\ Peak[n] = Larger(Peak[n - 1], Equity[n])
                           /\ Drawdown[n] = Lesser(Drawdown[n - 1], Equity[n] - Peak[n])
    BY <2>1, Summary DEF FallFromPeak
  <2>3. N \in 0..N
    BY <2>2
  <2>4. /\ \E i, j \in 0..N : i <= j /\ Drawdown[N] = Equity[j] - Equity[i]
        /\ \A i, j \in 0..N : i <= j => Drawdown[N] <= Equity[j] - Equity[i]
    <3> HIDE DEF N
    <3>1. Peak[0] = Equity[0]
      BY <2>2
    <3>2. \A n \in 0..N :
              /\ \E i, j \in 0..n : i <= j /\ Drawdown[n] = Equity[j] - Equity[i]
              /\ \A i, j \in 0..n : i <= j => Drawdown[n] <= Equity[j] - Equity[i]
      BY <2>2, <3>1, OnePassIsEnough
    <3> QED  BY <2>3, <3>2
  <2>5. Drawdown[N] \in fell
    <3>1. PICK i \in 0..N, j \in 0..N : i <= j /\ Drawdown[N] = Equity[j] - Equity[i]
      BY <2>4
    <3> DEFINE q == <<i, j>>
    <3>2. q \in {r \in (0..N) \X (0..N) : r[1] <= r[2]} /\ q[1] = i /\ q[2] = j
      BY <3>1
    <3> HIDE DEF q
    <3> QED  BY <3>1, <3>2
  <2>6. ASSUME NEW f \in fell
        PROVE  Drawdown[N] <= f
    <3>1. PICK q \in {r \in (0..N) \X (0..N) : r[1] <= r[2]} : f = Equity[q[2]] - Equity[q[1]]
      OBVIOUS
    <3>2. q[1] \in 0..N /\ q[2] \in 0..N /\ q[1] <= q[2]
      OBVIOUS
    <3> QED  BY <2>4, <3>1, <3>2
  <2> QED  BY <2>5, <2>6 DEF DrawdownIsWorstFall
<1> QED  BY <1>1, WalkHolds, PTL

=============================================================================
