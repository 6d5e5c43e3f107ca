------------------------------ MODULE DeskProofs ------------------------------
(***************************************************************************)
(* Theorems about the parts of the desk: orders on the in-memory adapter   *)
(* (PaperDesk) for any ids, quantity and waiting time, the ledger with its *)
(* circuit breakers (SleeveLedger) for any figures, and squeeze risk       *)
(* (BorrowStress) for any readings.                                        *)
(***************************************************************************)
EXTENDS PaperDesk, SleeveLedger, BorrowStress, TLAPS

-----------------------------------------------------------------------------
(***************************************************************************)
(* Orders on the in-memory adapter.                                        *)
(***************************************************************************)
LEMMA RecordsOfTheDesk ==
    /\ None \notin OrderRecords
    /\ [status |-> "CREATED", filled |-> 0] \in OrderRecords
    /\ [status |-> "SUBMITTED", filled |-> 0] \in OrderRecords
BY DeskAssumption DEF DeskAssumption, OrderRecords, OrderStatuses

LEMMA StatusAfterFillType ==
    ASSUME NEW status \in OrderStatuses, NEW q \in 0..Qty
    PROVE  StatusAfterFill(status, q) \in OrderStatuses
BY DEF StatusAfterFill, FilledStatus, OrderStatuses

LEMMA DeskTypeInit == Init => TypeOK
BY DEF Init, TypeOK

LEMMA DeskTypeNext == TypeOK /\ [Next]_vars => TypeOK'
<1> SUFFICES ASSUME TypeOK, [Next]_vars PROVE TypeOK'
  OBVIOUS
<1>1. CASE UNCHANGED vars
  BY <1>1 DEF vars, TypeOK
<1>2. ASSUME NEW i \in Ids, Route(i) PROVE TypeOK'
  BY <1>2, RecordsOfTheDesk DEF Route, TypeOK
<1>3. ASSUME NEW i \in Ids, NEW status \in OrderStatuses, Transition(i, status)
      PROVE  TypeOK'
  <2>1. records[i] \in OrderRecords
    BY <1>3 DEF Transition, TypeOK
  <2>2. [records[i] EXCEPT !.status = status] \in OrderRecords
    BY <2>1 DEF OrderRecords
  <2> QED
    BY <1>3, <2>2, RecordsOfTheDesk DEF Transition, TypeOK
<1>4. ASSUME NEW i \in Ids, NEW q \in 0..Qty, ApplyFill(i, q) PROVE TypeOK'
  <2>1. records[i] \in OrderRecords
    BY <1>4 DEF ApplyFill, TypeOK
  <2>2. [status |-> StatusAfterFill(records[i].status, q), filled |-> q] \in OrderRecords
    BY <2>1, StatusAfterFillType DEF OrderRecords
  <2> QED
    BY <1>4, <2>2, RecordsOfTheDesk DEF ApplyFill, TypeOK
<1>5. ASSUME NEW i \in Ids, Cancel(i) PROVE TypeOK'
  BY <1>5 DEF Cancel, TypeOK
<1>6. ASSUME NEW i \in Ids, Repair(i) PROVE TypeOK'
  BY <1>6 DEF Repair, TypeOK
<1>7. CASE Audit \/ ExitSafeMode
  BY <1>7 DEF Audit, ExitSafeMode, TypeOK
<1>8. CASE Restart
  BY <1>8 DEF Restart, TypeOK
<1> QED
  BY <1>1, <1>2, <1>3, <1>4, <1>5, <1>6, <1>7, <1>8 DEF Next, CancelRemainder

\* Statuses, quantities, rows and the adapter's orders keep their types, and the
\* adapter holds only orders the caller has a record of (models.py, binance_testnet.py).
THEOREM DeskTypeCorrect == Spec => []TypeOK
BY DeskTypeInit, DeskTypeNext, PTL DEF Spec

LEMMA FillAgreesAfterFill ==
    ASSUME NEW status \in OrderStatuses, NEW q \in 0..Qty, ~ FillRaises(status, q)
    PROVE  FillAgrees([status |-> StatusAfterFill(status, q), filled |-> q])
BY DEF StatusAfterFill, FilledStatus, FillAgrees

\* FillsAgreeUnlessDisputed is inductive over typed states.
LEMMA FillsAgreeNext ==
    TypeOK /\ FillsAgreeUnlessDisputed /\ [Next]_vars => FillsAgreeUnlessDisputed'
<1> SUFFICES ASSUME TypeOK, FillsAgreeUnlessDisputed, [Next]_vars,
                    NEW j \in Ids, j \notin disputed'
             PROVE  /\ records'[j] # None => FillAgrees(records'[j])
                    /\ rows'[j] # None => FillAgrees(rows'[j])
  BY DEF FillsAgreeUnlessDisputed
<1>a. j \notin disputed =>
          /\ records[j] # None => FillAgrees(records[j])
          /\ rows[j] # None => FillAgrees(rows[j])
  BY DEF FillsAgreeUnlessDisputed
<1> DEFINE Goal == /\ records'[j] # None => FillAgrees(records'[j])
                   /\ rows'[j] # None => FillAgrees(rows'[j])
<1>1. CASE UNCHANGED <<records, rows, disputed>>
  BY <1>1, <1>a
<1>2. ASSUME NEW i \in Ids, Route(i) PROVE Goal
  <2>1. /\ FillAgrees([status |-> "CREATED", filled |-> 0])
        /\ FillAgrees([status |-> "SUBMITTED", filled |-> 0])
    BY DeskAssumption DEF DeskAssumption, FillAgrees
  <2>2. CASE i = j
    BY <1>2, <2>1, <2>2 DEF Route, TypeOK
  <2>3. CASE i # j
    BY <1>2, <1>a, <2>3 DEF Route, TypeOK
  <2> QED
    BY <2>2, <2>3
<1>3. ASSUME NEW i \in Ids, NEW status \in OrderStatuses, Transition(i, status)
      PROVE  Goal
  <2>1. CASE i = j
    <3>1. /\ records[j] \in OrderRecords /\ records[j] # None
          /\ j \notin disputed /\ rows' = rows /\ status # "FILLED"
      BY <1>3, <2>1 DEF Transition, TypeOK
    <3>2. records'[j].status = status /\ records'[j].filled = records[j].filled
      BY <1>3, <2>1, <3>1 DEF Transition, TypeOK, OrderRecords
    <3>3. records[j].status # "FILLED" /\ status # "CREATED"
      <4>1. status \in AllowedTransitions[records[j].status]
        BY <1>3, <2>1 DEF Transition
      <4>2. records[j].status \in OrderStatuses
        BY <3>1 DEF OrderRecords
      <4> QED
        BY <4>1, <4>2 DEF AllowedTransitions, OrderStatuses
    <3>4. FillAgrees(records'[j])
      BY <1>a, <3>1, <3>2, <3>3 DEF FillAgrees
    <3> QED
      BY <1>a, <3>1, <3>4
  <2>2. CASE i # j
    BY <1>3, <1>a, <2>2 DEF Transition, TypeOK
  <2> QED
    BY <2>1, <2>2
<1>4. ASSUME NEW i \in Ids, NEW q \in 0..Qty, ApplyFill(i, q) PROVE Goal
  <2>1. CASE i = j
    <3>1. records[j] \in OrderRecords /\ j \notin disputed /\ rows' = rows
          /\ records[j] # None /\ ~ FillRaises(records[j].status, q)
      BY <1>4, <2>1 DEF ApplyFill, TypeOK
    <3>2. records'[j] = [status |-> StatusAfterFill(records[j].status, q), filled |-> q]
      BY <1>4, <2>1 DEF ApplyFill, TypeOK
    <3>3. records[j].status \in OrderStatuses
      BY <3>1 DEF OrderRecords
    <3>4. FillAgrees(records'[j])
      BY <3>1, <3>2, <3>3, FillAgreesAfterFill
    <3> QED
      BY <1>a, <3>1, <3>4
  <2>2. CASE i # j
    BY <1>4, <1>a, <2>2 DEF ApplyFill, TypeOK
  <2> QED
    BY <2>1, <2>2
<1>5. ASSUME NEW i \in Ids, Cancel(i) PROVE Goal
  BY <1>1, <1>5 DEF Cancel
<1>6. ASSUME NEW i \in Ids, Repair(i) PROVE Goal
  <2>1. i \in held => records[i] # None
    BY <1>6 DEF TypeOK
  <2>2. CASE i = j
    BY <1>6, <1>a, <2>1, <2>2 DEF Repair, TypeOK
  <2>3. CASE i # j
    BY <1>6, <1>a, <2>3 DEF Repair, TypeOK
  <2> QED
    BY <2>2, <2>3
<1>7. CASE Audit \/ ExitSafeMode
  BY <1>1, <1>7 DEF Audit, ExitSafeMode
<1>8. CASE Restart
  BY <1>8, <1>a DEF Restart
<1> QED
  BY <1>1, <1>2, <1>3, <1>4, <1>5, <1>6, <1>7, <1>8 DEF Next, CancelRemainder, vars

LEMMA FillsAgreeInit == Init => FillsAgreeUnlessDisputed
BY DEF Init, FillsAgreeUnlessDisputed

\* Whatever order fills, transitions, repairs and restarts come in, a record and its row,
\* the one a restart finds too, are FILLED exactly when their quantity is, unless an
\* apply_fill raised on the order or transition() was told to fill it
\* (order_state_machine.py:38-65).
THEOREM FillsAgree == Spec => []FillsAgreeUnlessDisputed
BY DeskTypeInit, DeskTypeNext, FillsAgreeInit, FillsAgreeNext, PTL DEF Spec

\* should_cancel_entry_remainder, decided by quantities, fits the statuses: after the
\* wait every order the adapter holds goes, but a FILLED one (order_state_machine.py:65-80).
THEOREM RemaindersGo == Spec => []RemainderGoes
<1>1. TypeOK /\ FillsAgreeUnlessDisputed => RemainderGoes
  <2> SUFFICES ASSUME TypeOK, FillsAgreeUnlessDisputed, NEW i \in held \ disputed,
                      NEW elapsed \in 0..(MaxWait + 1)
               PROVE  ShouldCancel(records[i], elapsed)
                          <=> elapsed >= MaxWait /\ records[i].status # "FILLED"
    BY DEF RemainderGoes
  <2>1. i \in Ids /\ records[i] \in OrderRecords /\ records[i] # None
    BY DEF TypeOK
  <2>2. FillAgrees(records[i])
    BY <2>1 DEF FillsAgreeUnlessDisputed
  <2>3. records[i].filled \in 0..Qty
    BY <2>1 DEF OrderRecords
  <2>4. records[i].filled < Qty <=> records[i].status # "FILLED"
    BY <2>2, <2>3, DeskAssumption DEF FillAgrees, DeskAssumption
  <2>5. 2 * records[i].filled < Qty => records[i].filled < Qty
    BY <2>3, DeskAssumption DEF DeskAssumption
  <2> QED
    BY <2>4, <2>5 DEF ShouldCancel
<1> QED
  BY <1>1, DeskTypeCorrect, FillsAgree, PTL

\* A consistent audit of the in-memory adapter, which lists every order it holds, means
\* that these are live (reconciliation.py:38-67, binance_testnet.py:45).
THEOREM AuditsTellLive == Spec => []AuditTellsLive
<1>1. TypeOK /\ FillsAgreeUnlessDisputed => AuditTellsLive
  <2> SUFFICES ASSUME TypeOK, FillsAgreeUnlessDisputed, Consistent,
                      NEW i \in held, rows[i].status # "UNKNOWN"
               PROVE  /\ records[i].status \in OpenStatuses
                      /\ i \notin disputed => records[i].filled < Qty
    BY DEF AuditTellsLive
  <2>1. i \in Ids /\ records[i] \in OrderRecords /\ records[i] # None
    BY DEF TypeOK
  <2>2. rows[i].status \in OpenStatuses
        /\ ~ MeaningfulMismatch(rows[i].status, records[i].status)
    BY DEF Consistent, OpenIds
  <2>3. records[i].status \in OrderStatuses /\ records[i].filled \in 0..Qty
    BY <2>1 DEF OrderRecords
  <2>4. records[i].status \in OpenStatuses
    BY <2>2, <2>3
    DEF MeaningfulMismatch, OpenStatuses, TerminalStatuses, OrderStatuses
  <2>5. ASSUME i \notin disputed PROVE records[i].filled < Qty
    <3>1. records[i].status # "FILLED"
      BY <2>4 DEF OpenStatuses
    <3>2. FillAgrees(records[i])
      BY <2>1, <2>5 DEF FillsAgreeUnlessDisputed
    <3> QED
      BY <2>3, <3>1, <3>2, DeskAssumption DEF FillAgrees, DeskAssumption
  <2> QED
    BY <2>4, <2>5
<1> QED
  BY <1>1, DeskTypeCorrect, FillsAgree, PTL

-----------------------------------------------------------------------------
(***************************************************************************)
(* The ledger and its circuit breakers.                                    *)
(***************************************************************************)
SleeveFigures == [daily: Int, weekly: Int, monthly: Int]

\* Every figure, in the ledger and in the snapshot, is a number.
LedgerTyped ==
    /\ ledger \in [Sleeves -> SleeveFigures]
    /\ account.sleeves \in [Sleeves -> SleeveFigures]

\* The decision is that on the sleeves of the snapshot and on their total.
DecisionIsSnapshots ==
    /\ account.daily = account.sleeves["A"].daily + account.sleeves["B"].daily
    /\ decision = Evaluate(account.daily, account.sleeves)

LedgerInv == LedgerTyped /\ DecisionIsSnapshots

LEMMA LedgerInvInit == LedgerInit => LedgerInv
BY DEF LedgerInit, LedgerInv, LedgerTyped, SleeveFigures, Sleeves, DecisionIsSnapshots,
       Snapshot

LEMMA LedgerInvNext == LedgerInv /\ [LedgerNext]_ledgerVars => LedgerInv'
<1> SUFFICES ASSUME LedgerInv, [LedgerNext]_ledgerVars PROVE LedgerInv'
  OBVIOUS
<1> USE DEF LedgerInv
<1>1. CASE UNCHANGED ledgerVars
  BY <1>1 DEF ledgerVars, LedgerTyped, DecisionIsSnapshots
<1>2. ASSUME NEW s \in Sleeves, NEW figures \in Figures, UpdateSleeve(s, figures)
      PROVE  LedgerInv'
  <2>1. figures \in SleeveFigures
    BY LedgerAssumption DEF LedgerAssumption, SleeveFigures
  <2> QED
    BY <1>2, <2>1 DEF UpdateSleeve, LedgerTyped, DecisionIsSnapshots
<1>3. CASE TakeSnapshot
  BY <1>3 DEF TakeSnapshot, Snapshot, LedgerTyped, DecisionIsSnapshots
<1> QED
  BY <1>1, <1>2, <1>3 DEF LedgerNext

\* Deeper losses of a sleeve keep its own actions, whatever the account's total is; and
\* a deeper total keeps the account's.
LEMMA EvaluateFollowsLosses ==
    ASSUME NEW old \in [Sleeves -> SleeveFigures], NEW new \in [Sleeves -> SleeveFigures],
           NEW m \in Int, NEW n \in Int
    PROVE  /\ n <= m => Evaluate(m, old).global \subseteq Evaluate(n, new).global
           /\ \A s \in Sleeves :
                  NoBetter(old[s], new[s]) => Evaluate(m, old)[s] \subseteq Evaluate(n, new)[s]
<1>1. /\ old["A"].daily \in Int /\ old["A"].monthly \in Int /\ old["B"].weekly \in Int
      /\ new["A"].daily \in Int /\ new["A"].monthly \in Int /\ new["B"].weekly \in Int
  BY DEF Sleeves, SleeveFigures
<1>2. n <= m => Evaluate(m, old).global \subseteq Evaluate(n, new).global
  BY DEF Evaluate, StopReasons
<1>3. NoBetter(old["A"], new["A"]) => Evaluate(m, old).A \subseteq Evaluate(n, new).A
  BY <1>1 DEF Evaluate, StopReasons, NoBetter
<1>4. NoBetter(old["B"], new["B"]) => Evaluate(m, old).B \subseteq Evaluate(n, new).B
  BY <1>1 DEF Evaluate, StopReasons, NoBetter
<1>5. \A s \in Sleeves :
          NoBetter(old[s], new[s]) => Evaluate(m, old)[s] \subseteq Evaluate(n, new)[s]
  BY <1>3, <1>4 DEF Sleeves, Evaluate
<1> QED
  BY <1>2, <1>5

\* From one snapshot to the next, deeper losses release no action of the account or of a
\* sleeve, and no sleeve's actions depend on the other (circuit_breakers.py:31-64).
THEOREM StopsNeverEase == LedgerSpec => StopsFollowLosses
<1> DEFINE Step ==
        LET old == account.sleeves
            new == account'.sleeves
        IN  /\ (\A s \in Sleeves : NoBetter(old[s], new[s])) =>
                   decision.global \subseteq decision'.global
            /\ \A s \in Sleeves :
                   NoBetter(old[s], new[s]) => decision[s] \subseteq decision'[s]
<1>1. LedgerInv /\ LedgerInv' => Step
  <2> SUFFICES ASSUME LedgerInv, LedgerInv' PROVE Step
    OBVIOUS
  <2> DEFINE old == account.sleeves
             new == account'.sleeves
  <2>1. /\ old \in [Sleeves -> SleeveFigures]
        /\ new \in [Sleeves -> SleeveFigures]
    BY DEF LedgerInv, LedgerTyped
  <2>2. /\ account.daily = old["A"].daily + old["B"].daily
        /\ account'.daily = new["A"].daily + new["B"].daily
        /\ decision = Evaluate(account.daily, old)
        /\ decision' = Evaluate(account'.daily, new)
    BY DEF LedgerInv, DecisionIsSnapshots
  <2>3. /\ old["A"].daily \in Int /\ old["B"].daily \in Int
        /\ new["A"].daily \in Int /\ new["B"].daily \in Int
    BY <2>1 DEF Sleeves, SleeveFigures
  <2>4. account.daily \in Int /\ account'.daily \in Int
    BY <2>2, <2>3
  <2>5. (\A s \in Sleeves : NoBetter(old[s], new[s])) => account'.daily <= account.daily
    BY <2>2, <2>3 DEF NoBetter, Sleeves
  <2> HIDE DEF old, new
  <2> QED
    BY <2>1, <2>2, <2>4, <2>5, EvaluateFollowsLosses DEF old, new
<1>2. LedgerInv /\ LedgerInv' /\ [LedgerNext]_ledgerVars => [Step]_ledgerVars
  BY <1>1
<1> HIDE DEF Step
<1>3. LedgerSpec => [][Step]_ledgerVars
  BY <1>2, LedgerInvInit, LedgerInvNext, PTL DEF LedgerSpec
<1> QED
  BY <1>3, PTL DEF StopsFollowLosses, Step

-----------------------------------------------------------------------------
(***************************************************************************)
(* Squeeze risk.                                                           *)
(***************************************************************************)
Readings ==
    [supported: BOOLEAN \cup {Unknown}, usd: Amounts \cup {Unknown},
     base: {"unknown", "some", "empty", "zero"}, rate: Rates \cup {Unknown},
     confidence: {"low", "medium", "high"}, planned: Notionals, funding: Fundings]

LEMMA ReadingTypeInit == BorrowInit => reading \in Readings
BY BorrowAssumption DEF BorrowInit, BorrowAssumption, Readings

LEMMA ReadingTypeNext ==
    reading \in Readings /\ [BorrowNext]_reading => reading' \in Readings
<1> SUFFICES ASSUME reading \in Readings, NEW field \in DOMAIN Values,
                    NEW value \in Values[field], Refresh(field, value)
             PROVE  reading' \in Readings
  BY DEF BorrowNext
<1>1. CASE field = "supported"
  BY <1>1 DEF Refresh, Values, Readings
<1>2. CASE field = "usd"
  BY <1>2 DEF Refresh, Values, Readings
<1>3. CASE field = "base"
  BY <1>3 DEF Refresh, Values, Readings
<1>4. CASE field = "rate"
  BY <1>4 DEF Refresh, Values, Readings
<1>5. CASE field = "confidence"
  BY <1>5 DEF Refresh, Values, Readings
<1>6. CASE field = "planned"
  BY <1>6 DEF Refresh, Values, Readings
<1>7. CASE field = "funding"
  BY <1>7 DEF Refresh, Values, Readings
<1> QED
  BY <1>1, <1>2, <1>3, <1>4, <1>5, <1>6, <1>7 DEF Values

\* The numbers among the fields of a reading.
LEMMA ReadingFields ==
    ASSUME NEW r \in Readings
    PROVE  /\ r.usd = Unknown \/ r.usd \in Nat
           /\ r.rate = Unknown \/ r.rate \in Nat
           /\ r.planned \in Nat /\ r.funding \in Int
           /\ r.base \in {"unknown", "some", "empty", "zero"}
BY BorrowAssumption DEF BorrowAssumption, Readings

LEMMA ScoreParts ==
    ASSUME NEW r \in Readings
    PROVE  /\ AmountScore(r) \in Nat /\ ZeroScore(r) \in Nat /\ RateScore(r) \in Nat
           /\ Score(r) \in Nat
<1>1. AmountScore(r) \in Nat
  BY DEF AmountScore, CoverScore
<1>2. ZeroScore(r) \in Nat
  BY ReadingFields DEF ZeroScore
<1>3. RateScore(r) \in Nat
  BY DEF RateScore
<1> QED
  BY <1>1, <1>2, <1>3 DEF Score

\* The amount that can be borrowed falls, or the position to be covered grows.
LEMMA AmountScoreGrows ==
    ASSUME NEW old \in Readings, NEW new \in Readings,
           \/ new.planned = old.planned /\ new.usd # Unknown
                  /\ (old.usd = Unknown \/ new.usd <= old.usd)
           \/ new.usd = old.usd /\ old.planned \in 1..new.planned
    PROVE  AmountScore(old) <= AmountScore(new)
BY ReadingFields, BorrowAssumption DEF AmountScore, CoverScore, BorrowAssumption

\* The score is the sum of its parts.
LEMMA ScoreGrows ==
    ASSUME NEW old \in Readings, NEW new \in Readings, new.supported = old.supported,
           AmountScore(old) <= AmountScore(new), ZeroScore(old) <= ZeroScore(new),
           RateScore(old) <= RateScore(new)
    PROVE  Score(old) <= Score(new)
<1>1. /\ AmountScore(old) \in Nat /\ ZeroScore(old) \in Nat /\ RateScore(old) \in Nat
      /\ AmountScore(new) \in Nat /\ ZeroScore(new) \in Nat /\ RateScore(new) \in Nat
  BY ScoreParts
<1> DEFINE base == IF old.supported = FALSE THEN 3 ELSE 0
<1>2. /\ Score(old) = base + AmountScore(old) + ZeroScore(old) + RateScore(old)
      /\ Score(new) = base + AmountScore(new) + ZeroScore(new) + RateScore(new)
  BY DEF Score
<1>3. base \in Nat
  OBVIOUS
<1> HIDE DEF base
<1> QED
  BY <1>1, <1>2, <1>3

\* The cascade of squeeze_risk_level goes up with the score and with doubt.
LEMMA LevelGrows ==
    ASSUME NEW old \in Readings, NEW new \in Readings,
           Score(old) <= Score(new), LowConfidence(old) => LowConfidence(new),
           new.funding = old.funding
    PROVE  Level(old) <= Level(new)
BY ScoreParts, ReadingFields DEF Level

\* And with funding, where the score is three at least or the data is in doubt.
LEMMA LevelGrowsWithFunding ==
    ASSUME NEW old \in Readings, NEW new \in Readings,
           Score(old) = Score(new), LowConfidence(old) <=> LowConfidence(new),
           new.funding <= old.funding, Score(old) >= 3 \/ LowConfidence(old)
    PROVE  Level(old) <= Level(new)
BY ScoreParts, ReadingFields DEF Level

LEMMA WorseIsNoSafer ==
    ASSUME NEW old \in Readings, NEW new \in Readings, Worsens(old, new)
    PROVE  Level(old) <= Level(new)
<1> USE ScoreParts, ReadingFields
<1>1. CASE new.supported = FALSE /\ new = [old EXCEPT !.supported = FALSE]
  <2>1. /\ new.usd = old.usd /\ new.planned = old.planned /\ new.base = old.base
        /\ new.rate = old.rate /\ new.confidence = old.confidence
        /\ new.funding = old.funding
    BY <1>1 DEF Readings
  <2>2. Score(old) <= Score(new)
    BY <1>1, <2>1 DEF Score, AmountScore, CoverScore, ZeroScore, RateScore
  <2> QED
    BY <2>1, <2>2, LevelGrows DEF LowConfidence
<1>2. CASE /\ new = [old EXCEPT !.usd = new.usd] /\ new.usd # Unknown
           /\ old.usd = Unknown \/ new.usd <= old.usd
  <2>1. /\ new.supported = old.supported /\ new.planned = old.planned
        /\ new.base = old.base /\ new.rate = old.rate
        /\ new.confidence = old.confidence /\ new.funding = old.funding
    BY <1>2 DEF Readings
  <2>2. AmountScore(old) <= AmountScore(new)
    BY <1>2, <2>1, AmountScoreGrows
  <2>3. Score(old) <= Score(new)
    <3>1. ZeroScore(old) = ZeroScore(new) /\ RateScore(old) = RateScore(new)
      BY <2>1 DEF ZeroScore, RateScore
    <3> QED
      BY <2>1, <2>2, <3>1, ScoreGrows
  <2> QED
    BY <2>1, <2>3, LevelGrows DEF LowConfidence
<1>3. CASE new = [old EXCEPT !.planned = new.planned] /\ old.planned \in 1..new.planned
  <2>1. /\ new.supported = old.supported /\ new.usd = old.usd
        /\ new.base = old.base /\ new.rate = old.rate
        /\ new.confidence = old.confidence /\ new.funding = old.funding
    BY <1>3 DEF Readings
  <2>2. AmountScore(old) <= AmountScore(new)
    BY <1>3, <2>1, AmountScoreGrows
  <2>3. Score(old) <= Score(new)
    <3>1. ZeroScore(old) = ZeroScore(new) /\ RateScore(old) = RateScore(new)
      BY <2>1 DEF ZeroScore, RateScore
    <3> QED
      BY <2>1, <2>2, <3>1, ScoreGrows
  <2> QED
    BY <2>1, <2>3, LevelGrows DEF LowConfidence
<1>4. CASE /\ new = [old EXCEPT !.base = new.base]
           /\ old.base \in {"unknown", "some"} /\ new.base \in {"empty", "zero"}
  <2>1. /\ new.supported = old.supported /\ new.usd = old.usd
        /\ new.planned = old.planned /\ new.rate = old.rate
        /\ new.confidence = old.confidence /\ new.funding = old.funding
    BY <1>4 DEF Readings
  <2>2. ZeroScore(old) <= ZeroScore(new)
    BY <1>4 DEF ZeroScore
  <2>3. Score(old) <= Score(new)
    <3>1. AmountScore(old) = AmountScore(new) /\ RateScore(old) = RateScore(new)
      BY <2>1 DEF AmountScore, CoverScore, RateScore
    <3> QED
      BY <2>1, <2>2, <3>1, ScoreGrows
  <2> QED
    BY <1>4, <2>1, <2>3, LevelGrows DEF LowConfidence
<1>5. CASE /\ new = [old EXCEPT !.rate = new.rate] /\ new.rate # Unknown
           /\ old.rate = Unknown \/ new.rate >= old.rate
  <2>1. /\ new.supported = old.supported /\ new.usd = old.usd
        /\ new.planned = old.planned /\ new.base = old.base
        /\ new.confidence = old.confidence /\ new.funding = old.funding
    BY <1>5 DEF Readings
  <2>2. RateScore(old) <= RateScore(new)
    BY <1>5 DEF RateScore
  <2>3. Score(old) <= Score(new)
    <3>1. AmountScore(old) = AmountScore(new) /\ ZeroScore(old) = ZeroScore(new)
      BY <2>1 DEF AmountScore, CoverScore, ZeroScore
    <3> QED
      BY <2>1, <2>2, <3>1, ScoreGrows
  <2> QED
    BY <2>1, <2>3, LevelGrows DEF LowConfidence
<1>6. CASE new = [old EXCEPT !.confidence = "low"]
  <2>1. /\ new.supported = old.supported /\ new.usd = old.usd
        /\ new.planned = old.planned /\ new.base = old.base
        /\ new.rate = old.rate /\ new.confidence = "low" /\ new.funding = old.funding
    BY <1>6 DEF Readings
  <2>2. Score(old) <= Score(new)
    BY <2>1 DEF Score, AmountScore, CoverScore, ZeroScore, RateScore
  <2> QED
    BY <2>1, <2>2, LevelGrows DEF LowConfidence
<1>7. CASE /\ new = [old EXCEPT !.funding = new.funding] /\ new.funding <= old.funding
           /\ Score(old) >= 3 \/ LowConfidence(old)
  <2>1. /\ new.supported = old.supported /\ new.usd = old.usd
        /\ new.planned = old.planned /\ new.base = old.base
        /\ new.rate = old.rate /\ new.confidence = old.confidence
    BY <1>7 DEF Readings
  <2>2. Score(old) = Score(new)
    BY <2>1 DEF Score, AmountScore, CoverScore, ZeroScore, RateScore
  <2>3. LowConfidence(old) <=> LowConfidence(new)
    BY <2>1 DEF LowConfidence
  <2> QED
    BY <1>7, <2>2, <2>3, LevelGrowsWithFunding
<1> QED
  BY <1>1, <1>2, <1>3, <1>4, <1>5, <1>6, <1>7 DEF Worsens

\* Worse news never lowers the squeeze risk, for any readings: the thresholds of the
\* score and the level's cascade go the same way (borrow_stress.py:30-106).
THEOREM StressIsMonotone == BorrowSpec => StressNeverEases
<1> DEFINE Step == Worsens(reading, reading') => Level(reading') >= Level(reading)
<1>1. reading \in Readings /\ reading' \in Readings => Step
  <2> SUFFICES ASSUME reading \in Readings, reading' \in Readings, Worsens(reading, reading')
               PROVE  Level(reading') >= Level(reading)
    OBVIOUS
  <2>1. Level(reading) <= Level(reading')
    BY WorseIsNoSafer
  <2>2. Level(reading) \in Int /\ Level(reading') \in Int
    BY DEF Level
  <2> QED
    BY <2>1, <2>2
<1> DEFINE Typed == reading \in Readings
<1>2. BorrowInit => Typed
  BY ReadingTypeInit
<1>3. Typed /\ [BorrowNext]_reading => Typed'
  BY ReadingTypeNext
<1>4. Typed /\ Typed' /\ [BorrowNext]_reading => [Step]_reading
  BY <1>1
<1> HIDE DEF Step, Typed
<1>5. BorrowSpec => [][Step]_reading
  BY <1>2, <1>3, <1>4, PTL DEF BorrowSpec
<1> QED
  BY <1>5, PTL DEF StressNeverEases, Step

=============================================================================
