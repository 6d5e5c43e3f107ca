----------------------------- MODULE BorrowStress -----------------------------
(***************************************************************************)
(* borrow_stress_score and squeeze_risk_level on readings that worsen one  *)
(* at a time.  Money is in thousands, rates in per cent, funding in        *)
(* ten-thousandths.                                                        *)
(***************************************************************************)
EXTENDS Integers

CONSTANTS
    Amounts,    \* max_borrowable_usd
    Notionals,  \* planned_notional
    Rates,      \* borrow_rate_annualized
    Fundings,   \* funding_8h
    Unknown     \* Python's None

VARIABLE reading    \* BorrowStatus, with the planned notional and the funding rate

ASSUME BorrowAssumption ==
    /\ Amounts \cup Notionals \cup Rates \subseteq Nat
    /\ Fundings \subseteq Int
    /\ Notionals # {} /\ Fundings # {}
    /\ Unknown \notin Int \cup BOOLEAN

\* What each field may read.  A max_borrowable_base of zero is "empty" with the
\* zero_reason pool_likely_empty or unsupported_asset, and "zero" with any other.
Values ==
    [supported  |-> BOOLEAN \cup {Unknown},
     usd        |-> Amounts \cup {Unknown},
     base       |-> {"unknown", "some", "empty", "zero"},
     rate       |-> Rates \cup {Unknown},
     confidence |-> {"low", "medium", "high"},
     planned    |-> Notionals,
     funding    |-> Fundings]

-----------------------------------------------------------------------------
\* Mutation: the ratio is taken the wrong way up.
CoverScoreUpsideDown(r) ==
    IF r.planned < r.usd THEN 3
    ELSE IF r.planned < 2 * r.usd THEN 2
    ELSE IF r.planned < 5 * r.usd THEN 1 ELSE 0

\* How often the borrowable amount covers the planned notional; without a planned
\* notional the ratio counts as zero.
CoverScore(r) ==
    IF r.planned = 0 \/ r.usd < r.planned THEN 3
    ELSE IF r.usd < 2 * r.planned THEN 2
    ELSE IF r.usd < 5 * r.planned THEN 1 ELSE 0

AmountScore(r) ==
    IF r.usd = Unknown THEN 0 ELSE CoverScore(r) + (IF r.usd < 50 THEN 1 ELSE 0)

ZeroScore(r) ==
    CASE r.base = "empty" -> 3 [] r.base = "zero" -> 1 [] OTHER -> 0

RateScore(r) ==
    IF r.rate = Unknown THEN 0
    ELSE IF r.rate > 100 THEN 2 ELSE IF r.rate > 50 THEN 1 ELSE 0

\* borrow_stress_score.
Score(r) ==
    (IF r.supported = FALSE THEN 3 ELSE 0) + AmountScore(r) + ZeroScore(r) + RateScore(r)

\* A zero nobody explains makes the whole result uncertain.
LowConfidence(r) == r.confidence = "low" \/ r.base = "zero"

\* squeeze_risk_level, LOW to EXTREME as 0 to 3; funding below -10 is deep, below
\* -5 mild.
Level(r) ==
    LET deep == r.funding < -10
        bare == CASE deep /\ Score(r) >= 5 -> 3
                  [] deep /\ Score(r) \in 3..4 -> 2
                  [] ~ deep /\ r.funding < -5 -> 1
                  [] OTHER -> 0
        unsure == IF LowConfidence(r) /\ bare = 0 THEN 1 ELSE bare
    IN  IF LowConfidence(r) /\ deep /\ unsure = 1 THEN 2 ELSE unsure

BorrowInit ==
    reading = [supported |-> Unknown, usd |-> Unknown, base |-> "unknown",
               rate |-> Unknown, confidence |-> "low",
               planned |-> CHOOSE n \in Notionals : TRUE,
               funding |-> CHOOSE f \in Fundings : TRUE]

\* One of the readings comes in anew, for better or worse.
Refresh(field, value) == reading' = [reading EXCEPT ![field] = value]

BorrowNext ==
    \E field \in DOMAIN Values : \E value \in Values[field] : Refresh(field, value)

BorrowSpec == BorrowInit /\ [][BorrowNext]_reading

-----------------------------------------------------------------------------
(***************************************************************************)
(* Properties.                                                             *)
(***************************************************************************)
\* A step for the worse: borrowing stops being supported, less can be borrowed or
\* the position grows, a zero turns up, the rate rises, the data is trusted less,
\* funding deepens.  A planned notional of zero, which counts as uncovered, is
\* left out; so is funding at a score below three with data that is trusted, where
\* the code itself goes from MEDIUM (mild) back to LOW (deep).
Worsens(old, new) ==
    \/ new.supported = FALSE /\ new = [old EXCEPT !.supported = FALSE]
    \/ /\ new = [old EXCEPT !.usd = new.usd] /\ new.usd # Unknown
       /\ old.usd = Unknown \/ new.usd <= old.usd
    \/ new = [old EXCEPT !.planned = new.planned] /\ old.planned \in 1..new.planned
    \/ /\ new = [old EXCEPT !.base = new.base]
       /\ old.base \in {"unknown", "some"} /\ new.base \in {"empty", "zero"}
    \/ /\ new = [old EXCEPT !.rate = new.rate] /\ new.rate # Unknown
       /\ old.rate = Unknown \/ new.rate >= old.rate
    \/ new = [old EXCEPT !.confidence = "low"]
    \/ /\ new = [old EXCEPT !.funding = new.funding] /\ new.funding <= old.funding
       /\ Score(old) >= 3 \/ LowConfidence(old)

\* Worse news never lowers the squeeze risk: the score's thresholds and the level's
\* cascade, with its two escalations for doubtful data, are monotone together.
StressNeverEases ==
    [][Worsens(reading, reading') => Level(reading') >= Level(reading)]_reading

=============================================================================
