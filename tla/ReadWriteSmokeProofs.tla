------------------------ MODULE ReadWriteSmokeProofs ------------------------
(***************************************************************************)
(* Theorems about ReadWriteSmoke, for every set of prices, tick, margin    *)
(* and position, and every set of the exchange's status words.             *)
(***************************************************************************)
EXTENDS ReadWriteSmoke, TLAPS

-----------------------------------------------------------------------------
(***************************************************************************)
(* The inductive invariants.                                               *)
(***************************************************************************)
Asking == {"start", "read", "read mark", "route"}
Answered == {"query", "cancel", "query again"}
Canceled == {"query again", "refresh", "audit orders", "audit positions", "returned"}

\* There is an order from its submission on, and its price passed the guard.
OrderPassedGuard ==
    /\ pc \in Asking => order = None
    /\ pc \in {"submit"} \cup Answered => order # None
    /\ pc = "route" => markSeen \in MarkPrices /\ NonMarketable(markSeen)
    /\ order # None => /\ order.price = Floored(config.limit)
                       /\ markSeen \in MarkPrices /\ NonMarketable(markSeen)

\* Past the submission's answer a run goes through the cancel call, and a cancel call
\* that returned leaves no open order.
CancelIsReached ==
    /\ pc \in Asking \cup {"submit"} => submitted = None /\ canceling = "not asked"
    /\ pc \in Canceled => canceling = "returned"
    /\ pc = "raised" => submitted = None \/ canceling \in {"returned", "raised"}
    /\ canceling = "returned" => ~ IsOpen

\* The second query was answered from the order as it is, and CANCELED is final.
CanceledIsFinal ==
    /\ pc \in Asking => after = None
    /\ after = "CANCELED" => order # None /\ order.status = "CANCELED"

IInv == TypeOK /\ OrderPassedGuard /\ CancelIsReached /\ CanceledIsFinal

-----------------------------------------------------------------------------
(***************************************************************************)
(* The vocabulary.                                                         *)
(***************************************************************************)
LEMMA Vocabulary ==
    /\ None \notin Orders /\ None \notin Nat /\ None \notin OrderStatuses
    /\ None \notin Positions /\ None \notin BOOLEAN
    /\ {"NEW", "PARTIALLY_FILLED", "FILLED", "CANCELED"} \subseteq StatusWords
    /\ StatusWords \subseteq BinanceStatuses
    /\ MarkPrices \subseteq Nat /\ LimitPrices \subseteq Nat
    /\ TickSize \in Nat \ {0} /\ Margin \in Int
BY SmokeAssumption

LEMMA ParsedIsAStatus ==
    \A word \in StatusWords : /\ ParsedStatus(word) \in OrderStatuses
                              /\ ParsedStatus(word) = "CANCELED" => word = "CANCELED"
BY Vocabulary DEF ParsedStatus, BinanceStatusMap, BinanceStatuses, OrderStatuses

\* floor_to_step: less than a tick is lost.
LEMMA FlooredBounds ==
    ASSUME NEW price \in Nat
    PROVE  /\ Floored(price) \in Int
           /\ Floored(price) <= price /\ price < Floored(price) + TickSize
<1>1. \A a \in Int, b \in Nat \ {0} :
         a \div b \in Int /\ b * (a \div b) <= a /\ a < b * (a \div b) + b
  OBVIOUS
<1>2. TickSize \in Nat \ {0} /\ price \in Int
  BY Vocabulary
<1>3. /\ price \div TickSize \in Int
      /\ TickSize * (price \div TickSize) <= price
      /\ price < TickSize * (price \div TickSize) + TickSize
  BY <1>1, <1>2
<1>4. TickSize * (price \div TickSize) \in Int
  BY <1>2, <1>3
<1> QED  BY <1>3, <1>4 DEF Floored

LEMMA CloseOrderKeeps ==
    ASSUME TypeOK, CloseOrder
    PROVE  /\ order' = None \/ order' \in Orders
           /\ order' = None <=> order = None
           /\ order # None => order'.price = order.price
           /\ ~ IsOpen'
           /\ ~ IsOpen => order' = order
<1>1. CASE IsOpen
  <2>1. order \in Orders /\ order' = [order EXCEPT !.status = "CANCELED"]
    BY <1>1 DEF TypeOK, IsOpen, CloseOrder
  <2>2. /\ order' \in Orders /\ order'.price = order.price /\ order'.status = "CANCELED"
    BY <2>1, Vocabulary DEF Orders
  <2> QED  BY <1>1, <2>1, <2>2, Vocabulary DEF IsOpen, BinanceOpen
<1>2. CASE ~ IsOpen
  BY <1>2 DEF CloseOrder, TypeOK, IsOpen
<1> QED  BY <1>1, <1>2

\* What the exchange does to an order by itself.
LEMMA ExchangeKeeps ==
    ASSUME TypeOK, Fill \/ GoesAway
    PROVE  /\ IsOpen /\ order # None /\ order' \in Orders /\ order' # None
           /\ order'.price = order.price
<1>1. order \in Orders /\ IsOpen /\ order # None
  BY DEF TypeOK, IsOpen, Fill, GoesAway
<1>2. PICK word \in StatusWords : order' = [order EXCEPT !.status = word]
  BY Vocabulary DEF Fill, GoesAway
<1>3. order' \in Orders /\ order'.price = order.price
  BY <1>1, <1>2 DEF Orders
<1> QED  BY <1>1, <1>3, Vocabulary

-----------------------------------------------------------------------------
(***************************************************************************)
(* Types.                                                                  *)
(***************************************************************************)
LEMMA TypeInit == Init => TypeOK
<1> SUFFICES ASSUME Init PROVE TypeOK
  OBVIOUS
<1>1. audits \in [orders: BOOLEAN \cup {None}, positions: BOOLEAN \cup {None}]
  BY DEF Init
<1>2. /\ {submitted, before, after} \subseteq OrderStatuses \cup {None}
      /\ markSeen \in MarkPrices \cup {None} /\ row \in Positions \cup {None}
  BY DEF Init
<1>3. pc \in Pcs /\ raising \in BOOLEAN
  BY DEF Init, Pcs
<1> QED  BY <1>1, <1>2, <1>3 DEF Init, TypeOK

LEMMA AuditTypes ==
    ASSUME TypeOK, NEW name \in {"orders", "positions"}, NEW consistent \in BOOLEAN,
           Audit(name, consistent)
    PROVE  /\ audits' \in [orders: BOOLEAN \cup {None}, positions: BOOLEAN \cup {None}]
           /\ safe' \in {"NORMAL", "SAFE_MODE"}
<1>1. audits' = [audits EXCEPT ![name] = consistent]
  BY DEF Audit
<1>2. audits' \in [orders: BOOLEAN \cup {None}, positions: BOOLEAN \cup {None}]
  BY <1>1 DEF TypeOK
<1>3. safe' \in {"NORMAL", "SAFE_MODE"}
  BY DEF Audit, TypeOK
<1> QED  BY <1>2, <1>3

LEMMA TypeStep == TypeOK /\ OrderPassedGuard /\ [Next]_vars => TypeOK'
<1> SUFFICES ASSUME TypeOK, OrderPassedGuard, [Next]_vars PROVE TypeOK'
  OBVIOUS
<1> USE DEF exchange, local, reads
<1>1. pc \in {"submit"} \cup Answered => order \in Orders
  BY DEF OrderPassedGuard, TypeOK
<1>2. \A o \in Orders : ParsedStatus(o.status) \in OrderStatuses
  BY ParsedIsAStatus DEF Orders
<1>3. CASE Start
  <2>1. pc' = "read" \/ pc' = "raised"
    BY <1>3 DEF Start
  <2>2. pc' \in Pcs
    BY <2>1 DEF Pcs
  <2>3. UNCHANGED <<config, exchange, local>>
    BY <1>3 DEF Start
  <2> QED  BY <2>2, <2>3 DEF TypeOK
<1>4. CASE ReadPositions \/ ReadMarkPrice
  BY <1>4 DEF ReadPositions, ReadMarkPrice, UseMarkPrice, TypeOK, Pcs
<1>5. CASE PlaceOrder
  <2>1. Floored(config.limit) \in Int
    BY Vocabulary, FlooredBounds DEF TypeOK, Configs
  <2>2. order' \in Orders
    BY <1>5, <2>1, Vocabulary DEF PlaceOrder, Orders
  <2> QED  BY <1>5, <2>2 DEF PlaceOrder, TypeOK, Pcs
<1>6. CASE SubmitAnswered
  <2>1. submitted' \in OrderStatuses
    BY <1>1, <1>2, <1>6 DEF SubmitAnswered, OrderStatuses
  <2> QED  BY <1>6, <2>1 DEF SubmitAnswered, TypeOK, Pcs
<1>7. CASE RouteRaises \/ ReadRaises
  BY <1>7 DEF RouteRaises, ReadRaises, TypeOK, Pcs
<1>8. CASE QueryBefore
  <2>1. before' \in OrderStatuses \cup {None} /\ raising' \in BOOLEAN
    BY <1>1, <1>2, <1>8 DEF QueryBefore, Answered, TypeOK
  <2> QED  BY <1>8, <2>1 DEF QueryBefore, TypeOK, Pcs
<1>9. CASE Cancel \/ CancelRaises
  <2>1. order' = None \/ order' \in Orders
    BY <1>9, CloseOrderKeeps DEF Cancel, CancelRaises, TypeOK
  <2> QED  BY <1>9, <2>1 DEF Cancel, CancelRaises, TypeOK, Pcs
<1>10. CASE QueryAfter
  <2>1. after' \in OrderStatuses \cup {None}
    BY <1>1, <1>2, <1>10 DEF QueryAfter, Answered
  <2> QED  BY <1>10, <2>1 DEF QueryAfter, TypeOK, Pcs
<1>11. CASE RefreshPositions
  BY <1>11 DEF RefreshPositions, TypeOK, Pcs
<1>12. CASE AuditOrders
  <2>1. \E consistent \in BOOLEAN : Audit("orders", consistent)
    BY <1>12 DEF AuditOrders
  <2>2. /\ audits' \in [orders: BOOLEAN \cup {None}, positions: BOOLEAN \cup {None}]
        /\ safe' \in {"NORMAL", "SAFE_MODE"}
    BY <2>1, AuditTypes
  <2> QED  BY <1>12, <2>2 DEF AuditOrders, TypeOK, Pcs
<1>13. CASE AuditPositions
  <2>1. \E consistent \in BOOLEAN : Audit("positions", consistent)
    <3>1. (row = position) \in BOOLEAN
      OBVIOUS
    <3> QED  BY <1>13, <3>1 DEF AuditPositions
  <2>2. /\ audits' \in [orders: BOOLEAN \cup {None}, positions: BOOLEAN \cup {None}]
        /\ safe' \in {"NORMAL", "SAFE_MODE"}
    BY <2>1, AuditTypes
  <2> QED  BY <1>13, <2>2 DEF AuditPositions, TypeOK, Pcs
<1>14. CASE Fill \/ GoesAway
  <2>1. order' \in Orders /\ position' \in Positions
    BY <1>14, ExchangeKeeps DEF Fill, GoesAway, TypeOK
  <2> QED  BY <1>14, <2>1 DEF Fill, GoesAway, TypeOK
<1>15. CASE MarkMoves \/ PositionMoves
  BY <1>15 DEF MarkMoves, PositionMoves, TypeOK
<1>16. CASE UNCHANGED vars
  BY <1>16 DEF vars, TypeOK
<1> QED
  BY <1>3, <1>4, <1>5, <1>6, <1>7, <1>8, <1>9, <1>10, <1>11, <1>12, <1>13, <1>14, <1>15,
     <1>16 DEF Next, RunNext, ExchangeNext

-----------------------------------------------------------------------------
(***************************************************************************)
(* The other invariants.                                                   *)
(***************************************************************************)
LEMMA GuardStep == TypeOK /\ OrderPassedGuard /\ [Next]_vars => OrderPassedGuard'
<1> SUFFICES ASSUME TypeOK, OrderPassedGuard, [Next]_vars PROVE OrderPassedGuard'
  OBVIOUS
<1> USE DEF exchange, local, reads, Asking, Answered
<1>1. \A m : config' = config => (NonMarketable(m)' <=> NonMarketable(m))
  BY DEF NonMarketable
<1>2. CASE Start
  <2>1. pc = "start" /\ pc' \in {"read", "raised"} /\ UNCHANGED <<config, exchange, local>>
    BY <1>2 DEF Start
  <2> QED  BY <2>1 DEF OrderPassedGuard
<1>3. CASE ReadPositions \/ ReadMarkPrice
  <2>1. /\ pc \in {"read", "read mark"} /\ order' = order /\ config' = config
        /\ \/ /\ markSeen' = mark
              /\ pc' = IF NonMarketable(mark) THEN "route" ELSE "raised"
           \/ pc' = "read mark"
    BY <1>3 DEF ReadPositions, ReadMarkPrice, UseMarkPrice
  <2>2. mark \in MarkPrices /\ order' = None
    BY <2>1 DEF TypeOK, OrderPassedGuard
  <2>3. CASE pc' = "read mark"
    BY <2>2, <2>3 DEF OrderPassedGuard
  <2>4. CASE markSeen' = mark /\ pc' = IF NonMarketable(mark) THEN "route" ELSE "raised"
    <3>1. pc' = "route" => NonMarketable(markSeen)'
      BY <2>1, <2>4 DEF NonMarketable
    <3>2. pc' \in {"route", "raised"}
      BY <2>4
    <3> QED  BY <2>2, <2>4, <3>1, <3>2 DEF OrderPassedGuard
  <2> QED  BY <2>1, <2>3, <2>4
<1>4. CASE PlaceOrder
  <2>1. /\ pc = "route" /\ pc' = "submit" /\ config' = config /\ markSeen' = markSeen
        /\ order' = [price |-> Floored(config.limit), status |-> "NEW"]
    BY <1>4 DEF PlaceOrder
  <2>2. order' # None
    <3>1. Floored(config.limit) \in Int
      BY Vocabulary, FlooredBounds DEF TypeOK, Configs
    <3> QED  BY <2>1, <3>1, Vocabulary DEF Orders
  <2>3. order'.price = Floored(config'.limit)
    BY <2>1
  <2>4. markSeen' \in MarkPrices /\ NonMarketable(markSeen)'
    BY <1>1, <2>1 DEF OrderPassedGuard, NonMarketable
  <2> QED  BY <2>1, <2>2, <2>3, <2>4 DEF OrderPassedGuard, Floored
<1>5. ASSUME config' = config, markSeen' = markSeen,
             order' = None <=> order = None,
             order # None => order'.price = order.price,
             pc' \in Asking => pc \in Asking /\ pc' # "route",
             pc' \in {"submit"} \cup Answered => pc \in {"submit"} \cup Answered
      PROVE  OrderPassedGuard'
  BY <1>1, <1>5 DEF OrderPassedGuard, NonMarketable, Floored
<1>6. CASE SubmitAnswered \/ RouteRaises \/ QueryBefore
  BY <1>5, <1>6 DEF SubmitAnswered, RouteRaises, QueryBefore
<1>7. CASE Cancel \/ CancelRaises
  <2>1. /\ order' = None <=> order = None
        /\ order # None => order'.price = order.price
    BY <1>7, CloseOrderKeeps DEF Cancel, CancelRaises
  <2> QED  BY <1>5, <1>7, <2>1 DEF Cancel, CancelRaises
<1>8. CASE QueryAfter \/ RefreshPositions \/ ReadRaises \/ AuditOrders \/ AuditPositions
  BY <1>5, <1>8
     DEF QueryAfter, RefreshPositions, ReadRaises, AuditOrders, AuditPositions
<1>9. ASSUME pc' = pc, config' = config, markSeen' = markSeen,
             order' = None <=> order = None,
             order # None => order'.price = order.price
      PROVE  OrderPassedGuard'
  BY <1>1, <1>9 DEF OrderPassedGuard, NonMarketable, Floored
<1>10. CASE Fill \/ GoesAway
  <2>1. order # None /\ order' # None /\ order'.price = order.price
    BY <1>10, ExchangeKeeps
  <2> QED  BY <1>9, <1>10, <2>1 DEF Fill, GoesAway
<1>11. CASE MarkMoves \/ PositionMoves \/ UNCHANGED vars
  BY <1>9, <1>11 DEF MarkMoves, PositionMoves, vars
<1> QED
  BY <1>2, <1>3, <1>4, <1>6, <1>7, <1>8, <1>10, <1>11 DEF Next, RunNext, ExchangeNext

\* What a step does to the order, but for placing it.
LEMMA OrderStep ==
    TypeOK /\ [Next]_vars =>
        \/ PlaceOrder
        \/ ~ IsOpen /\ order' = order
        \/ IsOpen /\ order # None /\ order' # None
<1> SUFFICES ASSUME TypeOK, [Next]_vars
             PROVE  \/ PlaceOrder
                    \/ ~ IsOpen /\ order' = order
                    \/ IsOpen /\ order # None /\ order' # None
  OBVIOUS
<1>1. IsOpen => order # None
  BY DEF IsOpen
<1>2. ASSUME order' = order
      PROVE  \/ ~ IsOpen /\ order' = order
             \/ IsOpen /\ order # None /\ order' # None
  BY <1>1, <1>2
<1>3. CASE Cancel \/ CancelRaises
  BY <1>1, <1>2, <1>3, CloseOrderKeeps DEF Cancel, CancelRaises
<1>4. CASE Fill \/ GoesAway
  BY <1>4, ExchangeKeeps
<1>5. CASE \/ Start \/ ReadPositions \/ ReadMarkPrice \/ SubmitAnswered \/ RouteRaises
           \/ QueryBefore \/ QueryAfter \/ RefreshPositions \/ ReadRaises \/ AuditOrders
           \/ AuditPositions
  <2>1. order' = order
    BY <1>5 DEF Start, ReadPositions, ReadMarkPrice, SubmitAnswered, RouteRaises, QueryBefore,
       QueryAfter, RefreshPositions, ReadRaises, AuditOrders, AuditPositions, exchange
  <2> QED  BY <1>2, <2>1
<1>6. CASE MarkMoves \/ PositionMoves \/ UNCHANGED vars
  BY <1>2, <1>6 DEF MarkMoves, PositionMoves, vars, exchange
<1> QED  BY <1>3, <1>4, <1>5, <1>6 DEF Next, RunNext, ExchangeNext

LEMMA CancelStep ==
    TypeOK /\ OrderPassedGuard /\ CancelIsReached /\ [Next]_vars => CancelIsReached'
<1> SUFFICES ASSUME TypeOK, OrderPassedGuard, CancelIsReached, [Next]_vars
             PROVE  CancelIsReached'
  OBVIOUS
<1> USE DEF local, reads, Asking, Canceled
<1>1. ASSUME canceling' = canceling, ~ PlaceOrder
      PROVE  canceling' = "returned" => ~ IsOpen'
  <2>1. canceling = "returned" => order' = order /\ ~ IsOpen
    BY <1>1, OrderStep DEF CancelIsReached
  <2> QED  BY <1>1, <2>1 DEF IsOpen
<1>2. CASE Start \/ ReadPositions \/ ReadMarkPrice
  <2>1. /\ pc \in {"start", "read", "read mark"}
        /\ pc' \in {"read", "read mark", "route", "raised"}
        /\ submitted' = submitted /\ canceling' = canceling /\ ~ PlaceOrder
    BY <1>2 DEF Start, ReadPositions, ReadMarkPrice, UseMarkPrice, PlaceOrder
  <2> QED  BY <1>1, <2>1 DEF CancelIsReached
<1>3. CASE PlaceOrder
  <2>1. canceling # "returned"
    BY <1>3 DEF PlaceOrder, CancelIsReached, OrderPassedGuard
  <2> QED  BY <1>3, <2>1 DEF PlaceOrder, CancelIsReached
<1>4. CASE SubmitAnswered \/ QueryBefore
  <2>1. ~ PlaceOrder /\ canceling' = canceling /\ pc' \in {"query", "cancel"}
    BY <1>4 DEF SubmitAnswered, QueryBefore, PlaceOrder
  <2> QED  BY <1>1, <2>1 DEF CancelIsReached
<1>5. CASE RouteRaises \/ ReadRaises
  <2>1. /\ pc \in {"route", "submit", "read", "read mark", "query again", "refresh"}
        /\ pc' = "raised" /\ submitted' = submitted /\ canceling' = canceling
        /\ ~ PlaceOrder
    BY <1>5 DEF RouteRaises, ReadRaises, PlaceOrder
  <2> QED  BY <1>1, <2>1 DEF CancelIsReached
<1>6. CASE Cancel \/ CancelRaises
  BY <1>6, CloseOrderKeeps DEF Cancel, CancelRaises, CancelIsReached
<1>7. CASE QueryAfter \/ RefreshPositions \/ AuditOrders \/ AuditPositions
  <2>1. /\ pc \in Canceled
        /\ pc' \in {"raised", "refresh", "audit orders", "audit positions", "returned"}
        /\ canceling' = canceling /\ ~ PlaceOrder
    BY <1>7 DEF QueryAfter, RefreshPositions, AuditOrders, AuditPositions, PlaceOrder
  <2> QED  BY <1>1, <2>1 DEF CancelIsReached
<1>8. CASE ExchangeNext \/ UNCHANGED vars
  <2>1. pc' = pc /\ submitted' = submitted /\ canceling' = canceling
    BY <1>8 DEF ExchangeNext, MarkMoves, Fill, GoesAway, PositionMoves, vars
  <2>2. ~ PlaceOrder
    BY <2>1 DEF PlaceOrder
  <2> QED  BY <1>1, <2>1, <2>2 DEF CancelIsReached
<1> QED
  BY <1>2, <1>3, <1>4, <1>5, <1>6, <1>7, <1>8 DEF Next, RunNext

LEMMA FinalStep ==
    TypeOK /\ OrderPassedGuard /\ CanceledIsFinal /\ [Next]_vars => CanceledIsFinal'
<1> SUFFICES ASSUME TypeOK, OrderPassedGuard, CanceledIsFinal, [Next]_vars
             PROVE  CanceledIsFinal'
  OBVIOUS
<1> USE DEF local, reads, Asking
<1>1. ASSUME after' = after, pc' \in Asking => pc \in Asking PROVE CanceledIsFinal'
  <2>1. CASE after # "CANCELED"
    BY <1>1, <2>1 DEF CanceledIsFinal
  <2>2. CASE after = "CANCELED"
    <3>1. order # None /\ order.status = "CANCELED" /\ ~ IsOpen
      BY <2>2 DEF CanceledIsFinal, IsOpen, BinanceOpen
    <3>2. ~ PlaceOrder
      BY <3>1 DEF PlaceOrder, OrderPassedGuard
    <3>3. order' = order
      BY <3>1, <3>2, OrderStep
    <3> QED  BY <1>1, <3>1, <3>3 DEF CanceledIsFinal
  <2> QED  BY <2>1, <2>2
<1>2. CASE QueryAfter
  <2>1. /\ order' = order /\ order \in Orders /\ order # None
        /\ after' \in {None, ParsedStatus(order.status)} /\ pc' \in {"raised", "refresh"}
    BY <1>2 DEF QueryAfter, exchange, OrderPassedGuard, Answered, TypeOK
  <2>2. after' = "CANCELED" => order.status = "CANCELED"
    BY <2>1, ParsedIsAStatus, Vocabulary DEF Orders, OrderStatuses
  <2> QED  BY <2>1, <2>2 DEF CanceledIsFinal
<1>3. CASE Start \/ ReadPositions \/ ReadMarkPrice
  <2>1. pc \in Asking /\ after' = after
    BY <1>3 DEF Start, ReadPositions, ReadMarkPrice
  <2> QED  BY <1>1, <2>1
<1>4. CASE PlaceOrder \/ SubmitAnswered \/ RouteRaises \/ QueryBefore
  BY <1>1, <1>4 DEF PlaceOrder, SubmitAnswered, RouteRaises, QueryBefore
<1>5. CASE \/ Cancel \/ CancelRaises \/ RefreshPositions \/ ReadRaises \/ AuditOrders
           \/ AuditPositions
  BY <1>1, <1>5
     DEF Cancel, CancelRaises, RefreshPositions, ReadRaises, AuditOrders, AuditPositions
<1>6. CASE ExchangeNext \/ UNCHANGED vars
  BY <1>1, <1>6
     DEF ExchangeNext, MarkMoves, Fill, GoesAway, PositionMoves, vars
<1> QED  BY <1>2, <1>3, <1>4, <1>5, <1>6 DEF Next, RunNext

LEMMA IInvIsInvariant == Spec => []IInv
<1>1. Init => IInv
  <2>1. None \notin OrderStatuses
    BY Vocabulary
  <2>2. ASSUME Init PROVE OrderPassedGuard /\ CancelIsReached /\ CanceledIsFinal
    BY <2>1, <2>2 DEF Init, OrderPassedGuard, CancelIsReached, CanceledIsFinal, Asking,
       Answered, Canceled, IsOpen, OrderStatuses
  <2> QED  BY <2>2, TypeInit DEF IInv
<1>2. IInv /\ [Next]_vars => IInv'
  BY TypeStep, GuardStep, CancelStep, FinalStep DEF IInv
<1> QED  BY <1>1, <1>2, PTL DEF Spec

-----------------------------------------------------------------------------
(***************************************************************************)
(* Theorems.                                                               *)
(***************************************************************************)
\* The run's reads, its row, its audits and the order keep their types.
THEOREM SmokeTypeCorrect == Spec => []TypeOK
<1>1. IInv => TypeOK
  BY DEF IInv
<1> QED  BY <1>1, IInvIsInvariant, PTL

\* A tick is not wider than the guard's margin at any mark price.
TickIsFine == \A m \in MarkPrices \ {0} : 10 * TickSize <= Margin * m

\* The order that is placed does not trade at the mark price the guard saw, although its
\* price is floored to the tick after the guard looked at it.  The hypothesis is needed:
\* with a coarser tick the floor of a SELL price may be at the mark price or below it
\* (testnet_read_write_smoke.py:187-207, filters.py:22-24).
THEOREM RestsAsGuarded ==
    ASSUME TickIsFine
    PROVE  Spec => []RestsAtTheMarkSeen
<1>1. IInv => RestsAtTheMarkSeen
  <2> SUFFICES ASSUME IInv, config.guarded, order # None, mark = markSeen
               PROVE  ~ Marketable(order.price, mark)
    BY DEF RestsAtTheMarkSeen
  <2> DEFINE limit == config.limit
             p == Floored(limit)
  <2>1. /\ order.price = p /\ mark \in Nat /\ mark \in MarkPrices
        /\ limit \in Nat /\ config.side \in {"BUY", "SELL"}
        /\ NonMarketable(mark)
    BY Vocabulary DEF IInv, OrderPassedGuard, TypeOK, Configs
  <2>2. /\ p \in Int /\ p <= limit /\ limit < p + TickSize
        /\ TickSize \in Nat
    BY <2>1, FlooredBounds, Vocabulary
  <2>3. /\ mark > 0 /\ Margin \in 1..9
        /\ config.side = "BUY" => 10 * limit < mark * (10 - Margin)
        /\ config.side = "SELL" => 10 * limit > mark * (10 + Margin)
    BY <2>1 DEF NonMarketable
  <2> HIDE DEF limit, p
  <2>4. CASE config.side = "BUY"
    <3>1. mark * (10 - Margin) <= 10 * mark
      BY <2>1, <2>3
    <3>2. mark * (10 - Margin) \in Int
      BY <2>1, <2>3
    <3>3. p < mark
      BY <2>1, <2>2, <2>3, <2>4, <3>1, <3>2
    <3> QED  BY <2>1, <2>2, <2>4, <3>3 DEF Marketable
  <2>5. CASE config.side = "SELL"
    <3>1. mark * (10 + Margin) = 10 * mark + Margin * mark
      BY <2>1, <2>3
    <3>2. 10 * TickSize <= Margin * mark /\ Margin * mark \in Int
      BY <2>1, <2>3 DEF TickIsFine
    <3>3. p > mark
      BY <2>1, <2>2, <2>3, <2>5, <3>1, <3>2
    <3> QED  BY <2>1, <2>2, <2>5, <3>3 DEF Marketable
  <2> QED  BY <2>1, <2>4, <2>5
<1> QED  BY <1>1, IInvIsInvariant, PTL

\* A run that ends leaves its order open only when the answer to its submission never came
\* or the cancel call raised (testnet_read_write_smoke.py:137-140).
THEOREM OrdersAreCanceled == Spec => []NoOrderForgotten
<1>1. IInv => NoOrderForgotten
  BY DEF IInv, CancelIsReached, Canceled, NoOrderForgotten
<1> QED  BY <1>1, IInvIsInvariant, PTL

\* A run that reports ok has had its order canceled
\* (TestnetReadWriteSmokeResult.ok, testnet_read_write_smoke.py:71-84).
THEOREM OkIsTold == Spec => []OkMeansCanceled
<1>1. IInv => OkMeansCanceled
  BY DEF IInv, CanceledIsFinal, OkMeansCanceled, Ok
<1> QED  BY <1>1, IInvIsInvariant, PTL

=============================================================================
