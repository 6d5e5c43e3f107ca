-------------------------- MODULE OrderMirrorProofs --------------------------
(***************************************************************************)
(* OrderFlow implements OrderMirror: the initial states map to an initial  *)
(* state, and every step of every component maps to a step of the mirror   *)
(* or to none.                                                             *)
(*                                                                         *)
(* NeverAhead gives most of it: what a write puts into a row reflects the  *)
(* exchange's order.  That a write never takes a row back needs more: while*)
(* a client order id belongs to one order, the trader writes its row once, *)
(* before any repair can read it, and a repair writes onto the very row it *)
(* has read.                                                               *)
(***************************************************************************)
EXTENDS OrderFlowProofs

\* One order, at most, has been placed under this client order id.
Alone(c) == Mirror!Unshared(c)

\* A record seen after another one of the same order.
After(o, row) ==
    /\ o.xid = row.xid
    /\ row.filled <= o.filled
    /\ row.status \in TerminalStatuses => o.status \in TerminalStatuses

\* No pending write of a row would take the row back.
WritesAreFresh ==
    \A c \in ClientOrderIds : Alone(c) =>
        /\ pc["trader"] = "persist" /\ routed.cid = c => store[c] = None
        /\ pc["repair"] \in {"query", "write"} /\ repairing.cid = c => store[c] # None
        /\ pc["repair"] = "query" /\ repairing.cid = c => repairing = store[c]
        /\ pc["repair"] = "write" /\ repairing.cid = c => After(repairing, store[c])

\* The views of an order and of a row: neither is None.
BookViewIsRight ==
    \A x \in ExchangeIds :
           /\ orders[x] = None => BookView[x] = None
           /\ orders[x] # None =>
                  /\ BookView[x] \in BookViews /\ BookView[x] # None
                  /\ BookView[x].cid = orders[x].cid
                  /\ BookView[x].filled = orders[x].filled
                  /\ BookView[x].closed = (orders[x].status \notin BinanceOpen)

\* Every order of the exchange has its view in the book.
LEMMA BookViewOf == TypeOK => BookViewIsRight
<1> SUFFICES ASSUME TypeOK, NEW x \in ExchangeIds
             PROVE  /\ orders[x] = None => BookView[x] = None
                    /\ orders[x] # None =>
                          /\ BookView[x] \in BookViews /\ BookView[x] # None
                          /\ BookView[x].cid = orders[x].cid
                          /\ BookView[x].filled = orders[x].filled
                          /\ BookView[x].closed = (orders[x].status \notin BinanceOpen)
  BY DEF BookViewIsRight
<1>1. CASE orders[x] = None
  BY <1>1 DEF BookView
<1>2. CASE orders[x] # None
  <2> DEFINE v == [cid |-> orders[x].cid, filled |-> orders[x].filled,
                   closed |-> orders[x].status \notin BinanceOpen]
  <2>1. BookView[x] = v
    BY <1>2 DEF BookView
  <2>2. orders[x].cid \in ClientOrderIds /\ orders[x].filled \in 0..Qty
    BY <1>2, ExchangeOrderFields DEF TypeOK
  <2>3. v \in BookViews
    BY <2>2 DEF BookViews
  <2> QED
    BY <1>2, <2>1, <2>3, FlowAssumption DEF FlowAssumption
<1> QED
  BY <1>1, <1>2

\* The same for rows.
MirrorViewIsRight ==
    \A c \in ClientOrderIds :
           /\ store[c] = None => MirrorView[c] = None
           /\ store[c] # None =>
                  /\ MirrorView[c] \in MirrorViews /\ MirrorView[c] # None
                  /\ MirrorView[c].xid = store[c].xid
                  /\ MirrorView[c].filled = store[c].filled
                  /\ MirrorView[c].closed = (store[c].status \in TerminalStatuses)

\* Every row has its view in the mirror.
LEMMA MirrorViewOf == Typed /\ BooksBehind => MirrorViewIsRight
<1> SUFFICES ASSUME Typed, BooksBehind, NEW c \in ClientOrderIds
             PROVE  /\ store[c] = None => MirrorView[c] = None
                    /\ store[c] # None =>
                          /\ MirrorView[c] \in MirrorViews /\ MirrorView[c] # None
                          /\ MirrorView[c].xid = store[c].xid
                          /\ MirrorView[c].filled = store[c].filled
                          /\ MirrorView[c].closed = (store[c].status \in TerminalStatuses)
  BY DEF MirrorViewIsRight
<1>1. CASE store[c] = None
  BY <1>1 DEF MirrorView
<1>2. CASE store[c] # None
  <2> DEFINE v == [xid |-> store[c].xid, filled |-> store[c].filled,
                   closed |-> store[c].status \in TerminalStatuses]
  <2>1. MirrorView[c] = v
    BY <1>2 DEF MirrorView
  <2>2. store[c].xid \in ExchangeIds /\ store[c].filled \in 0..Qty
    BY <1>2 DEF Typed, TypeOK, OrderRecords, BooksBehind, LocalNeverAhead, Lags
  <2>3. v \in MirrorViews
    BY <2>2 DEF MirrorViews
  <2> QED
    BY <1>2, <2>1, <2>3, FlowAssumption DEF FlowAssumption
<1> QED
  BY <1>1, <1>2

\* Unshared, in the terms of OrderFlow.
AloneIsRight ==
    \A c \in ClientOrderIds :
        Alone(c) <=> \A x, y \in ExchangeIds :
                         /\ orders[x] # None /\ orders[x].cid = c
                         /\ orders[y] # None /\ orders[y].cid = c
                         => x = y

\* Whether an id belongs to one order can be read off the exchange's orders.
LEMMA AloneMeans == TypeOK => AloneIsRight
BY BookViewOf DEF Alone, Mirror!Unshared, BookViewIsRight, AloneIsRight

\* The same three facts about the state after a step.
LEMMA ViewsAfter ==
    /\ TypeOK' => BookViewIsRight' /\ AloneIsRight'
    /\ Typed' /\ BooksBehind' => MirrorViewIsRight'
<1>1. (TypeOK => BookViewIsRight)'
  BY BookViewOf, PTL
<1>2. (TypeOK => AloneIsRight)'
  BY AloneMeans, PTL
<1>3. (Typed /\ BooksBehind => MirrorViewIsRight)'
  BY MirrorViewOf, PTL
<1> QED
  BY <1>1, <1>2, <1>3

\* A client order id that belongs to one order belonged to at most one before.
LEMMA AloneBefore ==
    ASSUME Typed, Typed', BookGrows, NEW c \in ClientOrderIds, Alone(c)'
    PROVE  Alone(c)
<1>1. \A x, y \in ExchangeIds :
          /\ orders'[x] # None /\ orders'[x].cid = c
          /\ orders'[y] # None /\ orders'[y].cid = c
          => x = y
  BY ViewsAfter DEF AloneIsRight, Typed
<1>2. \A x \in ExchangeIds : orders[x] # None =>
          orders'[x] # None /\ orders'[x].cid = orders[x].cid
  BY DEF BookGrows
<1> QED
  BY <1>1, <1>2, AloneMeans DEF Typed, AloneIsRight

\* The row of an id that belongs to one order is a row of that order.
LEMMA RowOfAlone ==
    ASSUME Typed, BooksBehind, NEW c \in ClientOrderIds, Alone(c), store[c] # None,
           NEW x \in ExchangeIds, orders[x] # None, orders[x].cid = c
    PROVE  store[c].xid = x
<1>1. /\ store[c].xid \in ExchangeIds /\ orders[store[c].xid] # None
      /\ orders[store[c].xid].cid = c
  BY DEF Typed, TypeOK, OrderRecords, BooksBehind, LocalNeverAhead, Lags
<1> QED
  BY <1>1, AloneMeans DEF AloneIsRight, Typed

\* What a repair makes of the exchange's answer comes after the row it read.
LEMMA SnapshotIsAfter ==
    ASSUME Typed, BooksBehind, NEW c \in ClientOrderIds, store[c] # None,
           NEW x \in ExchangeIds, orders[x] # None, store[c].xid = x
    PROVE  After(ApplySnapshot(store[c], x), store[c])
<1> DEFINE o == ApplySnapshot(store[c], x)
<1>1. store[c] \in OrderRecords /\ Lags(store[c])
  BY DEF Typed, TypeOK, BooksBehind, LocalNeverAhead
<1>2. /\ o.xid = x /\ o.status = ParsedStatus(orders[x].status)
      /\ o.filled = orders[x].filled
  BY <1>1 DEF ApplySnapshot, OrderRecords
<1>3. store[c].status \in TerminalStatuses =>
          ParsedStatus(orders[x].status) \in TerminalStatuses
  BY <1>1 DEF Lags, TerminalStatuses, ParsedStatus, BinanceStatusMap
<1> QED
  BY <1>1, <1>2, <1>3 DEF After, Lags

\* No step makes a pending write stale while its id belongs to one order.
LEMMA WritesAreFreshNext ==
    Typed /\ BooksBehind /\ WritesAreFresh /\ [Next]_vars => WritesAreFresh'
<1> SUFFICES ASSUME Typed, BooksBehind, WritesAreFresh, [Next]_vars,
                    NEW c \in ClientOrderIds, Alone(c)'
             PROVE  /\ pc'["trader"] = "persist" /\ routed'.cid = c => store'[c] = None
                    /\ pc'["repair"] \in {"query", "write"} /\ repairing'.cid = c =>
                           store'[c] # None
                    /\ pc'["repair"] = "query" /\ repairing'.cid = c =>
                           repairing' = store'[c]
                    /\ pc'["repair"] = "write" /\ repairing'.cid = c =>
                           After(repairing', store'[c])
  BY DEF WritesAreFresh
<1> DEFINE TraderFresh == pc'["trader"] = "persist" /\ routed'.cid = c => store'[c] = None
           RepairFresh ==
               /\ pc'["repair"] \in {"query", "write"} /\ repairing'.cid = c =>
                      store'[c] # None
               /\ pc'["repair"] = "query" /\ repairing'.cid = c => repairing' = store'[c]
               /\ pc'["repair"] = "write" /\ repairing'.cid = c =>
                      After(repairing', store'[c])
           Fresh == TraderFresh /\ RepairFresh
<1> USE DEF Typed
<1>a. Alone(c) /\ Typed' /\ BooksBehind'
  BY AloneBefore, TypedNext, EveryStepGrowsBook, BooksBehindNext
<1>b. /\ pc["trader"] = "persist" /\ routed.cid = c => store[c] = None
      /\ pc["repair"] \in {"query", "write"} /\ repairing.cid = c => store[c] # None
      /\ pc["repair"] = "query" /\ repairing.cid = c => repairing = store[c]
      /\ pc["repair"] = "write" /\ repairing.cid = c => After(repairing, store[c])
  BY <1>a DEF WritesAreFresh
<1>c. \* the trader's side is left alone, or starts or ends a call
      ASSUME store'[c] = store[c],
             (UNCHANGED routed /\ pc'["trader"] = pc["trader"])
                 \/ pc'["trader"] \in {"idle", "submit"}
      PROVE  TraderFresh
  BY <1>b, <1>c
<1>d. ASSUME store'[c] = store[c],
             (UNCHANGED repairing /\ pc'["repair"] = pc["repair"])
                 \/ pc'["repair"] = "idle"
      PROVE  RepairFresh
  BY <1>b, <1>d
<1>1. CASE UNCHANGED vars
  BY <1>1, <1>c, <1>d DEF vars
<1>2. ASSUME NEW i \in Intents, Route(i) PROVE Fresh
  BY <1>2, <1>c, <1>d DEF Route, TypeOK, Procs
<1>3. ASSUME NEW x \in ExchangeIds, NEW remote \in ExchangeOrders,
             SubmitAccepted(x, remote)
      PROVE  Fresh
  <2>1. UNCHANGED <<store, repairing>> /\ pc'["repair"] = pc["repair"]
    BY <1>3 DEF SubmitAccepted, TypeOK, Procs
  <2>2. ASSUME routed'.cid = c, store[c] # None PROVE FALSE
    <3>1. orders[x] = None /\ orders'[x] = remote /\ orders'[x].cid = c
          /\ orders'[x] # None
      <4>1. orders[x] = None /\ orders'[x] = remote /\ remote.cid = routed.cid
        BY <1>3 DEF SubmitAccepted, ExchangeAccepts, TypeOK
      <4>2. routed \in OrderRecords
        BY <1>3 DEF SubmitAccepted, TypeOK, Suspended
      <4>3. routed'.cid = routed.cid
        BY <1>3, <4>2 DEF SubmitAccepted, ApplyPayload, OrderRecords
      <4> QED
        BY <2>2, <4>1, <4>3, RecordsAreNotNone
    <3>2. /\ store[c].xid \in ExchangeIds /\ orders[store[c].xid] # None
          /\ orders[store[c].xid].cid = c
      BY <2>2 DEF TypeOK, OrderRecords, BooksBehind, LocalNeverAhead, Lags
    <3>3. orders'[store[c].xid] # None /\ orders'[store[c].xid].cid = c
      BY <3>2, EveryStepGrowsBook DEF BookGrows
    <3>4. store[c].xid = x
      BY <1>a, <3>1, <3>2, <3>3, ViewsAfter DEF AloneIsRight
    <3> QED
      BY <3>1, <3>2, <3>4
  <2> QED
    BY <1>d, <2>1, <2>2
<1>4. ASSUME NEW x \in ExchangeIds, NEW remote \in ExchangeOrders,
             SubmitTimesOut(x, remote)
      PROVE  Fresh
  BY <1>4, <1>c, <1>d DEF SubmitTimesOut, TypeOK, Procs
<1>5. CASE SubmitRefused
  BY <1>5, <1>c, <1>d DEF SubmitRefused, TypeOK, Procs
<1>6. CASE PersistRouted
  <2>1. /\ routed \in OrderRecords /\ pc["trader"] = "persist"
        /\ pc'["trader"] = "idle" /\ pc'["repair"] = pc["repair"]
        /\ UNCHANGED repairing
    BY <1>6 DEF PersistRouted, TypeOK, Suspended, Procs
  <2>2. CASE UNCHANGED store
    BY <1>c, <1>d, <2>1, <2>2
  <2>3. CASE UpsertOrder(routed) /\ c # routed.cid
    BY <1>c, <1>d, <2>1, <2>3, UpsertOrderType
  <2>4. CASE c = routed.cid
    BY <1>b, <2>1, <2>4
  <2> QED
    BY <1>6, <2>2, <2>3, <2>4 DEF PersistRouted
<1>7. CASE DaemonNext
  BY <1>7, <1>c, <1>d
  DEF DaemonNext, ListOpenRows, FetchAndCompare, ReconcileFails, ReconcilePositions,
      TypeOK, Procs
<1>8. ASSUME NEW d \in ClientOrderIds, RepairUnknownRow(d) PROVE Fresh
  BY <1>8, <1>c, <1>d DEF RepairUnknownRow
<1>9. ASSUME NEW d \in ClientOrderIds, RepairReadRow(d) PROVE Fresh
  <2>1. TraderFresh
    BY <1>9, <1>c DEF RepairReadRow, TypeOK, Procs
  <2>2. /\ pc'["repair"] = "query" /\ repairing' = store[d] /\ UNCHANGED store
        /\ store[d] # None /\ store[d].cid = d
    BY <1>9 DEF RepairReadRow, TypeOK, Procs, BooksBehind
  <2> QED
    BY <2>1, <2>2
<1>10. ASSUME NEW x \in ExchangeIds, RepairQueryAnswered(x) PROVE Fresh
  <2>1. TraderFresh
    BY <1>10, <1>c DEF RepairQueryAnswered, TypeOK, Procs
  <2>2. CASE repairing' = None /\ pc' = [pc EXCEPT !["repair"] = "idle"]
    BY <1>10, <1>d, <2>1, <2>2 DEF RepairQueryAnswered, TypeOK, Procs
  <2>3. CASE repairing' = ApplySnapshot(repairing, x)
             /\ pc' = [pc EXCEPT !["repair"] = "write"]
    <3>1. /\ repairing \in OrderRecords /\ pc["repair"] = "query"
          /\ pc'["repair"] = "write" /\ UNCHANGED store
          /\ orders[x] # None /\ orders[x].cid = repairing.cid
      BY <1>10, <2>3 DEF RepairQueryAnswered, TypeOK, Suspended, Procs
    <3>2. repairing'.cid = repairing.cid
      BY <2>3, <3>1 DEF ApplySnapshot, OrderRecords
    <3>3. ASSUME repairing.cid = c
          PROVE  store[c] # None /\ After(repairing', store[c])
      <4>1. store[c] # None /\ repairing = store[c]
        BY <1>b, <3>1, <3>3
      <4>2. store[c].xid = x
        BY <1>a, <3>1, <3>3, <4>1, RowOfAlone
      <4> QED
        BY <2>3, <3>1, <4>1, <4>2, SnapshotIsAfter
    <3> QED
      BY <2>1, <3>1, <3>2, <3>3
  <2> QED
    BY <1>10, <2>2, <2>3 DEF RepairQueryAnswered
<1>11. CASE RepairUnresolved
  BY <1>11, <1>c, <1>d DEF RepairUnresolved, TypeOK, Procs
<1>12. CASE RepairWriteRow
  <2>1. /\ repairing \in OrderRecords /\ pc["repair"] = "write"
        /\ pc'["repair"] = "idle" /\ pc'["trader"] = pc["trader"]
        /\ UNCHANGED routed
    BY <1>12 DEF RepairWriteRow, TypeOK, Suspended, Procs
  <2>2. CASE UNCHANGED store
    BY <1>c, <1>d, <2>1, <2>2
  <2>3. CASE UpsertOrder(repairing) /\ c # repairing.cid
    BY <1>c, <1>d, <2>1, <2>3, UpsertOrderType
  <2>4. CASE c = repairing.cid
    BY <1>b, <2>1, <2>4
  <2> QED
    BY <1>12, <2>2, <2>3, <2>4 DEF RepairWriteRow
<1>13. CASE EnvironmentNext
  <2>1. ASSUME NEW p \in CanRestart, Restart(p) PROVE Fresh
    BY <2>1, <1>c, <1>d DEF Restart, TypeOK, Procs
  <2> QED
    BY <1>13, <1>c, <1>d, <2>1 DEF EnvironmentNext, ExchangeProgress, ExitSafeMode, Tick
<1> QED
  BY <1>1, <1>2, <1>3, <1>4, <1>5, <1>6, <1>7, <1>8, <1>9, <1>10, <1>11, <1>12, <1>13
  DEF Next, TraderNext, RepairNext

-----------------------------------------------------------------------------
(***************************************************************************)
(* The step simulation.                                                    *)
(***************************************************************************)
\* A step that leaves both stores alone is none of the mirror.
LEMMA NoMirrorStep ==
    ASSUME UNCHANGED <<orders, store>>
    PROVE  UNCHANGED Mirror!mirrorVars
BY DEF Mirror!mirrorVars, BookView, MirrorView

\* A step that changes one order changes that order's view only.
LEMMA OneOrderChanges ==
    ASSUME Typed, Typed', NEW x \in ExchangeIds, NEW remote \in ExchangeOrders,
           orders' = [orders EXCEPT ![x] = remote], UNCHANGED store
    PROVE  /\ BookView' = [BookView EXCEPT ![x] = BookView'[x]]
           /\ MirrorView' = MirrorView
           /\ orders'[x] = remote /\ orders'[x] # None
           /\ BookView'[x] \in Mirror!BookOrders
           /\ BookView'[x].cid = remote.cid /\ BookView'[x].filled = remote.filled
<1>1. orders'[x] = remote /\ orders'[x] # None
  BY RecordsAreNotNone DEF Typed, TypeOK
<1>2. \A y \in ExchangeIds : y # x => orders'[y] = orders[y]
  BY DEF Typed, TypeOK
<1>3. \A y \in ExchangeIds : y # x => BookView'[y] = BookView[y]
  BY <1>2 DEF BookView
<1>4. BookView' = [BookView EXCEPT ![x] = BookView'[x]]
  <2>1. BookView = [y \in ExchangeIds |-> BookView[y]]
    BY DEF BookView
  <2>2. BookView' = [y \in ExchangeIds |-> BookView'[y]]
    BY DEF BookView
  <2> QED
    BY <1>3, <2>1, <2>2
<1>5. MirrorView' = MirrorView
  BY DEF MirrorView
<1> QED
  BY <1>1, <1>4, <1>5, ViewsAfter DEF BookViewIsRight, BookViews, Mirror!BookOrders, Typed

\* An order the exchange accepts is placed in the book.
LEMMA AcceptedIsPlaced ==
    ASSUME Typed, Typed', NEW x \in ExchangeIds, NEW remote \in ExchangeOrders,
           ExchangeAccepts(x, remote), UNCHANGED store
    PROVE  Mirror!MirrorNext
<1>1. /\ BookView' = [BookView EXCEPT ![x] = BookView'[x]]
      /\ MirrorView' = MirrorView
      /\ BookView'[x] \in Mirror!BookOrders
      /\ BookView'[x].cid = routed.cid
  BY OneOrderChanges DEF ExchangeAccepts
<1>2. BookView[x] = None
  BY BookViewOf DEF BookViewIsRight, ExchangeAccepts, Typed
<1>3. ASSUME NEW y \in ExchangeIds, BookView[y] # None, BookView[y].cid = routed.cid
      PROVE  BookView[y].closed
  BY <1>3, BookViewOf DEF BookViewIsRight, ExchangeAccepts, IsOpen, Typed
<1>4. Mirror!Place(x, BookView'[x])
  BY <1>1, <1>2, <1>3 DEF Mirror!Place
<1> QED
  BY <1>1, <1>4 DEF Mirror!MirrorNext

\* The exchange executing or closing an order advances the book.
LEMMA ProgressAdvances ==
    ASSUME Typed, Typed', NEW x \in ExchangeIds, NEW remote \in ExchangeOrders,
           ExchangeProgress(x, remote)
    PROVE  Mirror!MirrorNext
<1>1. /\ BookView' = [BookView EXCEPT ![x] = BookView'[x]]
      /\ MirrorView' = MirrorView
      /\ BookView'[x] \in Mirror!BookOrders
      /\ BookView'[x].cid = remote.cid /\ BookView'[x].filled = remote.filled
  BY OneOrderChanges DEF ExchangeProgress
<1>2. /\ BookView[x] # None /\ ~ BookView[x].closed
      /\ BookView[x].cid = remote.cid /\ remote.filled >= BookView[x].filled
  BY BookViewOf DEF BookViewIsRight, ExchangeProgress, IsOpen, Typed
<1>3. Mirror!Advance(x, BookView'[x])
  BY <1>1, <1>2 DEF Mirror!Advance
<1> QED
  BY <1>1, <1>3 DEF Mirror!MirrorNext

\* A row that is written is recorded in the mirror, provided that it goes on from
\* the row it replaces while its id belongs to one order.
LEMMA WriteIsRecorded ==
    ASSUME Typed, Typed', BooksBehind, BooksBehind', NEW o \in OrderRecords,
           UpsertOrder(o), UNCHANGED orders,
           store[o.cid] # None /\ Alone(o.cid) => After(o, store[o.cid])
    PROVE  Mirror!MirrorNext
<1> DEFINE c == o.cid
           m == MirrorView'[c]
<1>1. /\ c \in ClientOrderIds
      /\ store'[c] # None /\ store'[c].xid = o.xid
      /\ store'[c].filled = o.filled /\ store'[c].status = o.status
      /\ \A d \in ClientOrderIds : d # c => store'[d] = store[d]
  BY UpsertOrderType, RecordsAreNotNone DEF OrderRecords, Typed
<1>2. /\ m \in MirrorViews
      /\ m.xid = o.xid /\ m.filled = o.filled
      /\ m.closed = (o.status \in TerminalStatuses)
  BY <1>1, ViewsAfter DEF MirrorViewIsRight
<1>3. MirrorView' = [MirrorView EXCEPT ![c] = m]
  <2>1. \A d \in ClientOrderIds : d # c => MirrorView'[d] = MirrorView[d]
    BY <1>1 DEF MirrorView
  <2> QED
    BY <2>1 DEF MirrorView
<1>4. BookView' = BookView
  BY DEF BookView
<1>5. Mirror!Reflects(c, m)
  <2>1. Lags(store[c])' /\ store'[c] \in OrderRecords /\ store'[c].cid = c
    BY <1>1 DEF BooksBehind, LocalNeverAhead, Typed, TypeOK
  <2>2. /\ o.xid \in ExchangeIds /\ orders[o.xid] # None
        /\ orders[o.xid].cid = c /\ o.filled <= orders[o.xid].filled
        /\ o.status \in TerminalStatuses =>
               o.status = orders[o.xid].status /\ o.filled = orders[o.xid].filled
    BY <1>1, <2>1 DEF Lags, OrderRecords
  <2>3. o.status \in TerminalStatuses => orders[o.xid].status \notin BinanceOpen
    BY <2>2 DEF TerminalStatuses, BinanceOpen
  <2> QED
    BY <1>2, <2>2, <2>3, BookViewOf DEF BookViewIsRight, Mirror!Reflects, Typed
<1>6. MirrorView[c] # None /\ Mirror!Unshared(c) => Mirror!Forward(MirrorView[c], m)
  BY <1>1, <1>2, MirrorViewOf
  DEF MirrorViewIsRight, Mirror!Forward, After, Alone
<1>7. m \in {MirrorView'[c]} \cap Mirror!Reflections
  BY <1>2 DEF MirrorViews, Mirror!Reflections
<1>8. Mirror!Record(c, m)
  BY <1>3, <1>4, <1>5, <1>6 DEF Mirror!Record
<1> HIDE DEF m
<1> QED
  BY <1>1, <1>7, <1>8 DEF Mirror!MirrorNext

\* Every step of OrderFlow is a step of the mirror or leaves both views alone.
LEMMA StepSimulation ==
    Typed /\ BooksBehind /\ WritesAreFresh /\ [Next]_vars
        => [Mirror!MirrorNext]_(Mirror!mirrorVars)
<1> SUFFICES ASSUME Typed, BooksBehind, WritesAreFresh, [Next]_vars
             PROVE  Mirror!MirrorNext \/ UNCHANGED <<orders, store>>
  BY NoMirrorStep
<1>a. Typed' /\ BooksBehind'
  BY TypedNext, BooksBehindNext
<1>1. CASE UNCHANGED vars
  BY <1>1 DEF vars
<1>2. CASE TraderNext
  <2>1. ASSUME NEW x \in ExchangeIds, NEW remote \in ExchangeOrders,
               SubmitAccepted(x, remote) \/ SubmitTimesOut(x, remote)
        PROVE  Mirror!MirrorNext
    BY <1>a, <2>1, AcceptedIsPlaced DEF SubmitAccepted, SubmitTimesOut
  <2>2. CASE PersistRouted
    <3>1. /\ routed \in OrderRecords /\ pc["trader"] = "persist"
          /\ UNCHANGED orders /\ (UpsertOrder(routed) \/ UNCHANGED store)
      BY <2>2 DEF PersistRouted, Typed, TypeOK, Suspended
    <3>2. routed.cid \in ClientOrderIds
      BY <3>1 DEF OrderRecords
    <3>3. Alone(routed.cid) => store[routed.cid] = None
      BY <3>1, <3>2 DEF WritesAreFresh
    <3> QED
      BY <1>a, <3>1, <3>3, WriteIsRecorded
  <2> QED
    BY <1>2, <2>1, <2>2 DEF TraderNext, Route, SubmitRefused
<1>3. CASE DaemonNext
  BY <1>3 DEF DaemonNext, ListOpenRows, FetchAndCompare, ReconcileFails,
              ReconcilePositions
<1>4. CASE RepairNext
  <2>1. CASE RepairWriteRow
    <3>1. /\ repairing \in OrderRecords /\ pc["repair"] = "write"
          /\ UNCHANGED orders /\ (UpsertOrder(repairing) \/ UNCHANGED store)
      BY <2>1 DEF RepairWriteRow, Typed, TypeOK, Suspended
    <3>2. repairing.cid \in ClientOrderIds
      BY <3>1 DEF OrderRecords
    <3>3. Alone(repairing.cid) => After(repairing, store[repairing.cid])
      BY <3>1, <3>2 DEF WritesAreFresh
    <3> QED
      BY <1>a, <3>1, <3>3, WriteIsRecorded
  <2> QED
    BY <1>4, <2>1 DEF RepairNext, RepairUnknownRow, RepairReadRow, RepairQueryAnswered,
                      RepairUnresolved
<1>5. CASE EnvironmentNext
  <2>1. ASSUME NEW x \in ExchangeIds, NEW remote \in ExchangeOrders,
               ExchangeProgress(x, remote)
        PROVE  Mirror!MirrorNext
    BY <1>a, <2>1, ProgressAdvances
  <2> QED
    BY <1>5, <2>1 DEF EnvironmentNext, ExitSafeMode, Restart, Tick
<1> QED
  BY <1>1, <1>2, <1>3, <1>4, <1>5 DEF Next

\* Persistence and repair keep the promise of OrderMirror (repair.py:57-99,
\* sqlite_store.py:48-78): every row shows its order as it once was, and is never
\* taken back while its client order id belongs to one order.
THEOREM MirrorImplemented == Spec => ImplementsOrderMirror
<1>1. Init => Typed /\ BooksBehind /\ WritesAreFresh /\ Mirror!MirrorInit
  <2>1. Init => Typed /\ BooksBehind
    BY TypedInit DEF Init, BooksBehind, LocalNeverAhead, Procs
  <2>2. Init => WritesAreFresh
    BY DEF Init, WritesAreFresh, Procs
  <2>3. Init => Mirror!MirrorInit
    BY DEF Init, Mirror!MirrorInit, BookView, MirrorView
  <2> QED
    BY <2>1, <2>2, <2>3
<1>2. Typed /\ BooksBehind /\ WritesAreFresh /\ [Next]_vars
          => Typed' /\ BooksBehind' /\ WritesAreFresh'
  BY TypedNext, BooksBehindNext, WritesAreFreshNext
<1> QED
  BY <1>1, <1>2, StepSimulation, PTL DEF Spec, ImplementsOrderMirror, Mirror!MirrorSpec

=============================================================================
