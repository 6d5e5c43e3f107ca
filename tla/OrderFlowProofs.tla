--------------------------- MODULE OrderFlowProofs ---------------------------
(***************************************************************************)
(* Theorems about OrderFlow, for every set of intents, every number of     *)
(* exchange orders, every clock and quantity, and any split of the         *)
(* components into processes.                                              *)
(***************************************************************************)
EXTENDS OrderFlow, TLAPS

-----------------------------------------------------------------------------
(***************************************************************************)
(* Types.  TypeOK is not inductive by itself: a component that is          *)
(* suspended in a call also holds the record it was called with.           *)
(***************************************************************************)
Suspended ==
    /\ pc["trader"] \in {"idle", "submit", "persist"}
    /\ pc["daemon"] \in {"idle", "fetch", "positions", "stopped"}
    /\ pc["repair"] \in {"idle", "query", "write"}
    /\ pc["trader"] # "idle" => routed # None
    /\ pc["repair"] # "idle" => repairing # None

Typed == TypeOK /\ Suspended

\* A record is a record, and None is not one.
LEMMA RecordsAreNotNone ==
    /\ \A o \in OrderRecords : o # None
    /\ \A o \in ExchangeOrders : o # None
    /\ None \notin ExchangeIds
BY FlowAssumption DEF FlowAssumption

\* What the exchange answers is a status the program knows.
LEMMA ParsedStatusType ==
    \A w \in BinanceStatuses : ParsedStatus(w) \in OrderStatuses
BY DEF BinanceStatuses, ParsedStatus, OrderStatuses, BinanceStatusMap

\* The record of an exchange order, as the two writers of rows build it.
LEMMA ExchangeOrderFields ==
    ASSUME NEW o \in ExchangeOrders
    PROVE  /\ o.cid \in ClientOrderIds /\ o.intent \in Intents
           /\ o.status \in BinanceStatuses /\ o.filled \in 0..Qty
BY FlowAssumption DEF FlowAssumption, ExchangeOrders

LEMMA ApplyPayloadType ==
    ASSUME NEW o \in OrderRecords, NEW x \in ExchangeIds, NEW r \in ExchangeOrders
    PROVE  ApplyPayload(o, x, r) \in OrderRecords
<1>1. r.status \in BinanceStatuses /\ r.filled \in 0..Qty
  BY ExchangeOrderFields
<1>2. (IF r.status \in DOMAIN BinanceStatusMap THEN BinanceStatusMap[r.status]
       ELSE o.status) \in OrderStatuses
  BY <1>1 DEF OrderRecords, OrderStatuses, BinanceStatuses, BinanceStatusMap
<1> QED
  BY <1>1, <1>2 DEF ApplyPayload, OrderRecords

LEMMA ApplySnapshotType ==
    ASSUME TypeOK, NEW o \in OrderRecords, NEW x \in ExchangeIds, orders[x] # None
    PROVE  ApplySnapshot(o, x) \in OrderRecords
<1>1. orders[x] \in ExchangeOrders
  BY DEF TypeOK
<1>2. ParsedStatus(orders[x].status) \in OrderStatuses /\ orders[x].filled \in 0..Qty
  BY <1>1, ExchangeOrderFields, ParsedStatusType
<1> QED
  BY <1>2 DEF ApplySnapshot, OrderRecords

LEMMA UpsertOrderType ==
    ASSUME TypeOK, NEW o \in OrderRecords, UpsertOrder(o)
    PROVE  /\ store' \in [ClientOrderIds -> OrderRecords \cup {None}]
           /\ \A c \in ClientOrderIds : c # o.cid => store'[c] = store[c]
           /\ store'[o.cid] \in OrderRecords
           /\ store'[o.cid].xid = o.xid
           /\ store'[o.cid].status = o.status
           /\ store'[o.cid].filled = o.filled
           /\ store'[o.cid].cid =
                  IF store[o.cid] = None THEN o.cid ELSE store[o.cid].cid
<1>1. o.cid \in ClientOrderIds
  BY DEF OrderRecords
<1>2. CASE store[o.cid] = None
  BY <1>1, <1>2 DEF TypeOK, UpsertOrder
<1>3. CASE store[o.cid] # None
  <2> DEFINE r == [store[o.cid] EXCEPT !.xid = o.xid, !.status = o.status,
                                       !.filled = o.filled]
  <2>1. store[o.cid] \in OrderRecords
    BY <1>1, <1>3 DEF TypeOK
  <2>2. r \in OrderRecords /\ r.xid = o.xid /\ r.status = o.status
        /\ r.filled = o.filled /\ r.cid = store[o.cid].cid
    BY <2>1 DEF OrderRecords
  <2>3. store' = [store EXCEPT ![o.cid] = r]
    BY <1>3 DEF UpsertOrder
  <2> QED
    BY <1>1, <1>3, <2>2, <2>3 DEF TypeOK
<1> QED
  BY <1>2, <1>3

LEMMA TypedInit == Init => Typed
BY FlowAssumption DEF Init, Typed, TypeOK, Suspended, Procs, Controllers,
   FlowAssumption

\* The client order id of an intent, at a second of the clock, is one of the ids.
LEMMA ClientOrderIdType ==
    \A i \in Intents, t \in 0..MaxClock : ClientOrderId(i, t) \in ClientOrderIds
BY DEF ClientOrderIds

LEMMA TypedNext == Typed /\ [Next]_vars => Typed'
<1> SUFFICES ASSUME Typed, [Next]_vars PROVE Typed'
  OBVIOUS
<1> USE DEF Typed
<1>1. CASE UNCHANGED vars
  BY <1>1 DEF vars, TypeOK, Suspended
<1>2. ASSUME NEW i \in Intents, Route(i) PROVE Typed'
  <2>1. ClientOrderId(i, clock) \in ClientOrderIds
    BY ClientOrderIdType DEF TypeOK
  <2>2. routed' \in OrderRecords
    BY <1>2, <2>1, FlowAssumption
    DEF Route, OrderRecords, OrderStatuses, FlowAssumption
  <2> QED
    BY <1>2, <2>2, RecordsAreNotNone DEF Route, TypeOK, Suspended, Procs
<1>3. ASSUME NEW x \in ExchangeIds, NEW remote \in ExchangeOrders,
             SubmitAccepted(x, remote)
      PROVE  Typed'
  <2>1. routed \in OrderRecords
    BY <1>3 DEF SubmitAccepted, TypeOK, Suspended
  <2>2. routed' \in OrderRecords
    BY <1>3, <2>1, ApplyPayloadType DEF SubmitAccepted
  <2> QED
    BY <1>3, <2>2, RecordsAreNotNone
    DEF SubmitAccepted, ExchangeAccepts, TypeOK, Suspended, Procs
<1>4. ASSUME NEW x \in ExchangeIds, NEW remote \in ExchangeOrders,
             SubmitTimesOut(x, remote)
      PROVE  Typed'
  BY <1>4 DEF SubmitTimesOut, ExchangeAccepts, TypeOK, Suspended, Procs
<1>5. CASE SubmitRefused
  BY <1>5 DEF SubmitRefused, TypeOK, Suspended, Procs
<1>6. CASE PersistRouted
  <2>1. routed \in OrderRecords
    BY <1>6 DEF PersistRouted, TypeOK, Suspended
  <2>2. store' \in [ClientOrderIds -> OrderRecords \cup {None}]
    BY <1>6, <2>1, UpsertOrderType DEF PersistRouted, TypeOK
  <2> QED
    BY <1>6, <2>2 DEF PersistRouted, TypeOK, Suspended, Procs
<1>7. CASE ListOpenRows
  <2>1. OpenRows \in SUBSET OrderRecords
    BY DEF OpenRows, TypeOK
  <2> QED
    BY <1>7, <2>1 DEF ListOpenRows, TypeOK, Suspended, Procs
<1>8. CASE FetchAndCompare
  BY <1>8 DEF FetchAndCompare, EnterSafeMode, TypeOK, Suspended, Procs
<1>9. CASE ReconcileFails
  BY <1>9 DEF ReconcileFails, EnterSafeMode, TypeOK, Suspended, Procs
<1>10. ASSUME NEW r \in {"consistent", "mismatch"}, ReconcilePositions(r)
       PROVE  Typed'
  <2>1. AfterIteration(report, r) \in {"idle", "stopped"}
    BY DEF AfterIteration
  <2> QED
    BY <1>10, <2>1
    DEF ReconcilePositions, EnterSafeMode, TypeOK, Suspended, Procs
<1>11. ASSUME NEW c \in ClientOrderIds, RepairUnknownRow(c) PROVE Typed'
  BY <1>11 DEF RepairUnknownRow, EnterSafeMode, TypeOK, Suspended
<1>12. ASSUME NEW c \in ClientOrderIds, RepairReadRow(c) PROVE Typed'
  BY <1>12 DEF RepairReadRow, TypeOK, Suspended, Procs
<1>13. ASSUME NEW x \in ExchangeIds, RepairQueryAnswered(x) PROVE Typed'
  <2>1. repairing \in OrderRecords
    BY <1>13 DEF RepairQueryAnswered, TypeOK, Suspended
  <2>2. ApplySnapshot(repairing, x) \in OrderRecords
    BY <1>13, <2>1, ApplySnapshotType DEF RepairQueryAnswered
  <2> QED
    BY <1>13, <2>2, RecordsAreNotNone
    DEF RepairQueryAnswered, TypeOK, Suspended, Procs
<1>14. CASE RepairUnresolved
  BY <1>14 DEF RepairUnresolved, EnterSafeMode, TypeOK, Suspended, Procs
<1>15. CASE RepairWriteRow
  <2>1. repairing \in OrderRecords
    BY <1>15 DEF RepairWriteRow, TypeOK, Suspended
  <2>2. store' \in [ClientOrderIds -> OrderRecords \cup {None}]
    BY <1>15, <2>1, UpsertOrderType DEF RepairWriteRow, TypeOK
  <2> QED
    BY <1>15, <2>2 DEF RepairWriteRow, TypeOK, Suspended, Procs
<1>16. ASSUME NEW x \in ExchangeIds, NEW remote \in ExchangeOrders,
              ExchangeProgress(x, remote)
       PROVE  Typed'
  BY <1>16 DEF ExchangeProgress, TypeOK, Suspended
<1>17. ASSUME NEW p \in Procs, ExitSafeMode(p) PROVE Typed'
  BY <1>17 DEF ExitSafeMode, TypeOK, Suspended
<1>18. ASSUME NEW p \in CanRestart, Restart(p) PROVE Typed'
  BY <1>18 DEF Restart, TypeOK, Suspended, Procs
<1>19. CASE Tick
  BY <1>19, FlowAssumption DEF Tick, TypeOK, Suspended, FlowAssumption
<1> QED
  BY <1>1, <1>2, <1>3, <1>4, <1>5, <1>6, <1>7, <1>8, <1>9, <1>10, <1>11, <1>12,
     <1>13, <1>14, <1>15, <1>16, <1>17, <1>18, <1>19
  DEF Next, TraderNext, DaemonNext, RepairNext, EnvironmentNext

\* Every variable keeps its type, and a suspended component keeps the record of
\* its call (the fields of the classes involved, core/models.py and enums.py).
THEOREM TypeCorrect == Spec => []TypeOK
<1>1. Init => Typed
  BY TypedInit
<1>2. Typed /\ [Next]_vars => Typed'
  BY TypedNext
<1>3. Typed => TypeOK
  BY DEF Typed
<1> QED
  BY <1>1, <1>2, <1>3, PTL DEF Spec

-----------------------------------------------------------------------------
(***************************************************************************)
(* The local books never run ahead of the exchange.                        *)
(*                                                                         *)
(* LocalNeverAhead is not inductive: the row a step writes must carry the  *)
(* client order id it is filed under, and a record being submitted must    *)
(* still be SUBMITTED, since an answer with an unlisted status word leaves *)
(* the status alone.                                                       *)
(***************************************************************************)
BooksBehind ==
    /\ LocalNeverAhead
    /\ \A c \in ClientOrderIds : store[c] # None => store[c].cid = c
    /\ pc["trader"] = "submit" => routed.status = "SUBMITTED"

\* What a step may do to the exchange's orders: none disappears, none loses an
\* execution, none reopens.
BookGrows ==
    \A x \in ExchangeIds : orders[x] # None =>
        /\ orders'[x] # None
        /\ orders'[x].cid = orders[x].cid
        /\ orders'[x].filled >= orders[x].filled
        /\ orders[x].status \notin BinanceOpen => orders'[x] = orders[x]

LEMMA FilledIsNat ==
    ASSUME TypeOK, NEW x \in ExchangeIds, orders[x] # None
    PROVE  orders[x] \in ExchangeOrders /\ orders[x].filled \in Nat
<1>1. orders[x] \in ExchangeOrders
  BY DEF TypeOK
<1> QED
  BY <1>1, ExchangeOrderFields, FlowAssumption DEF FlowAssumption

LEMMA EveryStepGrowsBook == Typed /\ [Next]_vars => BookGrows
<1> SUFFICES ASSUME Typed, [Next]_vars PROVE BookGrows
  OBVIOUS
<1> USE DEF Typed
<1>1. CASE UNCHANGED orders
  BY <1>1, FilledIsNat DEF BookGrows
<1>2. ASSUME NEW x \in ExchangeIds, NEW remote \in ExchangeOrders,
             orders[x] = None, orders' = [orders EXCEPT ![x] = remote]
      PROVE  BookGrows
  <2> SUFFICES ASSUME NEW y \in ExchangeIds, orders[y] # None
               PROVE  orders'[y] = orders[y] /\ orders[y].filled \in Nat
    BY DEF BookGrows
  <2> QED
    BY <1>2, FilledIsNat DEF TypeOK
<1>3. ASSUME NEW x \in ExchangeIds, NEW remote \in ExchangeOrders,
             ExchangeProgress(x, remote)
      PROVE  BookGrows
  <2> SUFFICES ASSUME NEW y \in ExchangeIds, orders[y] # None
               PROVE  /\ orders'[y] # None
                      /\ orders'[y].cid = orders[y].cid
                      /\ orders'[y].filled >= orders[y].filled
                      /\ orders[y].status \notin BinanceOpen =>
                             orders'[y] = orders[y]
    BY DEF BookGrows
  <2>1. CASE y = x
    <3>1. orders'[y] = remote
      BY <1>3, <2>1 DEF ExchangeProgress, TypeOK
    <3> QED
      BY <1>3, <2>1, <3>1, RecordsAreNotNone DEF ExchangeProgress, IsOpen
  <2>2. CASE y # x
    <3>1. orders'[y] = orders[y]
      BY <1>3, <2>2 DEF ExchangeProgress, TypeOK
    <3> QED
      BY <3>1, FilledIsNat
  <2> QED
    BY <2>1, <2>2
<1>4. CASE Next
  <2>1. CASE TraderNext
    BY <1>1, <1>2, <2>1
    DEF TraderNext, Route, SubmitAccepted, SubmitTimesOut, ExchangeAccepts,
        SubmitRefused, PersistRouted
  <2>2. CASE DaemonNext
    BY <1>1, <2>2
    DEF DaemonNext, ListOpenRows, FetchAndCompare, ReconcileFails, ReconcilePositions
  <2>3. CASE RepairNext
    BY <1>1, <2>3
    DEF RepairNext, RepairUnknownRow, RepairReadRow, RepairQueryAnswered,
        RepairUnresolved, RepairWriteRow
  <2>4. CASE EnvironmentNext
    BY <1>1, <1>3, <2>4 DEF EnvironmentNext, ExitSafeMode, Restart, Tick
  <2> QED
    BY <1>4, <2>1, <2>2, <2>3, <2>4 DEF Next
<1> QED
  BY <1>1, <1>4 DEF vars

\* A record that lags keeps lagging while the book grows.
LEMMA LagsStable ==
    ASSUME Typed, Typed', BookGrows
    PROVE  \A o \in OrderRecords : Lags(o) => Lags(o)'
<1> SUFFICES ASSUME NEW o \in OrderRecords, Lags(o) PROVE Lags(o)'
  OBVIOUS
<1>1. o.xid \in ExchangeIds /\ o.filled \in Nat
  BY FlowAssumption DEF Lags, OrderRecords, FlowAssumption
<1>2. orders[o.xid] # None /\ orders[o.xid].filled \in Nat
  BY <1>1, FilledIsNat DEF Lags, Typed
<1>3. /\ orders'[o.xid] # None
      /\ orders'[o.xid].cid = orders[o.xid].cid
      /\ orders'[o.xid].filled >= orders[o.xid].filled
      /\ orders[o.xid].status \notin BinanceOpen => orders'[o.xid] = orders[o.xid]
  BY <1>1, <1>2 DEF BookGrows
<1>4. orders'[o.xid].filled \in Nat
  <2>1. orders'[o.xid] \in ExchangeOrders
    BY <1>1, <1>3 DEF Typed, TypeOK
  <2> QED
    BY <2>1, ExchangeOrderFields, FlowAssumption DEF FlowAssumption
<1>5. o.status \in TerminalStatuses => orders[o.xid].status \notin BinanceOpen
  BY DEF Lags, TerminalStatuses, BinanceOpen
<1> QED
  BY <1>1, <1>2, <1>3, <1>4, <1>5 DEF Lags

\* An exchange answer, parsed into a record of its order, lags behind it.
LEMMA AnswerLags ==
    ASSUME NEW w \in BinanceStatuses
    PROVE  /\ ParsedStatus(w) \in TerminalStatuses => ParsedStatus(w) = w
           /\ ParsedStatus(w) = "UNKNOWN" => w \notin BinanceOpen
           /\ w \in DOMAIN BinanceStatusMap => BinanceStatusMap[w] = ParsedStatus(w)
           /\ w \notin DOMAIN BinanceStatusMap => w \notin BinanceOpen
BY DEF BinanceStatuses, ParsedStatus, TerminalStatuses, BinanceStatusMap, BinanceOpen

\* A record whose call is not disturbed still lags after a step.
LEMMA RowsKeepLagging ==
    ASSUME Typed, Typed', BookGrows, BooksBehind
    PROVE  /\ UNCHANGED store =>
                  \A c \in ClientOrderIds :
                      store'[c] # None => store'[c].cid = c /\ Lags(store[c])'
           /\ pc'["trader"] = "persist" /\ pc["trader"] = "persist"
                  /\ UNCHANGED routed => Lags(routed)'
           /\ pc'["repair"] = "write" /\ pc["repair"] = "write"
                  /\ UNCHANGED repairing => Lags(repairing)'
<1> USE DEF Typed
<1>1. \A o \in OrderRecords : Lags(o) => Lags(o)'
  BY LagsStable
<1>2. ASSUME UNCHANGED store, NEW c \in ClientOrderIds, store'[c] # None
      PROVE  store'[c].cid = c /\ Lags(store[c])'
  <2>1. store[c] \in OrderRecords /\ store[c].cid = c /\ Lags(store[c])
    BY <1>2 DEF TypeOK, BooksBehind, LocalNeverAhead
  <2> QED
    BY <1>1, <1>2, <2>1 DEF Lags
<1>3. ASSUME pc["trader"] = "persist", UNCHANGED routed PROVE Lags(routed)'
  <2>1. routed \in OrderRecords /\ Lags(routed)
    BY <1>3 DEF TypeOK, Suspended, BooksBehind, LocalNeverAhead
  <2> QED
    BY <1>1, <1>3, <2>1 DEF Lags
<1>4. ASSUME pc["repair"] = "write", UNCHANGED repairing PROVE Lags(repairing)'
  <2>1. repairing \in OrderRecords /\ Lags(repairing)
    BY <1>4 DEF TypeOK, Suspended, BooksBehind, LocalNeverAhead
  <2> QED
    BY <1>1, <1>4, <2>1 DEF Lags
<1> QED
  BY <1>2, <1>3, <1>4

\* Writing a record that lags leaves a store of rows that lag.
LEMMA UpsertKeepsLagging ==
    ASSUME Typed, BooksBehind, NEW o \in OrderRecords, Lags(o), UpsertOrder(o),
           UNCHANGED orders
    PROVE  \A c \in ClientOrderIds :
               store'[c] # None => store'[c].cid = c /\ Lags(store[c])'
<1> USE DEF Typed
<1> SUFFICES ASSUME NEW c \in ClientOrderIds, store'[c] # None
             PROVE  store'[c].cid = c /\ Lags(store[c])'
  OBVIOUS
<1>1. CASE c = o.cid
  <2>1. store'[c].cid = c
    BY <1>1, UpsertOrderType DEF BooksBehind
  <2>2. store'[c].xid = o.xid /\ store'[c].status = o.status
        /\ store'[c].filled = o.filled
    BY <1>1, UpsertOrderType
  <2> QED
    BY <1>1, <2>1, <2>2 DEF Lags
<1>2. CASE c # o.cid
  <2>1. store'[c] = store[c]
    BY <1>2, UpsertOrderType
  <2> QED
    BY <2>1 DEF BooksBehind, LocalNeverAhead, Lags
<1> QED
  BY <1>1, <1>2

LEMMA BooksBehindNext == Typed /\ BooksBehind /\ [Next]_vars => BooksBehind'
<1> SUFFICES ASSUME Typed, BooksBehind, [Next]_vars PROVE BooksBehind'
  OBVIOUS
<1> USE DEF Typed
<1>a. Typed' /\ BookGrows
  BY TypedNext, EveryStepGrowsBook
<1>b. /\ UNCHANGED store =>
             \A c \in ClientOrderIds :
                 store'[c] # None => store'[c].cid = c /\ Lags(store[c])'
      /\ pc'["trader"] = "persist" /\ pc["trader"] = "persist"
             /\ UNCHANGED routed => Lags(routed)'
      /\ pc'["repair"] = "write" /\ pc["repair"] = "write"
             /\ UNCHANGED repairing => Lags(repairing)'
  BY <1>a, RowsKeepLagging
<1>c. \* steps that touch neither the rows nor the records being handled
      ASSUME UNCHANGED store,
             (pc'["trader"] = pc["trader"] /\ routed' = routed) \/ pc'["trader"] = "idle",
             (pc'["repair"] = pc["repair"] /\ repairing' = repairing)
                 \/ pc'["repair"] \in {"idle", "query"}
      PROVE  BooksBehind'
  BY <1>b, <1>c DEF BooksBehind, LocalNeverAhead
<1>1. CASE UNCHANGED vars
  BY <1>1, <1>c DEF vars
<1>2. ASSUME NEW i \in Intents, Route(i) PROVE BooksBehind'
  <2>1. pc'["trader"] = "submit" /\ routed'.status = "SUBMITTED"
        /\ pc'["repair"] = pc["repair"]
    BY <1>2 DEF Route, TypeOK, Procs
  <2> QED
    BY <1>2, <1>b, <2>1 DEF Route, BooksBehind, LocalNeverAhead
<1>3. ASSUME NEW x \in ExchangeIds, NEW remote \in ExchangeOrders,
             SubmitAccepted(x, remote)
      PROVE  BooksBehind'
  <2>1. /\ routed \in OrderRecords /\ routed.status = "SUBMITTED"
        /\ pc'["trader"] = "persist" /\ pc'["repair"] = pc["repair"]
    BY <1>3 DEF SubmitAccepted, TypeOK, Suspended, BooksBehind, Procs
  <2>2. /\ remote.cid = routed.cid
        /\ remote.status \in BinanceStatuses /\ remote.filled \in Nat
    BY <1>3, ExchangeOrderFields, FlowAssumption
    DEF SubmitAccepted, ExchangeAccepts, FlowAssumption
  <2>3. orders'[x] = remote /\ x # None /\ remote # None
    BY <1>3, RecordsAreNotNone DEF SubmitAccepted, ExchangeAccepts, TypeOK
  <2>4. /\ routed'.xid = x /\ routed'.filled = remote.filled
        /\ routed'.cid = routed.cid
        /\ routed'.status = IF remote.status \in DOMAIN BinanceStatusMap
                            THEN BinanceStatusMap[remote.status] ELSE routed.status
    BY <1>3, <2>1 DEF SubmitAccepted, ApplyPayload, OrderRecords
  <2>5. Lags(routed)'
    BY <2>1, <2>2, <2>3, <2>4, AnswerLags DEF Lags, TerminalStatuses
  <2> QED
    BY <1>3, <1>b, <2>1, <2>5 DEF SubmitAccepted, BooksBehind, LocalNeverAhead
<1>4. ASSUME NEW x \in ExchangeIds, NEW remote \in ExchangeOrders,
             SubmitTimesOut(x, remote)
      PROVE  BooksBehind'
  BY <1>4, <1>c DEF SubmitTimesOut, TypeOK, Procs
<1>5. CASE SubmitRefused
  BY <1>5, <1>c DEF SubmitRefused, TypeOK, Procs
<1>6. CASE PersistRouted
  <2>1. /\ routed \in OrderRecords /\ Lags(routed)
        /\ pc'["trader"] = "idle" /\ pc'["repair"] = pc["repair"]
    BY <1>6 DEF PersistRouted, TypeOK, Suspended, BooksBehind, LocalNeverAhead, Procs
  <2>2. \A c \in ClientOrderIds :
            store'[c] # None => store'[c].cid = c /\ Lags(store[c])'
    BY <1>6, <1>b, <2>1, UpsertKeepsLagging DEF PersistRouted
  <2> QED
    BY <1>6, <1>b, <2>1, <2>2 DEF PersistRouted, BooksBehind, LocalNeverAhead
<1>7. CASE ListOpenRows
  BY <1>7, <1>c DEF ListOpenRows, TypeOK, Procs
<1>8. CASE FetchAndCompare
  BY <1>8, <1>c DEF FetchAndCompare, TypeOK, Procs
<1>9. CASE ReconcileFails
  BY <1>9, <1>c DEF ReconcileFails, TypeOK, Procs
<1>10. ASSUME NEW r \in {"consistent", "mismatch"}, ReconcilePositions(r)
       PROVE  BooksBehind'
  BY <1>10, <1>c DEF ReconcilePositions, TypeOK, Procs
<1>11. ASSUME NEW c \in ClientOrderIds, RepairUnknownRow(c) PROVE BooksBehind'
  BY <1>11, <1>c DEF RepairUnknownRow
<1>12. ASSUME NEW c \in ClientOrderIds, RepairReadRow(c) PROVE BooksBehind'
  BY <1>12, <1>c DEF RepairReadRow, TypeOK, Procs
<1>13. ASSUME NEW x \in ExchangeIds, RepairQueryAnswered(x) PROVE BooksBehind'
  <2>1. repairing \in OrderRecords /\ orders[x] \in ExchangeOrders /\ x # None
    BY <1>13, RecordsAreNotNone DEF RepairQueryAnswered, TypeOK, Suspended
  <2>2. orders[x].status \in BinanceStatuses /\ orders[x].filled \in Nat
    BY <2>1, ExchangeOrderFields, FlowAssumption DEF FlowAssumption
  <2> DEFINE o == ApplySnapshot(repairing, x)
  <2>3. /\ o.xid = x /\ o.cid = repairing.cid
        /\ o.status = ParsedStatus(orders[x].status)
        /\ o.filled = orders[x].filled
    BY <2>1 DEF ApplySnapshot, OrderRecords
  <2>4. CASE repairing' = None /\ pc' = [pc EXCEPT !["repair"] = "idle"]
    BY <1>13, <1>c, <2>4 DEF RepairQueryAnswered, TypeOK, Procs
  <2>5. CASE repairing' = o /\ pc' = [pc EXCEPT !["repair"] = "write"]
    <3>1. Lags(repairing)'
      BY <1>13, <2>1, <2>2, <2>3, <2>5, AnswerLags DEF RepairQueryAnswered, Lags
    <3>2. pc'["trader"] = pc["trader"] /\ pc'["repair"] = "write"
      BY <2>5 DEF TypeOK, Procs
    <3> QED
      BY <1>13, <1>b, <3>1, <3>2 DEF RepairQueryAnswered, BooksBehind, LocalNeverAhead
  <2> QED
    BY <1>13, <2>4, <2>5 DEF RepairQueryAnswered
<1>14. CASE RepairUnresolved
  BY <1>14, <1>c DEF RepairUnresolved, TypeOK, Procs
<1>15. CASE RepairWriteRow
  <2>1. /\ repairing \in OrderRecords /\ Lags(repairing)
        /\ pc'["repair"] = "idle" /\ pc'["trader"] = pc["trader"]
    BY <1>15 DEF RepairWriteRow, TypeOK, Suspended, BooksBehind, LocalNeverAhead, Procs
  <2>2. \A c \in ClientOrderIds :
            store'[c] # None => store'[c].cid = c /\ Lags(store[c])'
    BY <1>15, <1>b, <2>1, UpsertKeepsLagging DEF RepairWriteRow
  <2> QED
    BY <1>15, <1>b, <2>1, <2>2 DEF RepairWriteRow, BooksBehind, LocalNeverAhead
<1>16. ASSUME NEW x \in ExchangeIds, NEW remote \in ExchangeOrders,
              ExchangeProgress(x, remote)
       PROVE  BooksBehind'
  BY <1>16, <1>c DEF ExchangeProgress
<1>17. ASSUME NEW p \in Procs, ExitSafeMode(p) PROVE BooksBehind'
  BY <1>17, <1>c DEF ExitSafeMode
<1>18. ASSUME NEW p \in CanRestart, Restart(p) PROVE BooksBehind'
  BY <1>18, <1>c DEF Restart, TypeOK, Procs
<1>19. CASE Tick
  BY <1>19, <1>c DEF Tick
<1> QED
  BY <1>1, <1>2, <1>3, <1>4, <1>5, <1>6, <1>7, <1>8, <1>9, <1>10, <1>11, <1>12,
     <1>13, <1>14, <1>15, <1>16, <1>17, <1>18, <1>19
  DEF Next, TraderNext, DaemonNext, RepairNext, EnvironmentNext

\* No row, and no record on its way to becoming one, ever claims an order, a fill
\* or a closure the exchange does not have, whatever interleaving, crash, timeout
\* or repair happens (persistent_router.py:20-22, repair.py:97-99).
THEOREM NeverAhead == Spec => []LocalNeverAhead
<1>1. Init => Typed /\ BooksBehind
  BY TypedInit DEF Init, BooksBehind, LocalNeverAhead, Procs
<1>2. Typed /\ BooksBehind /\ [Next]_vars => Typed' /\ BooksBehind'
  BY TypedNext, BooksBehindNext
<1>3. BooksBehind => LocalNeverAhead
  BY DEF BooksBehind
<1> QED
  BY <1>1, <1>2, <1>3, PTL DEF Spec

-----------------------------------------------------------------------------
(***************************************************************************)
(* Orders reach the exchange licensed.                                     *)
(*                                                                         *)
(* The gates are read in one step and the order is placed in a later one,  *)
(* so the licence must survive the steps in between.  In one process it    *)
(* does because calls do not interleave; in several because nothing but    *)
(* the trader's own process reaches the trader's controller.               *)
(***************************************************************************)
Quiet(p) == pc[p] \in {"idle", "stopped"}

OneCallAtATime ==
    OneProcess => \A p, q \in Procs : p # q => Quiet(p) \/ Quiet(q)

Licensed ==
    /\ OneCallAtATime
    /\ pc["trader"] = "submit" => MayRoute(routed.intent)

LEMMA OneCallAtATimeNext == Typed /\ OneCallAtATime /\ [Next]_vars => OneCallAtATime'
<1> SUFFICES ASSUME Typed, OneCallAtATime, [Next]_vars, OneProcess,
                    NEW p \in Procs, NEW q \in Procs, p # q, ~ Quiet(p)'
             PROVE  Quiet(q)'
  BY DEF OneCallAtATime
<1> USE DEF Typed, Quiet
<1>0. /\ ~ Quiet(p) => Quiet(q)
      /\ ~ Quiet(q) => Quiet(p)
  BY DEF OneCallAtATime
<1>1. CASE UNCHANGED pc
  BY <1>0, <1>1
<1>2. \* a component is suspended further, or returns, in its own call
      ASSUME NEW r \in Procs, NEW l, pc' = [pc EXCEPT ![r] = l], ~ Quiet(r)
      PROVE  Quiet(q)'
  BY <1>0, <1>2 DEF TypeOK
<1>3. \* a component begins a call
      ASSUME NEW r \in Procs, NEW l, pc' = [pc EXCEPT ![r] = l], MayRun(r)
      PROVE  Quiet(q)'
  BY <1>0, <1>3 DEF TypeOK, MayRun
<1>4. CASE TraderNext
  <2> USE DEF Procs
  <2>1. ASSUME NEW i \in Intents, Route(i) PROVE Quiet(q)'
    BY <1>3, <2>1 DEF Route
  <2>2. ASSUME NEW x \in ExchangeIds, NEW remote \in ExchangeOrders,
               SubmitAccepted(x, remote) \/ SubmitTimesOut(x, remote)
        PROVE  Quiet(q)'
    BY <1>2, <2>2 DEF SubmitAccepted, SubmitTimesOut
  <2>3. CASE SubmitRefused \/ PersistRouted
    BY <1>2, <2>3 DEF SubmitRefused, PersistRouted
  <2> QED
    BY <1>4, <2>1, <2>2, <2>3 DEF TraderNext
<1>5. CASE DaemonNext
  <2> USE DEF Procs
  <2>1. CASE ListOpenRows \/ ReconcileFails
    BY <1>3, <2>1 DEF ListOpenRows, ReconcileFails
  <2>2. CASE FetchAndCompare
    BY <1>2, <2>2 DEF FetchAndCompare
  <2>3. ASSUME NEW r \in {"consistent", "mismatch"}, ReconcilePositions(r)
        PROVE  Quiet(q)'
    BY <1>2, <2>3 DEF ReconcilePositions
  <2> QED
    BY <1>5, <2>1, <2>2, <2>3 DEF DaemonNext
<1>6. CASE RepairNext
  <2> USE DEF Procs
  <2>1. ASSUME NEW c \in ClientOrderIds, RepairUnknownRow(c) \/ RepairReadRow(c)
        PROVE  Quiet(q)'
    BY <1>1, <1>3, <2>1 DEF RepairUnknownRow, RepairReadRow
  <2>2. ASSUME NEW x \in ExchangeIds, RepairQueryAnswered(x) PROVE Quiet(q)'
    BY <1>2, <2>2 DEF RepairQueryAnswered
  <2>3. CASE RepairUnresolved \/ RepairWriteRow
    BY <1>2, <2>3 DEF RepairUnresolved, RepairWriteRow
  <2> QED
    BY <1>6, <2>1, <2>2, <2>3 DEF RepairNext
<1>7. CASE EnvironmentNext
  <2>1. ASSUME NEW d \in CanRestart, Restart(d) PROVE Quiet(q)'
    BY <2>1, FlowAssumption DEF Restart, Controller, FlowAssumption, TypeOK
  <2> QED
    BY <1>1, <1>7, <2>1 DEF EnvironmentNext, ExchangeProgress, ExitSafeMode, Tick
<1> QED
  BY <1>1, <1>4, <1>5, <1>6, <1>7 DEF Next, vars

\* While the trader is suspended in a submission, no other component takes the
\* licence away: in one process none is running, in several it enters another
\* controller.
LEMMA EnterElsewhere ==
    ASSUME Typed, OneCallAtATime, pc["trader"] = "submit",
           NEW p \in {"daemon", "repair"}, EnterSafeMode(p),
           ~ Quiet(p) \/ MayRun(p)
    PROVE  safe'[Controller("trader")] = safe[Controller("trader")]
<1>1. ~ OneProcess
  BY DEF OneCallAtATime, Quiet, MayRun, Procs
<1>2. Controller(p) # Controller("trader")
  BY <1>1 DEF Controller
<1>3. Controller(p) \in Controllers /\ Controller("trader") \in Controllers
  BY DEF Controllers, Procs
<1> QED
  BY <1>2, <1>3 DEF EnterSafeMode, Typed, TypeOK

LEMMA LicensedNext == Typed /\ Licensed /\ [Next]_vars => Licensed'
<1> SUFFICES ASSUME Typed, Licensed, [Next]_vars, pc'["trader"] = "submit"
             PROVE  MayRoute(routed.intent)'
  BY OneCallAtATimeNext DEF Licensed
<1> USE DEF Typed
<1>0. \* the submission goes on, and its controller is not entered
      ASSUME pc["trader"] = "submit", UNCHANGED <<mode, routed>>,
             \/ safe'[Controller("trader")] = safe[Controller("trader")]
             \/ safe'[Controller("trader")] = "NORMAL"
      PROVE  MayRoute(routed.intent)'
  BY <1>0 DEF Licensed, MayRoute
<1>1. CASE UNCHANGED vars
  BY <1>0, <1>1 DEF vars
<1>2. CASE TraderNext
  <2>1. ASSUME NEW i \in Intents, Route(i) PROVE MayRoute(routed.intent)'
    <3>1. routed'.intent = i
      BY <2>1 DEF Route
    <3> QED
      BY <2>1, <3>1 DEF Route, MayRoute
  <2>2. ~ \E x \in ExchangeIds, remote \in ExchangeOrders :
              SubmitAccepted(x, remote) \/ SubmitTimesOut(x, remote)
    BY DEF SubmitAccepted, SubmitTimesOut, TypeOK, Procs
  <2>3. ~ SubmitRefused /\ ~ PersistRouted
    BY DEF SubmitRefused, PersistRouted, TypeOK, Procs
  <2> QED
    BY <1>2, <2>1, <2>2, <2>3 DEF TraderNext
<1>3. CASE DaemonNext
  <2>1. pc["trader"] = "submit" /\ UNCHANGED <<mode, routed>>
    BY <1>3 DEF DaemonNext, ListOpenRows, FetchAndCompare, ReconcileFails,
                ReconcilePositions, TypeOK, Procs
  <2>2. UNCHANGED safe \/ (EnterSafeMode("daemon") /\ (~ Quiet("daemon") \/ MayRun("daemon")))
    BY <1>3 DEF DaemonNext, ListOpenRows, FetchAndCompare, ReconcileFails,
                ReconcilePositions, Quiet
  <2> QED
    BY <1>0, <2>1, <2>2, EnterElsewhere DEF Licensed
<1>4. CASE RepairNext
  <2>1. pc["trader"] = "submit" /\ UNCHANGED <<mode, routed>>
    BY <1>4 DEF RepairNext, RepairUnknownRow, RepairReadRow, RepairQueryAnswered,
                RepairUnresolved, RepairWriteRow, TypeOK, Procs
  <2>2. UNCHANGED safe \/ (EnterSafeMode("repair") /\ (~ Quiet("repair") \/ MayRun("repair")))
    BY <1>4 DEF RepairNext, RepairUnknownRow, RepairReadRow, RepairQueryAnswered,
                RepairUnresolved, RepairWriteRow, Quiet
  <2> QED
    BY <1>0, <2>1, <2>2, EnterElsewhere DEF Licensed
<1>5. CASE EnvironmentNext
  <2>1. ASSUME NEW x \in ExchangeIds, NEW remote \in ExchangeOrders,
               ExchangeProgress(x, remote)
        PROVE  MayRoute(routed.intent)'
    BY <1>0, <2>1 DEF ExchangeProgress
  <2>2. ASSUME NEW p \in Procs, ExitSafeMode(p) PROVE MayRoute(routed.intent)'
    BY <1>0, <2>2 DEF ExitSafeMode, TypeOK, Controllers
  <2>3. ASSUME NEW p \in CanRestart, Restart(p) PROVE MayRoute(routed.intent)'
    <3>1. /\ Controller("trader") # Controller(p)
          /\ pc["trader"] = "submit" /\ UNCHANGED <<mode, routed>>
      BY <2>3 DEF Restart, Procs
    <3>2. safe'[Controller("trader")] = safe[Controller("trader")]
      BY <2>3, <3>1 DEF Restart, TypeOK, Controllers, Procs
    <3> QED
      BY <1>0, <3>1, <3>2
  <2>4. CASE Tick
    BY <1>0, <2>4 DEF Tick
  <2> QED
    BY <1>5, <2>1, <2>2, <2>3, <2>4 DEF EnvironmentNext
<1> QED
  BY <1>1, <1>2, <1>3, <1>4, <1>5 DEF Next

\* Only a submission puts a new order on the exchange, and it is the trader's.
LEMMA OnlySubmissionsPlace ==
    ASSUME Typed, [Next]_vars, NEW x \in ExchangeIds,
           orders[x] = None, orders'[x] # None
    PROVE  /\ pc["trader"] = "submit"
           /\ orders'[x].intent = routed.intent
<1> USE DEF Typed
<1>1. ASSUME NEW y \in ExchangeIds, NEW remote \in ExchangeOrders,
             SubmitAccepted(y, remote) \/ SubmitTimesOut(y, remote)
      PROVE  pc["trader"] = "submit" /\ orders'[x].intent = routed.intent
  <2>1. pc["trader"] = "submit" /\ remote.intent = routed.intent
        /\ orders' = [orders EXCEPT ![y] = remote]
    BY <1>1 DEF SubmitAccepted, SubmitTimesOut, ExchangeAccepts
  <2>2. y = x
    BY <2>1 DEF TypeOK
  <2> QED
    BY <2>1, <2>2 DEF TypeOK
<1>2. ASSUME NEW y \in ExchangeIds, NEW remote \in ExchangeOrders,
             ExchangeProgress(y, remote)
      PROVE  FALSE
  BY <1>2 DEF ExchangeProgress, IsOpen, TypeOK
<1>3. orders' # orders
  OBVIOUS
<1>4. CASE TraderNext
  BY <1>1, <1>3, <1>4 DEF TraderNext, Route, SubmitRefused, PersistRouted
<1>5. ~ DaemonNext
  BY <1>3 DEF DaemonNext, ListOpenRows, FetchAndCompare, ReconcileFails, ReconcilePositions
<1>6. ~ RepairNext
  BY <1>3 DEF RepairNext, RepairUnknownRow, RepairReadRow, RepairQueryAnswered,
              RepairUnresolved, RepairWriteRow
<1>7. ~ EnvironmentNext
  BY <1>2, <1>3 DEF EnvironmentNext, ExitSafeMode, Restart, Tick
<1> QED
  BY <1>3, <1>4, <1>5, <1>6, <1>7 DEF Next, vars

\* An order is placed only while everything route() checked still holds: the mode
\* submits, an entry's controller is out of SAFE_MODE, a closing order is
\* reduce-only (order_router.py:39-58).
THEOREM OrdersAreLicensed == Spec => EveryOrderIsLicensed
<1>1. Init => Typed /\ Licensed
  BY TypedInit DEF Init, Licensed, OneCallAtATime, Quiet, Procs
<1>2. Typed /\ Licensed /\ [Next]_vars => Typed' /\ Licensed'
  BY TypedNext, LicensedNext
<1> DEFINE Step == \A x \in ExchangeIds :
           orders[x] = None /\ orders'[x] # None =>
               /\ mode # "SIGNAL_ONLY"
               /\ orders'[x].intent.action = "EN" =>
                      safe[Controller("trader")] = "NORMAL"
               /\ orders'[x].intent.action # "EN" => orders'[x].intent.reduceOnly
<1>3. Typed /\ Licensed /\ [Next]_vars => [Step]_vars
  BY OnlySubmissionsPlace DEF Licensed, MayRoute
<1> HIDE DEF Step
<1>4. Spec => [][Step]_vars
  BY <1>1, <1>2, <1>3, PTL DEF Spec
<1> QED
  BY <1>4 DEF EveryOrderIsLicensed, Step

-----------------------------------------------------------------------------
(***************************************************************************)
(* What a consistent audit means.                                          *)
(*                                                                         *)
(* The daemon compares rows it read earlier with orders it fetches now, so *)
(* both theorems need to know what the rows read are still worth: in any   *)
(* layout they still have a row each, in one process they still are the    *)
(* open rows.                                                              *)
(***************************************************************************)
RowsReadHaveRows == \A r \in localOpen : store[r.cid] # None

RowsReadStand == OneProcess /\ pc["daemon"] = "fetch" => localOpen = OpenRows

\* Only the two writers of rows touch the table, and they remove none.
LEMMA RowsStay ==
    ASSUME Typed, [Next]_vars, NEW c \in ClientOrderIds, store[c] # None
    PROVE  store'[c] # None
<1> USE DEF Typed
<1>1. CASE UNCHANGED store
  BY <1>1
<1>2. ASSUME NEW o \in OrderRecords, UpsertOrder(o)
      PROVE  store'[c] # None
  BY <1>2, UpsertOrderType, RecordsAreNotNone
<1>3. CASE PersistRouted
  BY <1>1, <1>2, <1>3 DEF PersistRouted, TypeOK, Suspended
<1>4. CASE RepairWriteRow
  BY <1>1, <1>2, <1>4 DEF RepairWriteRow, TypeOK, Suspended
<1>5. CASE TraderNext
  BY <1>1, <1>3, <1>5 DEF TraderNext, Route, SubmitAccepted, SubmitTimesOut, SubmitRefused
<1>6. CASE DaemonNext
  BY <1>1, <1>6
  DEF DaemonNext, ListOpenRows, FetchAndCompare, ReconcileFails, ReconcilePositions
<1>7. CASE RepairNext
  BY <1>1, <1>4, <1>7
  DEF RepairNext, RepairUnknownRow, RepairReadRow, RepairQueryAnswered, RepairUnresolved
<1>8. CASE EnvironmentNext
  BY <1>1, <1>8 DEF EnvironmentNext, ExchangeProgress, ExitSafeMode, Restart, Tick
<1> QED
  BY <1>1, <1>5, <1>6, <1>7, <1>8 DEF Next, vars

\* What a step does to the rows the daemon has read.
LEMMA RowsReadChange ==
    ASSUME Typed, [Next]_vars
    PROVE  localOpen' \in {localOpen, {}} \/ localOpen' = OpenRows
<1>1. CASE TraderNext
  BY <1>1 DEF TraderNext, Route, SubmitAccepted, SubmitTimesOut, SubmitRefused, PersistRouted
<1>2. CASE DaemonNext
  BY <1>2
  DEF DaemonNext, ListOpenRows, FetchAndCompare, ReconcileFails, ReconcilePositions
<1>3. CASE RepairNext
  BY <1>3
  DEF RepairNext, RepairUnknownRow, RepairReadRow, RepairQueryAnswered, RepairUnresolved,
      RepairWriteRow
<1>4. CASE EnvironmentNext
  BY <1>4 DEF EnvironmentNext, ExchangeProgress, ExitSafeMode, Restart, Tick
<1> QED
  BY <1>1, <1>2, <1>3, <1>4 DEF Next, vars

LEMMA RowsReadHaveRowsNext ==
    Typed /\ BooksBehind /\ RowsReadHaveRows /\ [Next]_vars => RowsReadHaveRows'
<1> SUFFICES ASSUME Typed, BooksBehind, RowsReadHaveRows, [Next]_vars,
                    NEW r \in localOpen'
             PROVE  store'[r.cid] # None
  BY DEF RowsReadHaveRows
<1>1. r \in OrderRecords /\ r.cid \in ClientOrderIds
  <2>1. r \in OrderRecords
    BY TypedNext DEF Typed, TypeOK
  <2> QED
    BY <2>1 DEF OrderRecords
<1>2. CASE r \in localOpen
  BY <1>1, <1>2, RowsStay DEF RowsReadHaveRows
<1>3. CASE r \in OpenRows
  <2>1. store[r.cid] # None
    BY <1>3 DEF OpenRows, BooksBehind
  <2> QED
    BY <1>1, <2>1, RowsStay
<1> QED
  BY <1>2, <1>3, RowsReadChange

\* The comparison is a step of the daemon in which nothing but its report and its
\* controller change.
LEMMA ComparedIsTheComparison ==
    ASSUME Typed, [Next]_vars, Compared, report' = "consistent", ListsOpenOrders
    PROVE  /\ pc["daemon"] = "fetch"
           /\ Consistent(localOpen, {orders[x] : x \in {y \in ExchangeIds : IsOpen(y)}})
<1> USE DEF Typed
<1>1. pc["daemon"] = "fetch" /\ pc' # pc /\ pc'["daemon"] = "positions"
  BY DEF Compared
<1>2. CASE TraderNext
  BY <1>1, <1>2
  DEF TraderNext, Route, SubmitAccepted, SubmitTimesOut, SubmitRefused, PersistRouted,
      TypeOK, Procs
<1>3. CASE DaemonNext
  BY <1>1, <1>3
  DEF DaemonNext, ListOpenRows, FetchAndCompare, ReconcileFails, ReconcilePositions,
      FetchOpenOrders
<1>4. CASE RepairNext
  BY <1>1, <1>4
  DEF RepairNext, RepairUnknownRow, RepairReadRow, RepairQueryAnswered, RepairUnresolved,
      RepairWriteRow, TypeOK, Procs
<1>5. CASE EnvironmentNext
  BY <1>1, <1>5 DEF EnvironmentNext, ExchangeProgress, ExitSafeMode, Restart, Tick, TypeOK, Procs
<1> QED
  BY <1>1, <1>2, <1>3, <1>4, <1>5 DEF Next, vars

\* The ids the exchange lists are those of its open orders, and a consistent comparison
\* finds the same ids among the rows read.
LEMMA ConsistentMeansSameIds ==
    ASSUME Consistent(localOpen, {orders[x] : x \in {y \in ExchangeIds : IsOpen(y)}})
    PROVE  OpenIds = {r.cid : r \in localOpen}
BY DEF Consistent, OpenIds

\* With an adapter that lists the open orders, a consistent audit leaves no open order
\* without a row, whatever other processes did between its two reads
\* (reconciliation.py:38-55).
THEOREM AuditIsComplete ==
    ASSUME ListsOpenOrders
    PROVE  Spec => AuditComplete
<1>1. Init => Typed /\ BooksBehind /\ RowsReadHaveRows
  BY TypedInit DEF Init, BooksBehind, LocalNeverAhead, RowsReadHaveRows, Procs
<1>2. Typed /\ BooksBehind /\ RowsReadHaveRows /\ [Next]_vars
        => Typed' /\ BooksBehind' /\ RowsReadHaveRows'
  BY TypedNext, BooksBehindNext, RowsReadHaveRowsNext
<1> DEFINE Step == Compared /\ report' = "consistent" => \A c \in OpenIds : store[c] # None
<1>3. Typed /\ RowsReadHaveRows /\ [Next]_vars => [Step]_vars
  <2> SUFFICES ASSUME Typed, RowsReadHaveRows, [Next]_vars,
                      Compared, report' = "consistent", NEW c \in OpenIds
               PROVE  store[c] # None
    OBVIOUS
  <2>1. OpenIds = {r.cid : r \in localOpen}
    BY ComparedIsTheComparison, ConsistentMeansSameIds
  <2> QED
    BY <2>1 DEF RowsReadHaveRows
<1> HIDE DEF Step
<1>4. Spec => [][Step]_vars
  BY <1>1, <1>2, <1>3, PTL DEF Spec
<1> QED
  BY <1>4 DEF AuditComplete, Step

LEMMA RowsReadStandNext ==
    Typed /\ OneCallAtATime /\ RowsReadStand /\ [Next]_vars => RowsReadStand'
<1> SUFFICES ASSUME Typed, OneCallAtATime, RowsReadStand, [Next]_vars,
                    OneProcess, pc'["daemon"] = "fetch"
             PROVE  localOpen' = OpenRows'
  BY DEF RowsReadStand
<1> USE DEF Typed
<1>a. pc["daemon"] = "fetch" => Quiet("trader") /\ Quiet("repair")
  BY DEF OneCallAtATime, Quiet, Procs
<1>b. ASSUME UNCHANGED <<store, localOpen>>, pc["daemon"] = "fetch"
      PROVE  localOpen' = OpenRows'
  BY <1>b DEF RowsReadStand, OpenRows
<1>1. CASE UNCHANGED vars
  BY <1>1, <1>b DEF vars
<1>2. CASE TraderNext
  <2>1. pc["daemon"] = "fetch" /\ UNCHANGED localOpen
    BY <1>2 DEF TraderNext, Route, SubmitAccepted, SubmitTimesOut, SubmitRefused,
                PersistRouted, TypeOK, Procs
  <2>2. UNCHANGED store
    BY <1>2, <1>a, <2>1 DEF TraderNext, Route, SubmitAccepted, SubmitTimesOut, SubmitRefused,
                PersistRouted, Quiet
  <2> QED
    BY <1>b, <2>1, <2>2
<1>3. CASE DaemonNext
  <2>1. localOpen' = OpenRows /\ UNCHANGED store
    BY <1>3 DEF DaemonNext, ListOpenRows, FetchAndCompare, ReconcileFails,
                ReconcilePositions, AfterIteration, TypeOK, Procs
  <2> QED
    BY <2>1 DEF OpenRows
<1>4. CASE RepairNext
  <2>1. pc["daemon"] = "fetch" /\ UNCHANGED localOpen
    BY <1>4 DEF RepairNext, RepairUnknownRow, RepairReadRow, RepairQueryAnswered,
                RepairUnresolved, RepairWriteRow, TypeOK, Procs
  <2>2. UNCHANGED store
    BY <1>4, <1>a, <2>1 DEF RepairNext, RepairUnknownRow, RepairReadRow,
                RepairQueryAnswered, RepairUnresolved, RepairWriteRow, Quiet
  <2> QED
    BY <1>b, <2>1, <2>2
<1>5. CASE EnvironmentNext
  <2>1. UNCHANGED store
    BY <1>5 DEF EnvironmentNext, ExchangeProgress, ExitSafeMode, Restart, Tick
  <2>2. pc["daemon"] = "fetch" /\ UNCHANGED localOpen
    BY <1>5 DEF EnvironmentNext, ExchangeProgress, ExitSafeMode, Restart, Tick, TypeOK, Procs
  <2> QED
    BY <1>b, <2>1, <2>2
<1> QED
  BY <1>1, <1>2, <1>3, <1>4, <1>5 DEF Next

\* The ids of the rows list_open_orders() returns.
LEMMA IdsOfOpenRows ==
    ASSUME TypeOK, BooksBehind
    PROVE  {r.cid : r \in OpenRows} =
               {c \in ClientOrderIds : store[c] # None
                    /\ store[c].status \notin TerminalStatuses}
<1>1. ASSUME NEW c \in ClientOrderIds, store[c] # None
      PROVE  /\ store[c].cid = c
             /\ store[c].status \in OpenStatuses <=> store[c].status \notin TerminalStatuses
  <2>1. store[c].status \in OrderStatuses /\ store[c].cid = c
    BY <1>1 DEF TypeOK, OrderRecords, BooksBehind
  <2> QED
    BY <2>1 DEF OrderStatuses, OpenStatuses, TerminalStatuses
<1>2. ASSUME NEW r \in OpenRows
      PROVE  r.cid \in {c \in ClientOrderIds : store[c] # None
                            /\ store[c].status \notin TerminalStatuses}
  BY <1>1, <1>2 DEF OpenRows
<1>3. ASSUME NEW c \in ClientOrderIds, store[c] # None, store[c].status \notin TerminalStatuses
      PROVE  store[c] \in OpenRows /\ store[c].cid = c
  BY <1>1, <1>3 DEF OpenRows
<1> QED
  BY <1>2, <1>3

\* In one process the two reads of an audit are as good as one: the books are found
\* consistent only if open rows and open orders are the same at that moment
\* (reconciliation.py:38-67).
THEOREM AuditIsExact ==
    ASSUME OneProcess, ListsOpenOrders
    PROVE  Spec => AuditExact
<1> DEFINE IInv == Typed /\ BooksBehind /\ OneCallAtATime /\ RowsReadStand
<1>1. Init => IInv
  BY TypedInit
  DEF Init, BooksBehind, LocalNeverAhead, OneCallAtATime, Quiet, RowsReadStand, Procs
<1>2. IInv /\ [Next]_vars => IInv'
  BY TypedNext, BooksBehindNext, OneCallAtATimeNext, RowsReadStandNext
<1> DEFINE Step ==
        Compared /\ report' = "consistent" =>
            {c \in ClientOrderIds : store[c] # None
                 /\ store[c].status \notin TerminalStatuses} = OpenIds
<1>3. IInv /\ [Next]_vars => [Step]_vars
  <2> SUFFICES ASSUME IInv, [Next]_vars,
                      Compared, report' = "consistent"
               PROVE  {c \in ClientOrderIds : store[c] # None
                           /\ store[c].status \notin TerminalStatuses} = OpenIds
    OBVIOUS
  <2>1. pc["daemon"] = "fetch" /\ OpenIds = {r.cid : r \in localOpen}
    BY ComparedIsTheComparison, ConsistentMeansSameIds
  <2>2. localOpen = OpenRows
    BY <2>1 DEF RowsReadStand
  <2> QED
    BY <2>1, <2>2, IdsOfOpenRows DEF Typed
<1> HIDE DEF IInv, Step
<1>4. Spec => [][Step]_vars
  BY <1>1, <1>2, <1>3, PTL DEF Spec
<1> QED
  BY <1>4, PTL DEF AuditExact, Step

=============================================================================
