----------------------------- MODULE SleeveBLoop -----------------------------
(***************************************************************************)
(* SleeveBAutoTestnetLoop.run_once, run after run, with the allocator's    *)
(* gates, against an exchange where entry orders rest, fill or go away,    *)
(* positions close and mark prices move while a run is in progress.        *)
(*                                                                         *)
(* The run reads the account and the positions once, at its start, and     *)
(* decides every candidate by those two snapshots.  The size of an entry   *)
(* and its limit price come from SleeveBAllocator.                         *)
(***************************************************************************)
EXTENDS SleeveBAllocator, FiniteSets, Sequences

CONSTANTS
    Symbols,            \* symbols candidates come for
    Setups,             \* what candidates propose: side, entry and stop price
    MaxNewOrders,       \* loop config: max_new_orders_per_run
    Balances,           \* available balances the account may answer
    MarkPrices,         \* mark prices a position may have when it is read
    AnswerFields,       \* which of notional and markPrice the answers may carry
    FillSizes,          \* bound: contracts a part of an order executes by
    MaxEntries,         \* bound: entry orders the exchange takes in all
    StartsWhileResting  \* TRUE: a run may start while earlier entries rest

VARIABLES
    entries,    \* the exchange's entry orders, in the order they were placed
    rows,       \* the entries that have a row in the order store
    safe,       \* state of the SafeModeController the loop was given
    pc,         \* where run_once is suspended
    account,    \* available_balance as read by this run
    seen,       \* the positions as read by this run
    decided,    \* symbols whose candidate this run is done with, or routes
    routed,     \* the order being submitted, then its place in entries
    submitted,  \* the run's count of accepted routes
    firstOfRun  \* number of entries there were when the last run started

runVars == <<pc, account, seen, decided, routed, submitted, firstOfRun>>
vars == <<entries, rows, safe, pc, account, seen, decided, routed,
          submitted, firstOfRun>>

Candidates == {[symbol |-> s, side |-> u.side, entry |-> u.entry, stop |-> u.stop] :
                  s \in Symbols, u \in Setups}
Orders == [candidate: Candidates, quantity: Nat \ {0}, price: Nat]

\* An entry at the exchange: what is left of the order still rests, what it holds is
\* in the symbol's open position.
Entries == [order: Orders, left: Nat, held: Nat]
Placed == DOMAIN entries

\* What a run keeps of a position it read: its contracts, its mark price and what the
\* allocator takes for its notional.
Positions == [amount: Nat, mark: Nat, notional: Nat]

ASSUME LoopAssumption ==
    /\ IsFiniteSet(Symbols) /\ AllowedSymbols \subseteq Symbols
    /\ Setups \subseteq [side: {"LONG", "SHORT"}, entry: Nat \ {0}, stop: Nat \ {0}]
    /\ MaxNewOrders \in Nat /\ MaxEntries \in Nat
    /\ Balances \subseteq Nat /\ FillSizes \subseteq Nat
    /\ MarkPrices \subseteq Nat \ {0}
    /\ AnswerFields \subseteq SUBSET {"notional", "mark"}
    /\ StartsWhileResting \in BOOLEAN

-----------------------------------------------------------------------------
(***************************************************************************)
(* The account.  Its available balance is not computed from the entries:   *)
(* profits, losses and other positions move it, and a run may read any of  *)
(* Balances.                                                               *)
(***************************************************************************)
SymbolOf(n) == entries[n].order.candidate.symbol
Resting == {n \in Placed : entries[n].left > 0}

\* The entries a symbol's open position is made of, and its contracts.
InPosition(s) == {n \in Placed : SymbolOf(n) = s /\ entries[n].held > 0}
Held == [n \in Placed |-> entries[n].held]
Amount(s) == SumFunctionOnSet(Held, InPosition(s))
OpenPositions == {s \in Symbols : InPosition(s) # {}}

Flat == [amount |-> 0, mark |-> 0, notional |-> 0]
NoOrder == [quantity |-> 0]
NothingSeen == [s \in Symbols |-> Flat]

Init ==
    /\ entries = <<>>
    /\ rows = {}
    /\ safe \in {"NORMAL", "SAFE_MODE"}
    /\ pc = "idle"
    /\ account = 0
    /\ seen = NothingSeen
    /\ decided = {}
    /\ routed = NoOrder
    /\ submitted = 0
    /\ firstOfRun = 0

-----------------------------------------------------------------------------
(***************************************************************************)
(* The allocator, on what the run has read.                                *)
(***************************************************************************)
OpenSeen == {s \in Symbols : seen[s].amount > 0}

UsedNotional == SumFunctionOnSet([s \in OpenSeen |-> seen[s].notional], OpenSeen)

\* The allocator accepts the candidate, and the order it becomes.
Allocated(c) == Accepts(c, account, OpenSeen, UsedNotional)

OrderOf(c) ==
    [candidate |-> c, quantity |-> Quantity(c, account, UsedNotional),
     price |-> NormalizedPrice(c)]

-----------------------------------------------------------------------------
(***************************************************************************)
(* A run.  Without require_ack it rejects every candidate and changes      *)
(* nothing.                                                                *)
(***************************************************************************)
StartRun ==
    /\ pc = "idle"
    /\ StartsWhileResting \/ Resting = {}
    /\ account' \in Balances
    /\ submitted' = 0
    /\ firstOfRun' = Len(entries)
    /\ pc' = "positions"
    /\ UNCHANGED <<entries, rows, safe, seen, decided, routed>>

\* Mutation: the positions of an earlier read are used again.
ReadPositionsOnce ==
    /\ pc = "positions"
    /\ pc' = "decide"
    /\ UNCHANGED <<entries, rows, safe, account, seen, decided, routed, submitted,
                   firstOfRun>>

\* Mutation: a position without a notional counts for nothing.
NotionalTakenOnly(amount, mark, fields) == IF "notional" \in fields THEN amount * mark ELSE 0

\* The position's notional, which the exchange computes at the mark price; where the
\* answer has none, amount times mark price; where it has neither, nothing.
NotionalTaken(amount, mark, fields) == IF fields # {} THEN amount * mark ELSE 0

ReadPositions ==
    /\ pc = "positions"
    /\ \E marks \in [Symbols -> MarkPrices], fields \in AnswerFields :
           seen' = [s \in Symbols |->
                       IF s \in OpenPositions
                       THEN [amount |-> Amount(s), mark |-> marks[s],
                             notional |-> NotionalTaken(Amount(s), marks[s], fields)]
                       ELSE Flat]
    /\ pc' = "decide"
    /\ UNCHANGED <<entries, rows, safe, account, decided, routed, submitted,
                   firstOfRun>>

\* Mutation: the limit is compared with > instead of >=.
MayDecideOneMore == submitted <= MaxNewOrders /\ safe = "NORMAL"

MayDecide == submitted < MaxNewOrders /\ safe = "NORMAL"

\* c is a next candidate the list given to run_once may hold: one per symbol, in any order.
Undecided(c) == pc = "decide" /\ c.symbol \notin decided

\* The candidate is skipped, at the limit or in SAFE_MODE, or the allocator rejects it.
PassOver(c) ==
    /\ Undecided(c)
    /\ ~MayDecide \/ ~Allocated(c)
    /\ decided' = decided \cup {c.symbol}
    /\ UNCHANGED <<entries, rows, safe, pc, account, seen, routed, submitted,
                   firstOfRun>>

AcceptCandidate(c) ==
    /\ Undecided(c)
    /\ MayDecide /\ Allocated(c)
    /\ LET order == OrderOf(c)
       IN  /\ PassesFilters(order.quantity, order.price)
           /\ routed' = order
    /\ decided' = decided \cup {c.symbol}
    /\ pc' = "submit"
    /\ UNCHANGED <<entries, rows, safe, account, seen, submitted, firstOfRun>>

\* run_once is left, and what it held is gone.
LeaveRun ==
    /\ pc' = "idle"
    /\ account' = 0
    /\ seen' = NothingSeen
    /\ decided' = {}
    /\ routed' = NoOrder
    /\ submitted' = 0
    /\ UNCHANGED firstOfRun

\* The order passed the allocator at its entry price and fails the minimum notional at
\* its limit price: the exception ends the run, the candidates behind it included.
FiltersReject(c) ==
    /\ Undecided(c)
    /\ MayDecide /\ Allocated(c)
    /\ LET order == OrderOf(c) IN ~PassesFilters(order.quantity, order.price)
    /\ LeaveRun
    /\ UNCHANGED <<entries, rows, safe>>

\* The exchange takes the order; until it fills, it rests.
PlaceRouted ==
    /\ pc = "submit"
    /\ Len(entries) < MaxEntries
    /\ entries' = Append(entries, [order |-> routed, left |-> routed.quantity, held |-> 0])

SubmitAccepted ==
    /\ PlaceRouted
    /\ pc' = "persist"
    /\ UNCHANGED <<rows, safe, account, seen, decided, routed, submitted, firstOfRun>>

\* Mutation: the loop catches the exception and takes the next candidate.
SubmitTimesOutCaught ==
    /\ PlaceRouted
    /\ pc' = "decide"
    /\ routed' = NoOrder
    /\ UNCHANGED <<rows, safe, account, seen, decided, submitted, firstOfRun>>

\* The order is placed but its answer is lost: the exception ends the run.
SubmitTimesOut ==
    /\ PlaceRouted
    /\ LeaveRun
    /\ UNCHANGED <<rows, safe>>

\* Mutation: an error of the store is swallowed.
PersistRoutedLeniently ==
    /\ pc = "persist"
    /\ rows' \in {rows, rows \cup {Len(entries)}}
    /\ submitted' = submitted + 1
    /\ pc' = "decide"
    /\ routed' = NoOrder
    /\ UNCHANGED <<entries, safe, account, seen, decided, firstOfRun>>

PersistRouted ==
    /\ pc = "persist"
    /\ rows' = rows \cup {Len(entries)}
    /\ submitted' = submitted + 1
    /\ pc' = "decide"
    /\ routed' = NoOrder
    /\ UNCHANGED <<entries, safe, account, seen, decided, firstOfRun>>

Return ==
    /\ pc = "decide"
    /\ LeaveRun
    /\ UNCHANGED <<entries, rows, safe>>

\* A read raises, the exchange refuses the order, or SQLite does: nothing catches
\* the exception.
RunAborts ==
    /\ pc \in {"positions", "decide", "submit", "persist"}
    /\ LeaveRun
    /\ UNCHANGED <<entries, rows, safe>>

-----------------------------------------------------------------------------
(***************************************************************************)
(* The exchange, and the controller between two runs.                      *)
(***************************************************************************)
\* A resting entry executes, in part or to the end.  An order against an open position
\* would reduce it; that is left out.
Fill(n, amount) ==
    /\ n \in Resting
    /\ amount \in 1..entries[n].left
    /\ \A m \in InPosition(SymbolOf(n)) :
           entries[m].order.candidate.side = entries[n].order.candidate.side
    /\ entries' = [entries EXCEPT ![n].left = @ - amount, ![n].held = @ + amount]
    /\ UNCHANGED <<rows, safe, runVars>>

GoesAway(n) ==
    /\ n \in Resting
    /\ entries' = [entries EXCEPT ![n].left = 0]
    /\ UNCHANGED <<rows, safe, runVars>>

ClosePosition(s) ==
    /\ InPosition(s) # {}
    /\ entries' = [n \in Placed |-> IF SymbolOf(n) = s THEN [entries[n] EXCEPT !.held = 0]
                                                       ELSE entries[n]]
    /\ UNCHANGED <<rows, safe, runVars>>

SwitchSafeMode ==
    /\ pc = "idle"
    /\ safe' \in {"NORMAL", "SAFE_MODE"} \ {safe}
    /\ UNCHANGED <<entries, rows, runVars>>

-----------------------------------------------------------------------------
RunNext ==
    \/ StartRun
    \/ ReadPositions
    \/ \E c \in Candidates : PassOver(c) \/ AcceptCandidate(c) \/ FiltersReject(c)
    \/ SubmitAccepted
    \/ SubmitTimesOut
    \/ PersistRouted
    \/ Return
    \/ RunAborts

ExchangeNext ==
    \/ \E n \in Resting : \E amount \in FillSizes \cup {entries[n].left} : Fill(n, amount)
    \/ \E n \in Resting : GoesAway(n)
    \/ \E s \in Symbols : ClosePosition(s)

Next == RunNext \/ ExchangeNext \/ SwitchSafeMode

Spec == Init /\ [][Next]_vars

-----------------------------------------------------------------------------
(***************************************************************************)
(* Properties.                                                             *)
(***************************************************************************)
TypeOK ==
    /\ entries \in Seq(Entries) /\ Len(entries) <= MaxEntries
    /\ rows \subseteq Placed
    /\ safe \in {"NORMAL", "SAFE_MODE"}
    /\ pc \in {"idle", "positions", "decide", "submit", "persist"}
    /\ account \in Balances \cup {0}
    /\ seen \in [Symbols -> Positions]
    /\ decided \subseteq Symbols
    /\ pc \in {"submit", "persist"} => routed \in Orders
    /\ submitted \in 0..MaxNewOrders
    /\ firstOfRun \in 0..Len(entries)

OfRun == (firstOfRun + 1)..Len(entries)

\* A run never has more entries placed than max_new_orders_per_run, counting the
\* ones whose answer was lost, which the run itself does not count
\* (sleeve_b_testnet_loop.py:92, 108-110).
RunIsBounded == Cardinality(OfRun) <= MaxNewOrders

\* Whenever the loop turns to another candidate, or is about to return its result,
\* every entry it placed so far has its row and is in the reported count
\* (sleeve_b_testnet_loop.py:108-125, persistent_router.py:20-22).
RunIsRecorded ==
    pc = "decide" => OfRun \subseteq rows /\ submitted = Cardinality(OfRun)

\* "no pyramiding: one position per symbol": a position is made of one entry
\* (docs/sleeve_b_testnet_allocator.md:27, sleeve_b_allocator.py:68).
NoPyramiding == \A s \in Symbols : Cardinality(InPosition(s)) <= 1

\* There are never more open positions than max_concurrent_positions.  A run of several
\* orders may break it, one of a single order may not (SleeveBLoopProofs)
\* (docs/sleeve_b_auto_testnet_loop.md:36, sleeve_b_allocator.py:71).
PositionsBounded == Cardinality(OpenPositions) <= MaxPositions

\* A run counts the positions once, before its own orders fill: max_concurrent_positions
\* may be exceeded by the orders of one run after its first, and by no more, however
\* many runs, fills and closes there are; and once a later run has placed an order, only
\* by that run's (sleeve_b_testnet_loop.py:83, 91-100, sleeve_b_allocator.py:71).
OvershootBounded ==
    /\ OpenPositions # {} => Cardinality(OpenPositions) < MaxPositions + MaxNewOrders
    /\ OfRun # {} => Cardinality(OpenPositions) < MaxPositions + Cardinality(OfRun)

\* The notional an order was sized for.
Sized(order) == order.quantity * order.candidate.entry

OpenNow == SumFunctionOnSet([s \in OpenSeen |-> Amount(s) * seen[s].mark], OpenSeen)
SizedByRun == SumFunctionOnSet([n \in OfRun |-> Sized(entries[n].order)], OfRun)

\* When an order goes out, the positions the run has read, as large as they are by then
\* and at the marks they were read at, the run's earlier orders and the new one together
\* keep within the portfolio's margin cap, but for the earlier orders, none of which is
\* taken off for the next: each may exceed the cap by the margin of one position
\* (sleeve_b_testnet_loop.py:82-100, sleeve_b_allocator.py:75-84, 134-141).
PortfolioCapKept ==
    pc = "submit" =>
        10000 * (OpenNow + SizedByRun + Sized(routed))
            <= NotionalOf(account, PortfolioPercent)
                   + Cardinality(OfRun) * NotionalOf(account, PerPositionPercent)

\* An order on its way to the exchange is within both bounds it was sized by, although
\* its limit price was set after the size: it takes at most the margin of one
\* position, plus the offset of the price; and what it loses from that price to its
\* stop is within the risk budget, but for the flooring of a SHORT price to the tick
\* (sleeve_b_allocator.py:78-100, sleeve_b_testnet_loop.py:162-166, filters.py:22-46).
OrderWithinPlan ==
    pc \in {"submit", "persist"} =>
        /\ 10000 * routed.quantity * routed.price
               <= NotionalOf(account, PerPositionPercent) + OffsetBps * Sized(routed)
        /\ 10000 * routed.quantity * (LossTo(routed.candidate, routed.price) - TickSize)
               < RiskBudget(account)

=============================================================================
