----------------------------- MODULE OrderMirror -----------------------------
(***************************************************************************)
(* What order persistence and repair promise, whatever the processes do:   *)
(* the local store is a mirror of the exchange's order book that may lag   *)
(* behind it and never shows anything else.  The book is the truth: orders *)
(* appear, execute and close in it on their own.  The mirror keeps, for    *)
(* each client order id, one earlier state of one order of that id; it     *)
(* forgets nothing, and while the id belongs to a single order it only     *)
(* moves forward.                                                          *)
(***************************************************************************)
EXTENDS Naturals

CONSTANTS ClientIds, ExchangeIds, Qty, None

VARIABLES
    book,    \* the exchange's orders, by exchange order id
    mirror   \* what the local store says, by client order id

mirrorVars == <<book, mirror>>

BookOrders == [cid: ClientIds, filled: 0..Qty, closed: BOOLEAN]
Reflections == [xid: ExchangeIds, filled: 0..Qty, closed: BOOLEAN]

MirrorInit ==
    /\ book = [x \in ExchangeIds |-> None]
    /\ mirror = [c \in ClientIds |-> None]

\* An order is placed under a client id no open order has.
Place(x, o) ==
    /\ book[x] = None
    /\ \A y \in ExchangeIds :
           book[y] # None /\ book[y].cid = o.cid => book[y].closed
    /\ book' = [book EXCEPT ![x] = o]
    /\ UNCHANGED mirror

\* An open order executes further, or closes.
Advance(x, o) ==
    /\ book[x] # None /\ ~ book[x].closed
    /\ o.cid = book[x].cid /\ o.filled >= book[x].filled
    /\ book' = [book EXCEPT ![x] = o]
    /\ UNCHANGED mirror

\* m may be what an order of client id c looked like at some time up to now.
Reflects(c, m) ==
    /\ book[m.xid] # None
    /\ book[m.xid].cid = c
    /\ m.filled <= book[m.xid].filled
    /\ m.closed => book[m.xid].closed /\ m.filled = book[m.xid].filled

Unshared(c) ==
    \A x, y \in ExchangeIds :
        book[x] # None /\ book[y] # None /\ book[x].cid = c /\ book[y].cid = c
            => x = y

Forward(m, n) == m.xid = n.xid /\ m.filled <= n.filled /\ (m.closed => n.closed)

Record(c, m) ==
    /\ Reflects(c, m)
    /\ mirror[c] # None /\ Unshared(c) => Forward(mirror[c], m)
    /\ mirror' = [mirror EXCEPT ![c] = m]
    /\ UNCHANGED book

\* o and m are what the step makes of an order or a reflection, named in this way so
\* that TLC need not try them all.
MirrorNext ==
    \/ \E x \in ExchangeIds : \E o \in {book'[x]} \cap BookOrders :
           Place(x, o) \/ Advance(x, o)
    \/ \E c \in ClientIds : \E m \in {mirror'[c]} \cap Reflections : Record(c, m)

MirrorSpec == MirrorInit /\ [][MirrorNext]_mirrorVars

=============================================================================
