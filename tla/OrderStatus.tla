----------------------------- MODULE OrderStatus -----------------------------
(***************************************************************************)
(* The vocabulary every order module shares: the statuses of               *)
(* core/enums.py, the status sets the store and the repair engine select   *)
(* rows with, and the translation of the exchange's own status words.      *)
(***************************************************************************)

OrderStatuses ==
    {"CREATED", "SUBMITTED", "PARTIALLY_FILLED", "FILLED",
     "CANCELED", "REJECTED", "EXPIRED", "UNKNOWN"}

\* Mutation: partially filled orders are not selected.
OpenStatusesUnfilled == {"CREATED", "SUBMITTED", "UNKNOWN"}

\* _OPEN_STATUSES: the rows list_open_orders() selects.
OpenStatuses == {"CREATED", "SUBMITTED", "PARTIALLY_FILLED", "UNKNOWN"}

\* TERMINAL_STATUSES, and the local set of _is_meaningful_status_mismatch.
TerminalStatuses == {"FILLED", "CANCELED", "REJECTED", "EXPIRED"}

-----------------------------------------------------------------------------
(***************************************************************************)
(* The exchange's side.  "OTHER" stands for every status word the exchange *)
(* may send that _BINANCE_STATUS_MAP does not list (EXPIRED_IN_MATCH is    *)
(* one): such an order is closed at the exchange.                          *)
(***************************************************************************)
BinanceStatuses ==
    {"NEW", "PARTIALLY_FILLED", "FILLED", "CANCELED", "REJECTED", "EXPIRED",
     "OTHER"}

BinanceOpen == {"NEW", "PARTIALLY_FILLED"}

BinanceStatusMap ==
    [NEW              |-> "SUBMITTED",
     PARTIALLY_FILLED |-> "PARTIALLY_FILLED",
     FILLED           |-> "FILLED",
     CANCELED         |-> "CANCELED",
     REJECTED         |-> "REJECTED",
     EXPIRED          |-> "EXPIRED"]

\* Mutation: an unlisted word is taken for a cancellation.
ParsedStatusGuessed(word) ==
    IF word \in DOMAIN BinanceStatusMap THEN BinanceStatusMap[word]
                                        ELSE "CANCELED"

\* parse_order_snapshot: an unlisted word becomes UNKNOWN.
ParsedStatus(word) ==
    IF word \in DOMAIN BinanceStatusMap THEN BinanceStatusMap[word]
                                        ELSE "UNKNOWN"

\* Mutation: only the local side's belief counts.
MeaningfulMismatchLocal(local, exchange) ==
    /\ "UNKNOWN" \notin {local, exchange}
    /\ local # exchange
    /\ local \in TerminalStatuses

\* _is_meaningful_status_mismatch: both sides know the order, they differ, and
\* one of them believes it closed.
MeaningfulMismatch(local, exchange) ==
    /\ "UNKNOWN" \notin {local, exchange}
    /\ local # exchange
    /\ {local, exchange} \cap TerminalStatuses # {}

=============================================================================
