--------------------------- MODULE MCReadWriteSmoke ---------------------------
(***************************************************************************)
(* ReadWriteSmoke with a tick of two and the default margin of 20%: with a *)
(* mark price of 10 the guard excludes prices from 8 to 12, and 13 is a    *)
(* limit price that flooring brings back to 12; with one of 14 it lets a   *)
(* BUY at 11 pass, which fills when the mark price falls to 10.            *)
(***************************************************************************)
EXTENDS ReadWriteSmoke

\* The one configuration a run accepts, and one that fails each of its checks.
MCRuntimes ==
    LET real == [tradingMode |-> "EXCHANGE_TESTNET", exchange |-> "BINANCE_USDM_TESTNET",
                 apiKey |-> TRUE, apiSecret |-> TRUE]
    IN  {real, [real EXCEPT !.tradingMode = "PAPER_LOCAL"],
         [real EXCEPT !.exchange = "INERT_TESTNET"], [real EXCEPT !.apiSecret = FALSE]}

MCStatusWords ==
    {"NEW", "PARTIALLY_FILLED", "FILLED", "CANCELED", "EXPIRED", "OTHER"}

=============================================================================
