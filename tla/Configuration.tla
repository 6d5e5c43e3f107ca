---------------------------- MODULE Configuration ----------------------------
(***************************************************************************)
(* What a process is configured with, and the exchange adapter it gets:    *)
(* config/runtime.py and exchange/factory.py.                              *)
(***************************************************************************)

TradingModes == {"SIGNAL_ONLY", "PAPER_LOCAL", "EXCHANGE_TESTNET"}

\* RuntimeConfig; of the two keys, whether they are set (an empty one is not).
RuntimeConfigs ==
    [tradingMode: TradingModes, exchange: {"BINANCE_USDM_TESTNET", "INERT_TESTNET"},
     apiKey: BOOLEAN, apiSecret: BOOLEAN]

HasCredentials(runtime) == runtime.apiKey /\ runtime.apiSecret

\* build_exchange_adapter: the REST adapter, the in-memory one, or an exception.
Adapter(runtime, allowInertFallback) ==
    CASE runtime.exchange = "INERT_TESTNET" -> "inert"
      [] HasCredentials(runtime)            -> "rest"
      [] allowInertFallback                 -> "inert"
      [] OTHER                              -> "raises"

=============================================================================
