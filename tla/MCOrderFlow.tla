----------------------------- MODULE MCOrderFlow -----------------------------
(***************************************************************************)
(* OrderFlow on two intents, two exchange order ids and two seconds.       *)
(***************************************************************************)
EXTENDS OrderFlow, TLC

\* A Sleeve B entry and the reduce-only stop that closes it.
Entry == [sleeve |-> "B", symbol |-> "ETHUSDT", prefix |-> "setup123",
          action |-> "EN", reduceOnly |-> FALSE]
Stop == [sleeve |-> "B", symbol |-> "ETHUSDT", prefix |-> "setup123",
         action |-> "SL", reduceOnly |-> TRUE]
EntryAndStop == {Entry, Stop}
OneEntry == {Entry}

TestnetOnly == {"EXCHANGE_TESTNET"}
SubmitsOrNot == {"SIGNAL_ONLY", "EXCHANGE_TESTNET"}
AnyComponent == Procs
EveryWord == BinanceStatuses
FewWords == {"NEW", "PARTIALLY_FILLED", "FILLED", "OTHER"}
AllButDaemon == Procs \ {"daemon"}

ExchangeIdSymmetry == Permutations(ExchangeIds)

=============================================================================
