-------------------------------- MODULE MCDesk --------------------------------
(***************************************************************************)
(* The desk: orders on the in-memory adapter, the sleeve ledger with its   *)
(* circuit breakers, and the borrow readings.  They share no state and no  *)
(* part of the program connects them yet, so each behaviour exercises one  *)
(* of them: their state spaces add up instead of multiplying.              *)
(***************************************************************************)
EXTENDS PaperDesk, SleeveLedger, BorrowStress, TLC

VARIABLE part   \* the component this behaviour exercises

deskVars == <<vars, ledgerVars, reading, part>>

\* The default, a testnet process whose secret is missing, and one that has both
\* keys and is no desk.
MCRuntimes ==
    {[tradingMode |-> "SIGNAL_ONLY", exchange |-> "INERT_TESTNET",
      apiKey |-> FALSE, apiSecret |-> FALSE]}
    \cup [tradingMode: {"EXCHANGE_TESTNET"}, exchange: {"BINANCE_USDM_TESTNET"},
          apiKey: {TRUE}, apiSecret: BOOLEAN]

\* In hundreds, on either side of the stops at -1000, -3000, -3200 and -8000.
MCFigures ==
    {[daily |-> d[1], weekly |-> d[2], monthly |-> d[3]] : d \in
        {<<0, 0, 0>>, <<20, 40, 10>>, <<-9, -31, -79>>, <<-10, 0, 0>>,
         <<-20, -32, 0>>, <<0, 0, -80>>, <<-30, -40, -90>>}}

MCFundings == {-11, -10, -6, -5, 0}

DeskInit ==
    /\ Init /\ LedgerInit /\ BorrowInit
    /\ part \in {"orders", "ledger", "borrow"}

DeskNext ==
    \/ part = "orders" /\ Next /\ UNCHANGED <<ledgerVars, reading, part>>
    \/ part = "ledger" /\ LedgerNext /\ UNCHANGED <<vars, reading, part>>
    \/ part = "borrow" /\ BorrowNext /\ UNCHANGED <<vars, ledgerVars, part>>

DeskSpec == DeskInit /\ [][DeskNext]_deskVars

IdSymmetry == Permutations(Ids)

=============================================================================
