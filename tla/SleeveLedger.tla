----------------------------- MODULE SleeveLedger -----------------------------
(***************************************************************************)
(* VirtualSleeveLedger, whose figures are replaced one sleeve at a time,   *)
(* and CircuitBreakerEngine.evaluate on the snapshots taken of it.  Money  *)
(* is counted in hundreds.                                                 *)
(***************************************************************************)
EXTENDS Integers

CONSTANT
    Figures     \* daily, weekly and monthly results a sleeve may report

VARIABLES
    ledger,     \* VirtualSleeveLedger.sleeves
    account,    \* the AccountSnapshot last taken
    decision    \* the CircuitDecision made on it

ledgerVars == <<ledger, account, decision>>

Sleeves == {"A", "B"}

ASSUME LedgerAssumption == Figures \subseteq [daily: Int, weekly: Int, monthly: Int]

-----------------------------------------------------------------------------
\* VirtualSleeveLedger.snapshot: the total, and a copy of the sleeves.
Snapshot == [daily |-> ledger["A"].daily + ledger["B"].daily, sleeves |-> ledger]

\* Mutation: the size of the weekly result is compared, gain or loss.
StopReasonsBySize(daily, sleeves) ==
    {r \in {"GLOBAL_DAILY", "A_DAILY", "A_MONTHLY", "B_WEEKLY"} :
        \/ r = "GLOBAL_DAILY" /\ daily <= -30
        \/ r = "A_DAILY" /\ sleeves["A"].daily <= -10
        \/ r = "A_MONTHLY" /\ sleeves["A"].monthly <= -80
        \/ r = "B_WEEKLY" /\ sleeves["B"].weekly \notin -31..31}

\* The reasons of evaluate, under the default CircuitBreakerConfig.
StopReasons(daily, sleeves) ==
    {r \in {"GLOBAL_DAILY", "A_DAILY", "A_MONTHLY", "B_WEEKLY"} :
        \/ r = "GLOBAL_DAILY" /\ daily <= -30
        \/ r = "A_DAILY" /\ sleeves["A"].daily <= -10
        \/ r = "A_MONTHLY" /\ sleeves["A"].monthly <= -80
        \/ r = "B_WEEKLY" /\ sleeves["B"].weekly <= -32}

\* evaluate: the actions for the account, and those for each sleeve.
Evaluate(daily, sleeves) ==
    LET reasons == StopReasons(daily, sleeves)
        ExitOnly(stop) == IF stop THEN {"BLOCK_NEW_ENTRIES", "EXIT_ONLY"} ELSE {}
    IN  [global |-> IF "GLOBAL_DAILY" \in reasons
                    THEN {"CANCEL_ENTRIES", "FLATTEN_A_REDUCE_ONLY", "BLOCK_NEW_ENTRIES"}
                    ELSE {},
         A |-> ExitOnly({"A_DAILY", "A_MONTHLY"} \cap reasons # {}),
         B |-> ExitOnly("B_WEEKLY" \in reasons)]

LedgerInit ==
    /\ ledger = [s \in Sleeves |-> [daily |-> 0, weekly |-> 0, monthly |-> 0]]
    /\ account = Snapshot
    /\ decision = Evaluate(account.daily, account.sleeves)

UpdateSleeve(s, figures) ==
    /\ ledger' = [ledger EXCEPT ![s] = figures]
    /\ UNCHANGED <<account, decision>>

TakeSnapshot ==
    /\ account' = Snapshot
    /\ decision' = Evaluate(account'.daily, account'.sleeves)
    /\ UNCHANGED ledger

LedgerNext ==
    \/ \E s \in Sleeves, figures \in Figures : UpdateSleeve(s, figures)
    \/ TakeSnapshot

LedgerSpec == LedgerInit /\ [][LedgerNext]_ledgerVars

-----------------------------------------------------------------------------
(***************************************************************************)
(* Properties.                                                             *)
(***************************************************************************)
NoBetter(old, new) == \A f \in {"daily", "weekly", "monthly"} : new[f] <= old[f]

\* Between two snapshots, whatever was updated in between: deeper losses release no
\* action, of the account or of a sleeve; and the other sleeve's figures do not
\* move a sleeve's own actions.
StopsFollowLosses ==
    [][LET old == account.sleeves
           new == account'.sleeves
       IN  /\ (\A s \in Sleeves : NoBetter(old[s], new[s])) =>
                  decision.global \subseteq decision'.global
           /\ \A s \in Sleeves :
                  NoBetter(old[s], new[s]) => decision[s] \subseteq decision'[s]
      ]_ledgerVars

=============================================================================
