---------------------------- MODULE MCSleeveBLoop ----------------------------
(***************************************************************************)
(* SleeveBLoop on a few symbols.  The caps are wider than the defaults so  *)
(* that two or three positions already come up against them.               *)
(***************************************************************************)
EXTENDS SleeveBLoop, TLC

\* Sized by its risk, or by what the portfolio has left, where the limit price takes it
\* below the minimum notional; sized by the margin of one position, as a SHORT; with no
\* stop distance.
MCSetups ==
    {[side |-> "LONG", entry |-> 100, stop |-> 92],
     [side |-> "SHORT", entry |-> 100, stop |-> 103],
     [side |-> "SHORT", entry |-> 100, stop |-> 100]}

\* The position's notional itself, or only the mark price to compute it from.
MCAnswerFields == {{"notional", "mark"}, {"mark"}}

SymbolSymmetry == Permutations(Symbols)

=============================================================================
