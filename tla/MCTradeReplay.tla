---------------------------- MODULE MCTradeReplay ----------------------------
(***************************************************************************)
(* TradeReplay with small numbers: a stop two away and targets three, five *)
(* and eight away, the proportions of the defaults; bars of every shape    *)
(* over prices beyond the stop, at it, between it and the entry, at the    *)
(* entry, at each target and beyond the last.                              *)
(***************************************************************************)
EXTENDS TradeReplay

MCTargets == <<3, 5, 8>>
MCFractions == <<3, 3, 4>>
MCOffsets == {-3, -2, -1, 0, 3, 5, 8, 9}

=============================================================================
