--------------------------- MODULE MCCandidateScan ---------------------------
(***************************************************************************)
(* CandidateScan with short periods: three daily closes, two bars of       *)
(* channel and ATR, days of four hours.  Prices lie round the start so     *)
(* that a bar can break out, reverse, overextend or stay.                  *)
(***************************************************************************)
EXTENDS CandidateScan

MCPrices == {17, 19, 20, 21, 23}

=============================================================================
