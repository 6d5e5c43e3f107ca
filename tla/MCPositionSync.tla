--------------------------- MODULE MCPositionSync ---------------------------
(***************************************************************************)
(* PositionSync on two keys, with long, short and flat positions.          *)
(***************************************************************************)
EXTENDS PositionSync, TLC

ShortToLong == {-1, 0, 2, 3}

KeySymmetry == Permutations(Keys)

=============================================================================
