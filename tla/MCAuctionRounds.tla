--------------------------- MODULE MCAuctionRounds ---------------------------
(***************************************************************************)
(* Small instances of AuctionRounds.  The traders are interchangeable.     *)
(***************************************************************************)
EXTENDS AuctionRounds, TLC

TraderSymmetry == Permutations(Addresses)
=============================================================================
