------------------------------ MODULE MCDarkPool ------------------------------
(***************************************************************************)
(* A small instance of DarkPool: alice buys base from bob.  In units of    *)
(* 1e18 = 4, one base unit has half that precision and the circuit half;   *)
(* the fee is one half, rounded down, so that small fees vanish.           *)
(***************************************************************************)
EXTENDS DarkPool, TLC

CONSTANTS alice, bob, base, quote

M(price) ==
    [bidTrader |-> alice, askTrader |-> bob, baseToken |-> base, quoteToken |-> quote,
     price |-> price, size |-> 2]

MCScale == base :> 2 @@ quote :> 4

(* Notional 1 with no fee, notional 2 with a fee, a two-match batch whose  *)
(* second match may revert, and a price the circuit cannot have proved.    *)
MCMatchLists == {<<M(2)>>, <<M(4)>>, <<M(2), M(2)>>, <<M(3)>>}

(* Neither arm tells one auction id from another.                          *)
AuctionSymmetry == Permutations(AuctionIds)
=============================================================================
