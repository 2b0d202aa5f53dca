------------------------------ MODULE MCSessions ------------------------------
(***************************************************************************)
(* A small instance of Sessions: a nonce lives one tick, so a message may  *)
(* be dated at most two ticks ahead.                                       *)
(***************************************************************************)
EXTENDS Sessions

CONSTANTS alice, bob, here, elsewhere

T(w, site, iat, exp, nbf) == [wallet |-> w, site |-> site, issued |-> iat, exp |-> exp, nbf |-> nbf]

(* Ordinary, not valid yet, and for another site and without expiry.       *)
MCSignable ==
    {T(alice, here, 0, 1, 0), T(bob, here, 0, 1, 0), T(alice, elsewhere, 0, NoExpiry, 0),
     T(bob, here, 1, 3, 1)}

B(p, w) == [commitment |-> 1, proof |-> p, ciphertext |-> 1, trader |-> w]

MCBodies == {B(1, alice), B(1, bob), B(2, alice)}

MCKeyConfigs == {[public |-> {}, operator |-> {""}], [public |-> {"op"}, operator |-> {"op"}]}
=============================================================================
