------------------------------- MODULE MCEngine -------------------------------
(***************************************************************************)
(* Small instances of Engine.  The submissions are chosen so that orders   *)
(* cross, fill partly, expire while resting, and repeat each other's       *)
(* nonce or nullifier in a fresh ciphertext.                               *)
(***************************************************************************)
EXTENDS Engine, TLC

CONSTANTS c1, c2, c3, c4, alice, bob, ethusdc

P(trader, side, price, size, nullifier, nonce, expires_at) ==
    [trader |-> trader, pair |-> ethusdc, side |-> side, price |-> price, size |-> size,
     nullifier |-> nullifier, nonce |-> nonce, expires_at |-> expires_at]

(* c3 carries alice's order intent of c1 again in a fresh envelope: a new  *)
(* nullifier, the nonce of c1.  c4 repeats the nullifier of c1 with another*)
(* nonce.                                                                  *)
AllPlain ==
    c1 :> P(alice, "Buy", 3, 2, 1, 1, 1) @@
    c2 :> P(bob, "Sell", 2, 1, 2, 1, 1) @@
    c3 :> P(alice, "Buy", 3, 2, 3, 1, 1) @@
    c4 :> P(alice, "Buy", 2, 1, 1, 2, 1)

MCPlain == [c \in Ciphertexts |-> AllPlain[c]]

MCConfig == ethusdc :> [min_order_size |-> 1, tick_size |-> 1]

TaskSymmetry == Permutations(Tasks)
=============================================================================
