----------------------------- MODULE MCProving -----------------------------
EXTENDS Proving

Order(t, side, price, size, salt) ==
    [trader |-> t, side |-> side, price |-> price, size |-> size, salt |-> salt]

Buy == Order("alice", 0, 6, 4, 1)
Sell == Order("bob", 1, 4, 2, 1)
MCPayloads ==
    {Buy, Sell,
     Order("bob", 1, 4, 6, 2),              \* more than the position limit
     Order("alice", 0, 5, 2, 2),            \* a price with a digit too many
     Order("bob", 1, 4, 2, P),              \* a salt past the field's order
     [Sell EXCEPT !.side = 2]}              \* a side that is none
MCBalances ==                               \* one with a digit too many
    [p \in MCPayloads |-> IF p = Sell THEN {3, 6} ELSE {6}]

MCDefaultPolicy == [min_size |-> 1, min_price |-> 1, position_limit |-> 1]
MCPolicies == {MCDefaultPolicy, [MCDefaultPolicy EXCEPT !.min_size = 2]}

Committed(p) ==
    [trader |-> derive_trader_id(p.trader), addr |-> p.trader, side |-> p.side,
     price |-> decimal_to_scalar(p.price), size |-> decimal_to_scalar(p.size), salt |-> p.salt]
Phantom == Committed(Order("carol", 0, 6, 4, 3))
MCPhantoms == {leaf_of(Phantom)}

Legs == {Committed(Buy), Committed(Sell), Phantom, [Committed(Buy) EXCEPT !.addr = "carol"]}
Funded(leg, balance, position) ==
    [trader |-> leg.trader, addr |-> leg.addr, side |-> leg.side, price |-> leg.price,
     size |-> leg.size, salt |-> leg.salt, balance |-> balance, position |-> position]

(* Balances that suffice, fall short and leave the range; positions at the *)
(* limit on both sides; an is_active that is no bit.                       *)
MCActive ==
    {[bid |-> Funded(b, bb, bp), ask |-> Funded(a, ab, ap), price |-> price, size |-> size,
      active |-> active] :
        b \in Legs, a \in Legs, bb \in {1, 2}, bp \in {0, 1}, ab \in {0, 2, P - 1},
        ap \in {0, P - 1}, price \in {2, 3, P - 2}, size \in {1, 2, P - 1}, active \in {1, 2}}
MCRows ==
    MCActive \cup
    {[bid |-> Funded(b, 0, 0), ask |-> Funded(a, 0, 0), price |-> price, size |-> size,
      active |-> 0] : b \in {Phantom}, a \in {Committed(Sell)}, price \in {3}, size \in {0, 3}}
=============================================================================
