---------------------------- MODULE StepCircuit ----------------------------
(***************************************************************************)
(* The constraints one folded auction round must satisfy                   *)
(* (dp-zk step_circuit.rs), those of a client's order proof                *)
(* (commitment_circuit.rs), and the encodings that feed them.              *)
(*                                                                         *)
(* Field elements are the integers modulo P, with P, the widths of the     *)
(* range checks and the fixed-point scale scaled down together: what the   *)
(* real prime guarantees is that the differences the circuit ranges over   *)
(* cannot wrap back into range, and CircuitAssumption says just that.      *)
(* Poseidon is collision free, so a commitment is the record of its        *)
(* inputs, a hash chain the sequence it folds and a Merkle root the set of *)
(* its leaves.                                                             *)
(***************************************************************************)
EXTENDS Integers, Sequences, FiniteSets

CONSTANTS P,            \* the order of the field
          SIZE_BITS,    \* width of prices, sizes and balances
          SOLVENCY_DIFF_BITS,
          SCALE_FACTOR, \* fixed-point scale of decimals
          IVC_BATCH_SIZE, MERKLE_LEAVES

ASSUME CircuitAssumption ==
    /\ {P, SIZE_BITS, SOLVENCY_DIFF_BITS, SCALE_FACTOR, IVC_BATCH_SIZE, MERKLE_LEAVES}
           \subseteq Nat \ {0}
    /\ {2^SIZE_BITS, 2^SOLVENCY_DIFF_BITS} \subseteq Nat \ {0}
    /\ SCALE_FACTOR * 2^SIZE_BITS <= 2^SOLVENCY_DIFF_BITS
    /\ 2^SOLVENCY_DIFF_BITS + 2^SIZE_BITS * 2^SIZE_BITS <= P

F == 0 .. P - 1
add(x, y) == (x + y) % P
sub(x, y) == (x - y) % P
mul(x, y) == (x * y) % P

(* P is prime.                                                             *)
ASSUME FieldAssumption == \A x, y \in 1 .. P - 1 : mul(x, y) # 0

Signed(x) == IF 2 * x < P THEN x ELSE x - P   \* the integer a field element stands for

None == [none |-> TRUE]

-----------------------------------------------------------------------------
(* Encodings.  A decimal is counted in half units of the smallest one the  *)
(* scale can express, so an odd one has a digit too many.                  *)

MAX_ENCODED == 2^SIZE_BITS
Encodes(d) == d >= 0 /\ d % 2 = 0 /\ d \div 2 < MAX_ENCODED
decimal_to_scalar(d) == d \div 2
signed_to_scalar(x) == x % P
Canonical(bytes) == bytes \in F      \* thirty-two bytes reach past the field's order

derive_trader_id(addr) == [poseidon |-> addr]
commit_native(trader, side, price, size, salt) ==
    [trader |-> trader, side |-> side, price |-> price, size |-> size, salt |-> salt]
compute_nullifier(commitment, salt) == [order |-> commitment, salt |-> salt]

-----------------------------------------------------------------------------
(* The order proof: one statement about a commitment and its nullifier.    *)

enforce_range(x, bits) == x < 2^bits

CommitmentCircuit(w) ==
    /\ mul(w.side, sub(1, w.side)) = 0
    /\ enforce_range(w.price, SIZE_BITS)
    /\ enforce_range(w.size, SIZE_BITS)
    /\ w.trader = derive_trader_id(w.addr)

OrderProofPublics(w) ==
    LET c == commit_native(w.trader, w.side, w.price, w.size, w.salt)
    IN  [commitment |-> c, nullifier |-> compute_nullifier(c, w.salt)]

-----------------------------------------------------------------------------
(* The admitted set: a canonical Merkle tree over commitments.             *)

canonical_leaves(commitments) == Cardinality(commitments) <= MERKLE_LEAVES
admitted_set_root(commitments) == commitments
admitted_set_proof(root, leaf) == leaf \in root
admitted_chain_step(prev, root) == Append(prev, root)

-----------------------------------------------------------------------------
(* The families of constraints on a row, each gated by is_active exactly   *)
(* where the circuit multiplies by it.                                     *)

Gate(x, r) == mul(x, r.active)

SideBits(r) == \A b \in {r.bid.side, r.ask.side, r.active} : mul(b, sub(1, b)) = 0

OppositeSides(r) == Gate(sub(add(r.bid.side, r.ask.side), 1), r) = 0

RowRanges(r) ==
    \A x \in {r.size, r.price, r.bid.price, r.ask.price, r.bid.size, r.ask.size,
              r.bid.balance, r.ask.balance} : enforce_range(x, SIZE_BITS)

WithinPolicy(r, policy) ==
    /\ enforce_range(Gate(sub(r.size, policy.min_size), r), SIZE_BITS)
    /\ enforce_range(Gate(sub(r.bid.price, policy.min_price), r), SIZE_BITS)

Crosses(r) ==
    /\ enforce_range(Gate(sub(r.bid.price, r.price), r), SIZE_BITS)
    /\ enforce_range(Gate(sub(r.price, r.ask.price), r), SIZE_BITS)

UniformPrice(r, clearing_price) == Gate(sub(r.price, clearing_price), r) = 0

FillsWithin(r) ==
    \A leg \in {r.bid, r.ask} : enforce_range(Gate(sub(leg.size, r.size), r), SIZE_BITS)

leaf_of(leg) == commit_native(leg.trader, leg.side, leg.price, leg.size, leg.salt)

Members(r, root) ==
    r.active = 0 \/ \A leg \in {r.bid, r.ask} : admitted_set_proof(root, leaf_of(leg))

Solvent(r) ==
    LET notional == mul(r.price, r.size)
    IN  /\ enforce_range(Gate(sub(mul(r.bid.balance, SCALE_FACTOR), notional), r),
                         SOLVENCY_DIFF_BITS)
        /\ enforce_range(Gate(sub(r.ask.balance, r.size), r), SOLVENCY_DIFF_BITS)

WithinPositionAbove(r, limit) ==
    \A pos \in {add(r.bid.position, r.size), sub(r.ask.position, r.size)} :
        enforce_range(Gate(sub(limit, pos), r), SIZE_BITS)

WithinPosition(r, limit) ==
    \A pos \in {add(r.bid.position, r.size), sub(r.ask.position, r.size)} :
        /\ enforce_range(Gate(sub(limit, pos), r), SIZE_BITS)
        /\ enforce_range(Gate(add(limit, pos), r), SIZE_BITS)

Identities(r) ==
    r.active = 0 \/ \A leg \in {r.bid, r.ask} : leg.trader = derive_trader_id(leg.addr)

(* What is constrained of a row alone, and what ties it to its round.      *)
RowSatisfied(r) ==
    /\ SideBits(r)
    /\ OppositeSides(r)
    /\ RowRanges(r)
    /\ Crosses(r)
    /\ FillsWithin(r)
    /\ Solvent(r)
    /\ Identities(r)

RoundSatisfied(r, ext) ==
    /\ UniformPrice(r, ext.clearing_price)
    /\ WithinPolicy(r, ext.policy)
    /\ WithinPosition(r, ext.policy.position_limit)
    /\ Members(r, ext.admitted_root)

(* The running settlement chain, and the leaves and notional that the      *)
(* state hash absorbs: an inactive row leaves the one and zeroes the other *)
SettlementRow(r) == <<r.bid.addr, r.ask.addr, r.price, r.size>>
SettleChainUngated(acc, r) == Append(acc, SettlementRow(r))
SettleChain(acc, r) == IF r.active = 1 THEN Append(acc, SettlementRow(r)) ELSE acc
StateLeaves(r) ==
    IF r.active = 1 THEN <<leaf_of(r.bid), leaf_of(r.ask), mul(r.price, r.size)>> ELSE <<>>

(* The state after a step, from the rows' leaves and the chain they leave. *)
StepState(z, ext, settled, leaves) ==
    [state_hash |-> Append(z.state_hash, leaves),
     round_nonce |-> z.round_nonce + 1,
     policy_hash |-> z.policy_hash,
     settlement_acc |-> settled,
     admit_chain |-> admitted_chain_step(z.admit_chain, ext.admitted_root)]
=============================================================================
