------------------------------ MODULE Proving ------------------------------
(***************************************************************************)
(* From an order's proof to a verified batch: the client commits to and    *)
(* proves an order (dp-client, dp-zk-wasm), the engine derives the same    *)
(* public inputs from the ciphertext and admits it (engine.rs,             *)
(* order_proof.rs), a tick builds the circuit's inputs from its secrets    *)
(* (build_batch_witness, step_circuit.rs) and the aggregator folds them    *)
(* into the pair's accumulator (inline.rs, folding.rs), whose finalized    *)
(* proof travels beside copies of its public state.                        *)
(*                                                                         *)
(* A prover is bound by the constraints alone, so a step of the circuit is *)
(* assigned row by row from every witness the constraints admit            *)
(* (BeginStep, AssignRow, CloseStep); FoldRound is the step this engine    *)
(* really takes, from its own book.                                        *)
(***************************************************************************)
EXTENDS StepCircuit

CONSTANTS Payloads,     \* orders as their traders write them, in decimals and bytes
          Balances,     \* order -> what the balance oracle may answer, in decimals
          Policies,     \* policies a prover may name in a step
          DEFAULT_POLICY,
          Rows,         \* witnesses a prover may try for a row
          Phantoms,     \* commitments never published as OrderPlaced
          BATCH_SIZE,   \* the engine's matches per chunk
          MaxRounds, MaxPlaced

ASSUME ProvingAssumption ==
    /\ DEFAULT_POLICY \in Policies
    /\ \A pol \in Policies :
           /\ {pol.min_size, pol.min_price, pol.position_limit} \subseteq Nat
           /\ pol.min_size < MAX_ENCODED /\ pol.min_price < MAX_ENCODED
           /\ 2 * pol.position_limit < MAX_ENCODED
    /\ \A r \in Rows :
           /\ {r.price, r.size, r.active} \subseteq F
           /\ \A leg \in {r.bid, r.ask} :
                  {leg.side, leg.price, leg.size, leg.balance, leg.position} \subseteq F
    /\ DEFAULT_POLICY.min_size <= 1 /\ DEFAULT_POLICY.min_price <= 1
    /\ \A p \in Payloads :
           /\ p = [trader |-> p.trader, side |-> p.side, price |-> p.price, size |-> p.size,
                   salt |-> p.salt]
           /\ {p.price, p.size} \subseteq Int /\ Balances[p] \subseteq Int
    /\ BATCH_SIZE \in 1 .. IVC_BATCH_SIZE
    /\ {MaxRounds, MaxPlaced} \subseteq Nat

VARIABLES
    book,       \* the live orders, each an OrderPlaced in the public log
    secrets,    \* order -> witness secrets, in memory only
    spent,      \* nullifiers already seen
    acc,        \* the accumulator of the pair, or None
    step,       \* the step being assigned, or None
    row,        \* the row assigned by the last action, if one was
    accepted,   \* the proof that verified in it
    skipped     \* the round of this engine that could not be folded in it

vars == <<book, secrets, spent, acc, step, row, accepted, skipped>>

Quiet == row' = None /\ accepted' = None /\ skipped' = None

-----------------------------------------------------------------------------
(* Admission.                                                              *)

(* The client's own copies of the encoders decide what it can submit.      *)
ClientEncodes(d) == d \in 0 .. 2 * MAX_ENCODED - 1 /\ d % 2 = 0
ClientCanonical(bytes) == bytes < P
from_decimals(p) ==
    [trader |-> derive_trader_id(p.trader), addr |-> p.trader, side |-> p.side,
     price |-> p.price \div 2, size |-> p.size \div 2, salt |-> p.salt]
prepare_order(p) ==
    /\ p.side \in {0, 1}
    /\ ClientEncodes(p.price) /\ ClientEncodes(p.size)
    /\ ClientCanonical(p.salt)

(* The proof carries no more than its publics; they cannot be chosen apart *)
(* from a witness of the commitment circuit.                               *)
prove_order(q) == OrderProofPublics(from_decimals(q))

(* The oracle's answer: the trader's whole escrow in the asset the order   *)
(* spends, in decimals; the contract keeps no positions.                   *)
lookup(p) == {[balance |-> d, position |-> 0] : d \in Balances[p]}

(* The engine's derivation, from the ciphertext and the caller's address.  *)
derive_order_secrets(p, answer) ==
    LET trader_id == derive_trader_id(p.trader)
        c == commit_native(trader_id, IF p.side = 0 THEN 0 ELSE 1, decimal_to_scalar(p.price),
                           decimal_to_scalar(p.size), p.salt)
    IN  [trader_id |-> trader_id, salt |-> p.salt, commitment |-> c,
         nullifier |-> compute_nullifier(c, p.salt), balance |-> answer.balance,
         position |-> answer.position]

(* The pinned key accepts a proof for exactly the publics it was made for. *)
Verifies(proof, publics) == proof = publics

(* The proof that comes with p's ciphertext was made from the order q.     *)
place_encrypted_order(p, q, answer) ==
    /\ Cardinality(spent) < MaxPlaced
    /\ prepare_order(q) /\ CommitmentCircuit(from_decimals(q))
    /\ p.side \in {0, 1}       \* no other byte decodes to a Side
    /\ p.price > 0 /\ p.size > 0
    /\ Canonical(p.salt)
    /\ Encodes(p.price) /\ Encodes(p.size)
    /\ LET s == derive_order_secrets(p, answer)
       IN  /\ Verifies(prove_order(q), [commitment |-> s.commitment, nullifier |-> s.nullifier])
           /\ s.nullifier \notin spent
           /\ spent' = spent \cup {s.nullifier}
           /\ secrets' = [o \in DOMAIN secrets \cup {p} |-> IF o = p THEN s ELSE secrets[o]]
           /\ book' = book \cup {[order |-> p, proved |-> q, commitment |-> s.commitment]}
    /\ Quiet
    /\ UNCHANGED <<acc, step>>

(* An order is cancelled, expires or is filled, and its secret is pruned.  *)
Leave(b) ==
    /\ book' = book \ {b}
    /\ secrets' = [o \in DOMAIN secrets \ {b.order} |-> secrets[o]]
    /\ Quiet
    /\ UNCHANGED <<spent, acc, step>>

(* A restart rebuilds the book and the nullifiers from the log; secrets    *)
(* and accumulators are gone.                                              *)
Restart ==
    /\ secrets' = <<>>
    /\ acc' = None
    /\ Quiet
    /\ UNCHANGED <<book, spent, step>>

(* What the public log says of the live orders.                            *)
Logged == {b.commitment : b \in book}

-----------------------------------------------------------------------------
(* The accumulator.                                                        *)

(* The settlement chain starts at the domain of the contract settled with. *)
compute_z_0(policy) ==
    [state_hash |-> <<>>, round_nonce |-> 0, policy_hash |-> policy,
     settlement_acc |-> <<>>, admit_chain |-> <<>>]

init_accumulator(policy) ==
    [z_0 |-> compute_z_0(policy), z |-> compute_z_0(policy), n_steps |-> 0,
     folded |-> <<>>, logged |-> <<>>]

Accumulator(policy) == IF acc = None THEN init_accumulator(policy) ELSE acc

(* What a row settles, recorded beside the accumulator together with the   *)
(* log at the time of its step.                                            *)
Settles(r) == [bid |-> leaf_of(r.bid), bid_addr |-> r.bid.addr, ask |-> leaf_of(r.ask),
               ask_addr |-> r.ask.addr, price |-> r.price, size |-> r.size]

fold_step(a, z, rows) ==
    [z_0 |-> a.z_0, z |-> z, n_steps |-> a.n_steps + 1, folded |-> a.folded \o rows,
     logged |-> Append(a.logged, Logged)]

Fresh == Accumulator(DEFAULT_POLICY).n_steps < MaxRounds

-----------------------------------------------------------------------------
(* This engine's own round.                                                *)

LegWitnessServerSalt(o, side) ==
    [trader |-> secrets[o].trader_id, addr |-> o.trader, side |-> side, price |-> o.price,
     size |-> o.size, salt |-> 0, balance |-> secrets[o].balance,
     position |-> secrets[o].position]

leg_witness_from(o, side) ==
    [trader |-> secrets[o].trader_id, addr |-> o.trader, side |-> side, price |-> o.price,
     size |-> o.size, salt |-> secrets[o].salt, balance |-> secrets[o].balance,
     position |-> secrets[o].position]

LegScalars(w) ==
    [w EXCEPT !.price = decimal_to_scalar(@), !.size = decimal_to_scalar(@),
              !.balance = decimal_to_scalar(@), !.position = signed_to_scalar(@)]

LegEncodes(w) == Encodes(w.price) /\ Encodes(w.size) /\ Encodes(w.balance)

RowOf(m) ==
    [bid |-> LegScalars(leg_witness_from(m.bid, 0)), ask |-> LegScalars(leg_witness_from(m.ask, 1)),
     price |-> decimal_to_scalar(m.price), size |-> decimal_to_scalar(m.size), active |-> 1]

(* build_batch_witness fails on a leg without a secret, build_rows on a    *)
(* batch too wide or a number that does not encode.                        *)
Witnessed(matches) ==
    \A i \in DOMAIN matches : {matches[i].bid, matches[i].ask} \subseteq DOMAIN secrets
build_rows(matches) ==
    /\ Len(matches) <= BATCH_SIZE
    /\ \A i \in DOMAIN matches :
           /\ Encodes(matches[i].price) /\ Encodes(matches[i].size)
           /\ LegEncodes(leg_witness_from(matches[i].bid, 0))
           /\ LegEncodes(leg_witness_from(matches[i].ask, 1))

(* Orders whose secret is gone are left out of the admitted set.           *)
admitted_commitments ==
    {secrets[o].commitment : o \in DOMAIN secrets \cap {b.order : b \in book}}

(* The tree has a capacity, and a leg outside the admitted set no path.    *)
attach_membership(rows, root) ==
    /\ canonical_leaves(root)
    /\ \A i \in DOMAIN rows : \A leg \in {rows[i].bid, rows[i].ask} :
           admitted_set_proof(root, leaf_of(leg))

(* What the auction may match out of the book: crossing orders, at one     *)
(* price between their limits, none for more than its size.                *)
Matches ==
    {m \in [bid : {b.order : b \in book}, ask : {b.order : b \in book},
            price : {b.order.price : b \in book}, size : {b.order.size : b \in book}] :
        /\ m.bid.side = 0 /\ m.ask.side = 1
        /\ m.bid.price >= m.price /\ m.price >= m.ask.price
        /\ m.size <= m.bid.size /\ m.size <= m.ask.size}

(* One chunk of the matches of a round.                                    *)
Rounds ==
    {<<m>> : m \in Matches} \cup
    {ms \in Matches \X Matches :
        /\ BATCH_SIZE >= 2
        /\ ms[1].price = ms[2].price /\ ms[1].ask # ms[2].ask
        /\ ms[1].bid = ms[2].bid => ms[1].size + ms[2].size <= ms[1].bid.size}

(* The rows a round does not use, and the chain of those it does.          *)
Padding(n) == [i \in 1 .. n |-> <<>>]

settlement_chain(acc0, rows) == acc0 \o [i \in DOMAIN rows |-> SettlementRow(rows[i])]

(* One chunk of run_auction_tick.  The accumulator of a pair is created by *)
(* the first fold that is tried.                                           *)
FoldRound(matches) ==
    /\ Fresh
    /\ LET a == Accumulator(DEFAULT_POLICY)
           root == admitted_set_root(admitted_commitments)
           rows == [i \in DOMAIN matches |-> RowOf(matches[i])]
           ext == [policy |-> DEFAULT_POLICY, clearing_price |-> rows[1].price,
                   admitted_root |-> root]
           built == Witnessed(matches) /\ build_rows(matches) /\ attach_membership(rows, root)
           holds == /\ ext.policy = a.z.policy_hash
                    /\ \A i \in DOMAIN rows :
                           RowSatisfied(rows[i]) /\ RoundSatisfied(rows[i], ext)
           refused == [matches |-> matches, secrets |-> secrets]
       IN  \/ ~built /\ skipped' = refused /\ acc' = acc
           \/ built /\ ~holds /\ skipped' = refused /\ acc' = a
           \/ /\ built /\ holds /\ skipped' = None
              /\ acc' = fold_step(a, StepState(a.z, ext, settlement_chain(a.z.settlement_acc, rows),
                            [i \in DOMAIN rows |-> StateLeaves(rows[i])]
                                \o Padding(IVC_BATCH_SIZE - Len(rows))),
                            [i \in DOMAIN rows |-> Settles(rows[i])])
    /\ row' = None /\ accepted' = None
    /\ UNCHANGED <<book, secrets, spent, step>>

-----------------------------------------------------------------------------
(* Any step the constraints admit.                                         *)

Witnesses == {r \in Rows : RowSatisfied(r)}
ClearingPrices == {r.price : r \in Witnesses}

BeginStep(policy, clearing_price, root) ==
    /\ Fresh
    /\ Accumulator(policy).z.policy_hash = policy
    /\ step' = [ext |-> [policy |-> policy, clearing_price |-> clearing_price,
                         admitted_root |-> root],
                settled |-> Accumulator(policy).z.settlement_acc, leaves |-> <<>>, rows |-> <<>>]
    /\ Quiet
    /\ UNCHANGED <<book, secrets, spent, acc>>

AssignRow(r) ==
    /\ Len(step.leaves) < IVC_BATCH_SIZE
    /\ RoundSatisfied(r, step.ext)
    /\ step' = [step EXCEPT !.settled = SettleChain(@, r), !.leaves = Append(@, StateLeaves(r)),
                            !.rows = IF r.active = 0 THEN @ ELSE Append(@, Settles(r))]
    /\ row' = r /\ accepted' = None /\ skipped' = None
    /\ UNCHANGED <<book, secrets, spent, acc>>

CloseStep ==
    /\ step # None
    /\ Len(step.leaves) = IVC_BATCH_SIZE
    /\ LET a == Accumulator(step.ext.policy)
       IN  acc' = fold_step(a, StepState(a.z, step.ext, step.settled, step.leaves), step.rows)
    /\ step' = None
    /\ Quiet
    /\ UNCHANGED <<book, secrets, spent>>

-----------------------------------------------------------------------------
(* The proof, its copies and its verification.                             *)

(* proof_bytes authenticates the state it was folded to; beside it travel  *)
(* copies.  The accumulator is not reset: the pair's next proof carries on *)
compress_and_finalize ==
    [proof |-> acc, z_0 |-> acc.z_0, z_n |-> acc.z, policy_hash |-> acc.z.policy_hash]

(* The copies are stored, encoded and sent: one of them may arrive changed *)
Delivered(f) ==
    {f, [f EXCEPT !.z_n.settlement_acc = <<>>], [f EXCEPT !.z_n.admit_chain[1] = Logged]}
    \cup UNION {{[f EXCEPT !.policy_hash = pol], [f EXCEPT !.z_n.policy_hash = pol],
                 [f EXCEPT !.policy_hash = pol, !.z_n.policy_hash = pol],
                 [f EXCEPT !.z_0.policy_hash = pol]} : pol \in Policies}

verify_final(f) ==
    /\ f.proof.z_0 = f.z_0
    /\ f.proof.z = f.z_n
    /\ f.policy_hash = f.z_n.policy_hash

Verify ==
    /\ acc # None /\ acc.n_steps > 0
    /\ \E f \in Delivered(compress_and_finalize) :
           accepted' = IF verify_final(f) THEN f ELSE None
    /\ row' = None /\ skipped' = None
    /\ UNCHANGED <<book, secrets, spent, acc, step>>

-----------------------------------------------------------------------------
Init ==
    /\ book = {}
    /\ secrets = <<>>
    /\ spent = {}
    /\ acc = None
    /\ step = None
    /\ row = None
    /\ accepted = None
    /\ skipped = None

(* The rows of a step are assigned within one call of prove_step.          *)
Next ==
    \/ step # None /\ \E r \in Witnesses : AssignRow(r)
    \/ CloseStep
    \/ /\ step = None
       /\ \/ \E p, q \in Payloads : \E answer \in lookup(p) : place_encrypted_order(p, q, answer)
          \/ \E b \in book : Leave(b)
          \/ Restart
          \/ \E matches \in Rounds : FoldRound(matches)
          \/ \E policy \in Policies, price \in ClearingPrices,
                root \in {Logged, Logged \cup Phantoms} : BeginStep(policy, price, root)
          \/ Verify

-----------------------------------------------------------------------------
(* Properties.                                                             *)

(* A row the constraints accept is a trade between integers: the field     *)
(* never wraps a short balance, a limit, a size or a position into range,  *)
(* and all rows of a step trade at one price (enforce_range_60 and         *)
(* enforce_range_n over the differences of generate_step_constraints).     *)
RowsMeanTrades ==
    row # None /\ row.active # 0 =>
        LET pol == step.ext.policy
        IN  /\ row.active = 1
            /\ {row.bid.side, row.ask.side} = {0, 1}
            /\ row.bid.price >= row.price /\ row.price >= row.ask.price
            /\ row.size \in pol.min_size .. row.bid.size
            /\ row.size <= row.ask.size
            /\ row.bid.price >= pol.min_price
            /\ row.price * row.size <= row.bid.balance * SCALE_FACTOR
            /\ row.size <= row.ask.balance
            /\ Signed(row.bid.position) + row.size \in -pol.position_limit .. pol.position_limit
            /\ Signed(row.ask.position) - row.size \in -pol.position_limit .. pol.position_limit
            /\ \A i \in DOMAIN step.rows : step.rows[i].price = row.price

(* What a verified proof binds through the copies that reach the contract: *)
(* the chain it recomputes over the batch is the chain of the rows really  *)
(* folded, all at the price of their round and under the policy named, and *)
(* when the admitted chain is the one a watcher recomputes from the public *)
(* log, every settled leg is an order of that log (verify_final,           *)
(* settlement_acc and admit_chain of the step circuit).                    *)
ProofBindsBatch ==
    accepted # None =>
        LET rows == accepted.proof.folded
        IN  /\ accepted.z_n.settlement_acc
                 = [i \in DOMAIN rows |->
                        <<rows[i].bid_addr, rows[i].ask_addr, rows[i].price, rows[i].size>>]
            /\ \A i \in DOMAIN rows :
                   /\ rows[i].size >= accepted.policy_hash.min_size
                   /\ rows[i].bid.trader = derive_trader_id(rows[i].bid_addr)
                   /\ rows[i].ask.trader = derive_trader_id(rows[i].ask_addr)
            /\ accepted.z_n.admit_chain = accepted.proof.logged =>
                   \A i \in DOMAIN rows : \A leg \in {rows[i].bid, rows[i].ask} :
                       \E n \in DOMAIN accepted.proof.logged :
                           leg \in accepted.proof.logged[n]
            /\ accepted.z_n.round_nonce = Len(accepted.proof.logged)

(* Why a match of admitted orders may legitimately fail to be proved.      *)
Excused(m, held) ==
    \/ ~({m.bid, m.ask} \subseteq DOMAIN held)                  \* placed before a restart
    \/ \E o \in {m.bid, m.ask} : ~Encodes(held[o].balance)       \* more digits than the scale
    \/ SCALE_FACTOR * held[m.bid].balance * 2 < m.price * m.size  \* underfunded at placement
    \/ held[m.ask].balance < m.size
    \/ decimal_to_scalar(m.size) > DEFAULT_POLICY.position_limit

(* The engine admits an order only as its trader proved it, and a round of *)
(* admitted orders that is funded and within the position limit always     *)
(* folds: the commitment derived at admission, the witness rebuilt from    *)
(* the secrets and the admitted set agree (place_encrypted_order,          *)
(* build_batch_witness, attach_membership).                                *)
AdmittedProves ==
    /\ \A b \in book : prove_order(b.proved).commitment = b.commitment /\ b.proved = b.order
    /\ skipped # None =>
           \/ Cardinality(book) > MERKLE_LEAVES                \* a book wider than the tree
           \/ acc # None /\ acc.z.policy_hash # DEFAULT_POLICY
           \/ \E i \in DOMAIN skipped.matches : Excused(skipped.matches[i], skipped.secrets)

Spec == Init /\ [][Next]_vars
=============================================================================
