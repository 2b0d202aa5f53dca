----------------------------- MODULE ProvingProofs -----------------------------
(***************************************************************************)
(* Proofs about the step circuit and the proofs folded from it, for every  *)
(* prime field, width of the range checks, scale and batch size that       *)
(* CircuitAssumption admits: a row that the constraints accept is a trade  *)
(* between integers, a proof that verifies binds the batch it settles, and *)
(* the rounds of admitted orders satisfy the constraints.                  *)
(***************************************************************************)
EXTENDS Proving, SequenceTheorems, FiniteSetTheorems, TLAPS

M == MAX_ENCODED
D == 2^SOLVENCY_DIFF_BITS

-----------------------------------------------------------------------------
(* Field arithmetic.                                                       *)

(* The sizes that CircuitAssumption relates, as numbers.                   *)
LEMMA Sizes ==
    /\ P \in Nat /\ P > 0 /\ M \in Nat /\ M > 0 /\ D \in Nat /\ D > 0
    /\ SCALE_FACTOR \in Nat /\ SCALE_FACTOR > 0
    /\ SCALE_FACTOR * M <= D /\ D + M * M <= P
  BY CircuitAssumption DEF M, D, MAX_ENCODED

(* ... and so a field has room for several of them.                        *)
LEMMA Room == M <= D /\ M <= M * M /\ 2 * M <= P /\ (M = 1 \/ 3 * M <= P) /\ D < P
  <1>1. \A s, m \in Nat : s > 0 => m <= s * m
    OBVIOUS
  <1>2. \A m \in Nat : m > 0 => m <= m * m
    OBVIOUS
  <1>3. \A m \in Nat : m > 1 => 2 * m <= m * m
    OBVIOUS
  <1> DEFINE s == SCALE_FACTOR * M
             q == M * M
  <1>4. M <= s /\ M <= q /\ (M = 1 \/ 2 * M <= q)
    BY <1>1, <1>2, <1>3, Sizes
  <1>5. s <= D /\ D + q <= P /\ s \in Nat /\ q \in Nat
    BY Sizes
  <1> HIDE DEF s, q
  <1>6. M <= D /\ 2 * M <= P /\ (M = 1 \/ 3 * M <= P) /\ D < P
    BY <1>4, <1>5, Sizes
  <1> QED
    BY <1>4, <1>6 DEF q

(* Differences and sums of field elements wrap at most once.               *)
LEMMA SubWraps ==
    ASSUME NEW x \in F, NEW y \in F
    PROVE  /\ sub(x, y) \in F
           /\ x >= y => sub(x, y) = x - y
           /\ x < y => sub(x, y) = x - y + P
  BY Sizes DEF sub, F

(* Sums.                                                                   *)
LEMMA AddWraps ==
    ASSUME NEW x \in F, NEW y \in F
    PROVE  /\ add(x, y) \in F
           /\ x + y < P => add(x, y) = x + y
           /\ x + y >= P => add(x, y) = x + y - P
  BY Sizes DEF add, F

(* A product below the order is the integers' product.                     *)
LEMMA MulExact ==
    ASSUME NEW x \in Nat, NEW y \in Nat, x * y < P
    PROVE  mul(x, y) = x * y
  <1> DEFINE z == x * y
  <1>1. z \in Nat /\ z < P
    OBVIOUS
  <1> HIDE DEF z
  <1>2. z % P = z
    BY <1>1, Sizes
  <1> QED
    BY <1>2 DEF mul, z

(* A gate that is open.                                                    *)
LEMMA GateOpen ==
    ASSUME NEW r, r.active = 1, NEW x \in F
    PROVE  Gate(x, r) = x
  <1>1. x * 1 = x /\ x \in Nat /\ x < P
    BY Sizes DEF F
  <1> QED
    BY <1>1, MulExact DEF Gate

(* A field has no zero divisors: the boolean constraint means a bit.       *)
LEMMA BitsAreBits ==
    ASSUME NEW b \in F, mul(b, sub(1, b)) = 0
    PROVE  b \in {0, 1}
  <1> SUFFICES ASSUME b # 0, b # 1 PROVE FALSE
    OBVIOUS
  <1>1. b \in 1 .. P - 1 /\ b > 1 /\ 1 \in F
    BY Sizes DEF F
  <1>2. sub(1, b) = 1 - b + P
    BY <1>1, SubWraps DEF F
  <1>3. sub(1, b) \in 1 .. P - 1
    BY <1>1, <1>2, Sizes
  <1> QED
    BY <1>1, <1>3, FieldAssumption

(* What a range check of a difference says: it has not wrapped.            *)
LEMMA RangeOrders ==
    ASSUME NEW x \in F, NEW y \in F, NEW n \in Nat, sub(x, y) < n, y + n <= P
    PROVE  x >= y
  <1> SUFFICES ASSUME x < y PROVE FALSE
    BY DEF F
  <1>1. sub(x, y) = x - y + P
    BY SubWraps
  <1> QED
    BY <1>1, Sizes DEF F

-----------------------------------------------------------------------------
(* What the constraints on a row mean.                                     *)

(* The wires of a row, and what the range checks add to them.              *)
Wires(r) ==
    /\ r.price \in F /\ r.size \in F /\ r.active \in F
    /\ \A leg \in {r.bid, r.ask} : /\ leg.side \in F /\ leg.price \in F /\ leg.size \in F
                                   /\ leg.balance \in F /\ leg.position \in F

Limits(pol) ==
    /\ pol.min_size \in Nat /\ pol.min_price \in Nat /\ pol.position_limit \in Nat
    /\ pol.min_size < M /\ pol.min_price < M /\ 2 * pol.position_limit < M

(* A prover's witnesses are field elements; policies are encoded decimals. *)
LEMMA WitnessWires ==
    /\ \A r \in Rows : Wires(r)
    /\ \A pol \in Policies : Limits(pol)
  BY ProvingAssumption DEF Wires, Limits, M

(* The ranges of an accepted row.                                          *)
LEMMA RowRanged ==
    ASSUME NEW r, Wires(r), RowSatisfied(r)
    PROVE  /\ r.size < M /\ r.price < M /\ r.bid.price < M /\ r.ask.price < M
           /\ r.bid.size < M /\ r.ask.size < M /\ r.bid.balance < M /\ r.ask.balance < M
  BY DEF RowSatisfied, RowRanges, enforce_range, M, MAX_ENCODED

(* A difference that a gated range check has seen.                         *)
LEMMA GatedOrder ==
    ASSUME NEW r, r.active = 1, NEW x \in F, NEW y \in F, y < M,
           enforce_range(Gate(sub(x, y), r), SIZE_BITS)
    PROVE  x >= y
  <1>1. sub(x, y) \in F
    BY SubWraps
  <1>2. Gate(sub(x, y), r) = sub(x, y)
    BY <1>1, GateOpen
  <1>3. sub(x, y) < M
    BY <1>2 DEF enforce_range, M, MAX_ENCODED
  <1>4. y + M <= P
    BY Room, Sizes DEF F
  <1> QED
    BY <1>3, <1>4, Sizes, RangeOrders

(* An active row: both legs on opposite sides, crossing, for no more than  *)
(* either leg's size.                                                      *)
LEMMA RowCrosses ==
    ASSUME NEW r, Wires(r), RowSatisfied(r), r.active # 0
    PROVE  /\ r.active = 1
           /\ {r.bid.side, r.ask.side} = {0, 1}
           /\ r.bid.price >= r.price /\ r.price >= r.ask.price
           /\ r.size <= r.bid.size /\ r.size <= r.ask.size
  <1>1. r.active = 1 /\ r.bid.side \in {0, 1} /\ r.ask.side \in {0, 1}
    BY BitsAreBits DEF Wires, RowSatisfied, SideBits
  <1>2. r.bid.side # r.ask.side
    <2> DEFINE b == r.bid.side
               a == r.ask.side
    <2>1. b \in F /\ a \in F /\ 1 \in F
      BY Room, Sizes DEF Wires, F
    <2>2. Gate(sub(add(b, a), 1), r) = 0
      BY DEF RowSatisfied, OppositeSides
    <2>3. b \in {0, 1} /\ a \in {0, 1}
      BY <1>1
    <2> HIDE DEF a, b
    <2>4. add(b, a) \in F
      BY <2>1, AddWraps
    <2>5. sub(add(b, a), 1) = 0
      BY <1>1, <2>1, <2>2, <2>4, SubWraps, GateOpen
    <2>6. add(b, a) = 1
      <3> DEFINE c == add(b, a)
      <3>1. c \in F /\ sub(c, 1) = 0
        BY <2>4, <2>5
      <3> HIDE DEF c
      <3>2. /\ c >= 1 => sub(c, 1) = c - 1
            /\ c < 1 => sub(c, 1) = c - 1 + P
        BY <2>1, <3>1, SubWraps
      <3>3. c = 1
        BY <3>1, <3>2, Sizes, Room DEF F
      <3> QED
        BY <3>3 DEF c
    <2>7. a # b
      BY <2>1, <2>3, <2>6, AddWraps, Room, Sizes
    <2> QED
      BY <2>7 DEF a, b
  <1>3. /\ r.size < M /\ r.price < M /\ r.ask.price < M
    BY RowRanged
  <1>4. r.bid.price >= r.price /\ r.price >= r.ask.price
    BY <1>1, <1>3, GatedOrder DEF Wires, RowSatisfied, Crosses
  <1>5. r.size <= r.bid.size /\ r.size <= r.ask.size
    <2>1. r.bid.size >= r.size /\ r.ask.size >= r.size
      BY <1>1, <1>3, GatedOrder DEF Wires, RowSatisfied, FillsWithin
    <2> QED
      BY <2>1 DEF Wires, F
  <1>6. {r.bid.side, r.ask.side} = {0, 1}
    BY <1>1, <1>2
  <1> QED
    BY <1>1, <1>4, <1>5, <1>6

(* ... each leg able to pay, as integers.                                  *)
LEMMA RowFunded ==
    ASSUME NEW r, Wires(r), RowSatisfied(r), r.active = 1
    PROVE  /\ r.price * r.size <= r.bid.balance * SCALE_FACTOR
           /\ r.size <= r.ask.balance
  <1> DEFINE p == r.price
             s == r.size
             b == r.bid.balance
             a == r.ask.balance
             due == p * s
             has == b * SCALE_FACTOR
  <1>1. p \in F /\ s \in F /\ b \in F /\ a \in F
    BY DEF Wires
  <1>2. p < M /\ s < M /\ b < M /\ a < M
    BY RowRanged
  <1>3. /\ enforce_range(Gate(sub(mul(b, SCALE_FACTOR), mul(p, s)), r), SOLVENCY_DIFF_BITS)
        /\ enforce_range(Gate(sub(a, s), r), SOLVENCY_DIFF_BITS)
    BY DEF RowSatisfied, Solvent
  <1> HIDE DEF p, s, b, a
  <1>4. p \in Nat /\ s \in Nat /\ b \in Nat /\ a \in Nat
    BY <1>1 DEF F
  <1>5. due \in Nat /\ due < M * M
    BY <1>2, <1>4, Sizes
  <1>6. has \in Nat /\ has < D
    <2>1. \A k, m, n \in Nat : n > 0 /\ k < m => k * n < n * m
      OBVIOUS
    <2>2. has < SCALE_FACTOR * M
      BY <1>2, <1>4, <2>1, Sizes
    <2> QED
      BY <1>4, <2>2, Sizes
  <1>7. due < P /\ has < P
    BY <1>5, <1>6, Sizes, Room
  <1>8. mul(p, s) = due /\ mul(b, SCALE_FACTOR) = has
    BY <1>4, <1>7, MulExact, Sizes
  <1> HIDE DEF due, has
  <1>9. due \in F /\ has \in F
    BY <1>5, <1>6, <1>7, Sizes DEF F
  <1>10. sub(has, due) < D
    <2>1. sub(has, due) \in F
      BY <1>9, SubWraps
    <2> QED
      BY <1>3, <1>8, <2>1, GateOpen DEF enforce_range, D
  <1>11. due + D <= P
    BY <1>5, Sizes
  <1>12. has >= due
    BY <1>9, <1>10, <1>11, Sizes, RangeOrders
  <1>13. a >= s
    <2>1. sub(a, s) \in F
      BY <1>1, SubWraps
    <2>2. sub(a, s) < D
      BY <1>3, <2>1, GateOpen DEF enforce_range, D
    <2>3. s + D <= P
      BY <1>2, <1>4, Room, Sizes
    <2> QED
      BY <1>1, <2>2, <2>3, Sizes, RangeOrders
  <1> QED
    BY <1>4, <1>5, <1>6, <1>12, <1>13 DEF due, has, p, s, a, b

(* A position, read as a signed integer, that passes both of its range     *)
(* checks is within the limit on both sides.                               *)
LEMMA PositionHeld ==
    ASSUME NEW lim \in Nat, 2 * lim < M, NEW pos \in F, sub(lim, pos) < M, add(lim, pos) < M
    PROVE  pos <= lim \/ pos >= P - lim
  <1>1. lim \in F /\ lim + M <= P
    BY Room, Sizes DEF F
  <1>2. /\ lim < pos => sub(lim, pos) = lim - pos + P
        /\ lim + pos < P => add(lim, pos) = lim + pos
    BY <1>1, SubWraps, AddWraps
  <1> QED
    BY <1>2, Room, Sizes DEF F

(* The bid's position grows by the size of the trade ...                   *)
LEMMA BoughtWithin ==
    ASSUME NEW lim \in Nat, 2 * lim < M, NEW x \in F, NEW s \in F, s < M,
           add(x, s) <= lim \/ add(x, s) >= P - lim
    PROVE  Signed(x) + s \in -lim .. lim
  <1> DEFINE y == add(x, s)
  <1>1. /\ y \in F /\ (y = x + s \/ y = x + s - P) /\ (y <= lim \/ y >= P - lim)
    <2>1. /\ y \in F
          /\ x + s < P => y = x + s
          /\ x + s >= P => y = x + s - P
      BY AddWraps
    <2>2. y <= lim \/ y >= P - lim
      OBVIOUS
    <2> HIDE DEF y
    <2>3. x + s < P \/ x + s >= P
      BY Sizes DEF F
    <2> QED
      BY <2>1, <2>2, <2>3
  <1> HIDE DEF y
  <1>2. CASE M = 1
    <2>1. lim = 0 /\ s = 0
      BY <1>2 DEF F
    <2> QED
      BY <1>1, <2>1, Sizes, Room DEF F, Signed
  <1>3. CASE 3 * M <= P
    <2>1. CASE y <= lim /\ y = x + s
      BY <1>3, <2>1, Sizes DEF F, Signed
    <2>2. CASE y <= lim /\ y = x + s - P
      BY <1>1, <1>3, <2>2, Sizes DEF F, Signed
    <2>3. CASE y >= P - lim /\ y = x + s
      BY <1>1, <1>3, <2>3, Sizes DEF F, Signed
    <2>4. CASE y >= P - lim /\ y = x + s - P
      BY <1>3, <2>4, Sizes DEF F, Signed
    <2> QED
      BY <1>1, <2>1, <2>2, <2>3, <2>4
  <1> QED
    BY <1>2, <1>3, Room

(* ... and the ask's falls.                                                *)
LEMMA SoldWithin ==
    ASSUME NEW lim \in Nat, 2 * lim < M, NEW x \in F, NEW s \in F, s < M,
           sub(x, s) <= lim \/ sub(x, s) >= P - lim
    PROVE  Signed(x) - s \in -lim .. lim
  <1> DEFINE y == sub(x, s)
  <1>1. /\ y \in F /\ (y = x - s \/ y = x - s + P) /\ (y <= lim \/ y >= P - lim)
    BY SubWraps DEF F
  <1> HIDE DEF y
  <1>2. CASE M = 1
    <2>1. lim = 0 /\ s = 0
      BY <1>2 DEF F
    <2> QED
      BY <1>1, <2>1, Sizes, Room DEF F, Signed
  <1>3. CASE 3 * M <= P
    <2>1. CASE y <= lim /\ y = x - s
      BY <1>1, <1>3, <2>1, Sizes DEF F, Signed
    <2>2. CASE y <= lim /\ y = x - s + P
      BY <1>3, <2>2, Sizes DEF F, Signed
    <2>3. CASE y >= P - lim /\ y = x - s
      BY <1>1, <1>3, <2>3, Sizes DEF F, Signed
    <2>4. CASE y >= P - lim /\ y = x - s + P
      BY <1>1, <1>3, <2>4, Sizes DEF F, Signed
    <2> QED
      BY <1>1, <2>1, <2>2, <2>3, <2>4
  <1> QED
    BY <1>2, <1>3, Room

(* The round's price, policy and position limit.                           *)
LEMMA RowWithinRound ==
    ASSUME NEW r, Wires(r), RowSatisfied(r), r.active = 1,
           NEW ext, Limits(ext.policy), ext.clearing_price \in F, RoundSatisfied(r, ext)
    PROVE  /\ r.price = ext.clearing_price
           /\ r.size >= ext.policy.min_size /\ r.bid.price >= ext.policy.min_price
           /\ LET lim == ext.policy.position_limit
              IN  /\ Signed(r.bid.position) + r.size \in -lim .. lim
                  /\ Signed(r.ask.position) - r.size \in -lim .. lim
  <1> DEFINE p == r.price
             s == r.size
             bp == r.bid.price
             x == r.bid.position
             y == r.ask.position
             c == ext.clearing_price
             lim == ext.policy.position_limit
             ms == ext.policy.min_size
             mp == ext.policy.min_price
  <1>1. p \in F /\ s \in F /\ bp \in F /\ x \in F /\ y \in F /\ c \in F /\ s < M
    BY RowRanged DEF Wires
  <1>2. lim \in Nat /\ 2 * lim < M /\ ms \in Nat /\ mp \in Nat /\ ms < M /\ mp < M
    BY DEF Limits
  <1>3. /\ Gate(sub(p, c), r) = 0
        /\ enforce_range(Gate(sub(s, ms), r), SIZE_BITS)
        /\ enforce_range(Gate(sub(bp, mp), r), SIZE_BITS)
        /\ \A pos \in {add(x, s), sub(y, s)} :
              /\ enforce_range(Gate(sub(lim, pos), r), SIZE_BITS)
              /\ enforce_range(Gate(add(lim, pos), r), SIZE_BITS)
    BY DEF RoundSatisfied, UniformPrice, WithinPolicy, WithinPosition
  <1> HIDE DEF p, s, bp, x, y, c, lim, ms, mp
  <1>4. lim \in F /\ ms \in F /\ mp \in F
    BY <1>2, Room, Sizes DEF F
  <1>5. s >= ms /\ bp >= mp
    BY <1>1, <1>2, <1>3, <1>4, GatedOrder
  <1>6. p = c
    <2>1. sub(p, c) \in F /\ sub(p, c) = 0
      BY <1>1, <1>3, SubWraps, GateOpen
    <2>2. /\ p >= c => sub(p, c) = p - c
          /\ p < c => sub(p, c) = p - c + P
      BY <1>1, SubWraps
    <2> QED
      BY <1>1, <2>1, <2>2, Sizes DEF F
  <1>7. ASSUME NEW pos \in {add(x, s), sub(y, s)}
        PROVE  pos <= lim \/ pos >= P - lim
    <2>1. pos \in F
      BY <1>1, AddWraps, SubWraps
    <2>2. sub(lim, pos) \in F /\ add(lim, pos) \in F
      BY <1>4, <2>1, AddWraps, SubWraps
    <2>3. sub(lim, pos) < M /\ add(lim, pos) < M
      BY <1>3, <2>2, GateOpen DEF enforce_range, M, MAX_ENCODED
    <2> QED
      BY <1>2, <2>1, <2>3, PositionHeld
  <1>8. Signed(x) + s \in -lim .. lim
    BY <1>1, <1>2, <1>7, BoughtWithin
  <1>9. Signed(y) - s \in -lim .. lim
    BY <1>1, <1>2, <1>7, SoldWithin
  <1> QED
    BY <1>5, <1>6, <1>8, <1>9 DEF p, s, bp, x, y, c, lim, ms, mp

-----------------------------------------------------------------------------
(* The inductive invariant.                                                *)

Shape(s) == \E S : s \in Seq(S)

(* A chain is that of some rows, in their order.                           *)
Item(x) == <<x.bid_addr, x.ask_addr, x.price, x.size>>
Chained(chain, rows) == chain = [i \in DOMAIN rows |-> Item(rows[i])]

(* What the circuit has established of a row that is folded.               *)
Attested(x, policy) ==
    /\ x.size >= policy.min_size
    /\ x.bid.trader = derive_trader_id(x.bid_addr)
    /\ x.ask.trader = derive_trader_id(x.ask_addr)
Listed(x, root) == x.bid \in root /\ x.ask \in root

(* Every folded row is attested, and its legs are in the admitted set of   *)
(* one of the steps.                                                       *)
AccOK(a) ==
    /\ Shape(a.folded) /\ Shape(a.logged) /\ Shape(a.z.admit_chain)
    /\ Chained(a.z.settlement_acc, a.folded)
    /\ Len(a.z.admit_chain) = Len(a.logged) /\ a.z.round_nonce = Len(a.logged)
    /\ \A i \in DOMAIN a.folded :
          /\ Attested(a.folded[i], a.z.policy_hash)
          /\ \E n \in DOMAIN a.z.admit_chain : Listed(a.folded[i], a.z.admit_chain[n])

(* The rows assigned so far, on top of accumulator a.                      *)
StepOK(s, a) ==
    /\ s = [ext |-> s.ext, settled |-> s.settled, leaves |-> s.leaves, rows |-> s.rows]
    /\ s.ext.policy \in Policies /\ s.ext.clearing_price \in F
    /\ a.z.policy_hash = s.ext.policy
    /\ Shape(s.rows)
    /\ \A i \in DOMAIN s.rows :
          /\ s.rows[i].price = s.ext.clearing_price
          /\ Attested(s.rows[i], s.ext.policy) /\ Listed(s.rows[i], s.ext.admitted_root)
    /\ Chained(s.settled, a.folded \o s.rows)

Stepping == StepOK(step, Accumulator(step.ext.policy))

Verified(f) ==
    AccOK(f.proof) /\ f.z_n = f.proof.z /\ f.policy_hash = f.z_n.policy_hash

ProvingInv ==
    /\ \A b \in book : b.order \in Payloads
    /\ acc = None \/ AccOK(acc)
    /\ step = None \/ Stepping
    /\ row = None \/ (row \in Witnesses /\ RoundSatisfied(row, step.ext) /\ Stepping)
    /\ accepted = None \/ Verified(accepted)

-----------------------------------------------------------------------------
(* Sequences of anything.                                                  *)

(* Their elements, by their numbers.                                       *)
LEMMA ShapeDomain ==
    ASSUME NEW s, Shape(s)
    PROVE  Len(s) \in Nat /\ DOMAIN s = 1..Len(s)
  BY LenProperties DEF Shape

(* The empty one.                                                          *)
LEMMA ShapeEmpty == Shape(<< >>) /\ Len(<< >>) = 0 /\ DOMAIN << >> = {}
  <1>1. << >> \in Seq({}) /\ Len(<< >>) = 0
    BY EmptySeq
  <1>2. Shape(<< >>)
    BY <1>1 DEF Shape
  <1> QED
    BY <1>1, <1>2, ShapeDomain

(* A function on the numbers up to n.                                      *)
LEMMA ShapeIntro ==
    ASSUME NEW n \in Nat, NEW s, DOMAIN s = 1..n, s = [i \in 1..n |-> s[i]]
    PROVE  Shape(s) /\ Len(s) = n
  <1> DEFINE S == {s[i] : i \in 1..n}
  <1>1. s \in [1..n -> S]
    OBVIOUS
  <1>2. s \in Seq(S)
    BY <1>1, SeqDef
  <1>3. Shape(s)
    BY <1>2 DEF Shape
  <1>4. Len(s) = n
    BY <1>1, <1>2, LenProperties
  <1> QED
    BY <1>3, <1>4

(* One more element.                                                       *)
LEMMA ShapeAppend ==
    ASSUME NEW s, Shape(s), NEW e
    PROVE  /\ Shape(Append(s, e)) /\ Len(Append(s, e)) = Len(s) + 1
           /\ DOMAIN Append(s, e) = 1..(Len(s) + 1)
           /\ \A i \in DOMAIN s : Append(s, e)[i] = s[i] /\ i \in 1..(Len(s) + 1)
           /\ Append(s, e)[Len(s) + 1] = e /\ Len(s) + 1 \in 1..(Len(s) + 1)
           /\ \A i \in 1..(Len(s) + 1) : i \in DOMAIN s \/ i = Len(s) + 1
  <1>1. PICK S : s \in Seq(S)
    BY DEF Shape
  <1> DEFINE T == S \cup {e}
             m == Append(s, e)
             k == Len(s)
  <1>2. s \in Seq(T) /\ e \in T
    <2>1. s \in [1..k -> S] /\ k \in Nat
      BY <1>1, LenProperties
    <2>2. s \in [1..k -> T]
      BY <2>1
    <2> QED
      BY <2>1, <2>2, SeqDef
  <1> HIDE DEF T
  <1>3. /\ m \in Seq(T) /\ Len(m) = k + 1 /\ m[k + 1] = e
        /\ \A i \in 1..k : m[i] = s[i]
    BY <1>2, AppendProperties
  <1>4. k \in Nat /\ DOMAIN s = 1..k /\ DOMAIN m = 1..(k + 1)
    BY <1>2, <1>3, LenProperties
  <1>5. Shape(m)
    BY <1>3 DEF Shape
  <1> HIDE DEF m, k
  <1>6. /\ \A i \in 1..k : i \in 1..(k + 1)
        /\ k + 1 \in 1..(k + 1) /\ \A i \in 1..(k + 1) : i \in 1..k \/ i = k + 1
    BY <1>4
  <1> QED
    BY <1>3, <1>4, <1>5, <1>6 DEF m, k

(* One after the other.                                                    *)
LEMMA ShapeConcat ==
    ASSUME NEW s, NEW t, Shape(s), Shape(t)
    PROVE  /\ Shape(s \o t) /\ Len(s \o t) = Len(s) + Len(t)
           /\ DOMAIN (s \o t) = 1..(Len(s) + Len(t))
           /\ \A i \in 1..(Len(s) + Len(t)) :
                (s \o t)[i] = IF i <= Len(s) THEN s[i] ELSE t[i - Len(s)]
           /\ \A i \in 1..(Len(s) + Len(t)) :
                (i <= Len(s) /\ i \in DOMAIN s) \/ (i > Len(s) /\ i - Len(s) \in DOMAIN t)
  <1>1. PICK S : s \in Seq(S)
    BY DEF Shape
  <1>2. PICK T : t \in Seq(T)
    BY DEF Shape
  <1> DEFINE U == S \cup T
             m == Len(s)
             n == Len(t)
             u == s \o t
  <1>3. s \in [1..m -> S] /\ m \in Nat /\ t \in [1..n -> T] /\ n \in Nat
    BY <1>1, <1>2, LenProperties
  <1>4. s \in [1..m -> U] /\ t \in [1..n -> U]
    BY <1>3
  <1>5. s \in Seq(U) /\ t \in Seq(U)
    BY <1>3, <1>4, SeqDef
  <1> HIDE DEF U
  <1>6. /\ u \in Seq(U) /\ Len(u) = m + n
        /\ \A i \in 1..(m + n) : u[i] = IF i <= m THEN s[i] ELSE t[i - m]
    BY <1>5, ConcatProperties
  <1>7. DOMAIN u = 1..(m + n) /\ DOMAIN s = 1..m /\ DOMAIN t = 1..n
    BY <1>3, <1>6, LenProperties
  <1>8. Shape(u)
    BY <1>6 DEF Shape
  <1> HIDE DEF u, m, n
  <1>9. \A i \in 1..(m + n) : (i <= m /\ i \in 1..m) \/ (i > m /\ i - m \in 1..n)
    BY <1>3
  <1> QED
    BY <1>6, <1>7, <1>8, <1>9 DEF u, m, n

-----------------------------------------------------------------------------
(* Accumulators.                                                           *)

(* A chain and its rows, one longer.                                       *)
LEMMA ChainedAppend ==
    ASSUME NEW c, NEW f, Shape(f), NEW t, Shape(t), Chained(c, f \o t), NEW x
    PROVE  Chained(Append(c, Item(x)), f \o Append(t, x))
  <1> DEFINE m == Len(f)
             n == Len(t)
             u == f \o t
             t2 == Append(t, x)
             u2 == f \o t2
             c2 == Append(c, Item(x))
  <1>1. m \in Nat /\ n \in Nat /\ DOMAIN t = 1..n
    BY ShapeDomain
  <1>2. /\ Shape(u) /\ DOMAIN u = 1..(m + n) /\ Len(u) = m + n
        /\ \A i \in 1..(m + n) : u[i] = IF i <= m THEN f[i] ELSE t[i - m]
    BY ShapeConcat
  <1>3. /\ Shape(t2) /\ Len(t2) = n + 1 /\ t2[n + 1] = x
        /\ \A i \in 1..n : t2[i] = t[i]
    BY <1>1, ShapeAppend
  <1> HIDE DEF t2
  <1>4. /\ DOMAIN u2 = 1..(m + (n + 1))
        /\ \A i \in 1..(m + (n + 1)) : u2[i] = IF i <= m THEN f[i] ELSE t2[i - m]
    BY <1>3, ShapeConcat
  <1>5. c = [i \in 1..(m + n) |-> Item(u[i])]
    BY <1>2 DEF Chained
  <1> HIDE DEF m, n, u, u2
  <1>6. Shape(c) /\ Len(c) = m + n
    <2>1. m + n \in Nat /\ DOMAIN c = 1..(m + n) /\ c = [i \in 1..(m + n) |-> c[i]]
      BY <1>1, <1>5
    <2> QED
      BY <2>1, ShapeIntro
  <1>7. /\ Shape(c2) /\ DOMAIN c2 = 1..((m + n) + 1) /\ c2[(m + n) + 1] = Item(x)
        /\ \A i \in DOMAIN c : c2[i] = c[i]
    BY <1>6, ShapeAppend
  <1>8. c2 = [i \in DOMAIN c2 |-> c2[i]]
    <2>1. PICK S : c2 \in Seq(S)
      BY <1>7 DEF Shape
    <2>2. c2 \in [1..Len(c2) -> S]
      BY <2>1, LenProperties
    <2> QED
      BY <2>2
  <1> HIDE DEF c2
  <1>9. \A i \in 1..((m + n) + 1) : c2[i] = Item(u2[i])
    <2> TAKE i \in 1..((m + n) + 1)
    <2>1. CASE i = (m + n) + 1
      <3>1. i - m = n + 1 /\ ~(i <= m) /\ i \in 1..(m + (n + 1))
        BY <1>1, <2>1
      <3> QED
        BY <1>3, <1>4, <1>7, <2>1, <3>1
    <2>2. CASE i \in 1..(m + n)
      <3>1. i \in 1..(m + (n + 1)) /\ (i <= m \/ i - m \in 1..n)
        BY <1>1, <2>2
      <3>2. u2[i] = u[i]
        BY <1>2, <1>3, <1>4, <2>2, <3>1
      <3>3. c2[i] = Item(u[i])
        BY <1>5, <1>7, <2>2
      <3> QED
        BY <3>2, <3>3
    <2> QED
      BY <1>1, <2>1, <2>2
  <1>10. 1..((m + n) + 1) = 1..(m + (n + 1))
    BY <1>1
  <1>11. c2 = [i \in DOMAIN u2 |-> Item(u2[i])]
    BY <1>4, <1>7, <1>8, <1>9, <1>10
  <1> QED
    BY <1>11 DEF Chained, c2, u2, t2

(* The chains of two lists of rows, joined.                                *)
LEMMA ChainedConcat ==
    ASSUME NEW c, NEW f, Shape(f), Chained(c, f), NEW d, NEW t, Shape(t), Chained(d, t)
    PROVE  Chained(c \o d, f \o t)
  <1> DEFINE m == Len(f)
             n == Len(t)
             u == f \o t
             e == c \o d
  <1>1. m \in Nat /\ n \in Nat /\ DOMAIN f = 1..m /\ DOMAIN t = 1..n
    BY ShapeDomain
  <1>2. /\ DOMAIN u = 1..(m + n)
        /\ \A i \in 1..(m + n) : u[i] = IF i <= m THEN f[i] ELSE t[i - m]
    BY ShapeConcat
  <1>3. c = [i \in 1..m |-> Item(f[i])] /\ d = [i \in 1..n |-> Item(t[i])]
    BY <1>1 DEF Chained
  <1> HIDE DEF m, n, u
  <1>4. Shape(c) /\ Len(c) = m /\ Shape(d) /\ Len(d) = n
    <2>1. DOMAIN c = 1..m /\ c = [i \in 1..m |-> c[i]]
      BY <1>3
    <2>2. DOMAIN d = 1..n /\ d = [i \in 1..n |-> d[i]]
      BY <1>3
    <2> QED
      BY <1>1, <2>1, <2>2, ShapeIntro
  <1>5. /\ Shape(e) /\ DOMAIN e = 1..(m + n)
        /\ \A i \in 1..(m + n) : e[i] = IF i <= m THEN c[i] ELSE d[i - m]
    BY <1>4, ShapeConcat
  <1>6. e = [i \in DOMAIN e |-> e[i]]
    <2>1. PICK S : e \in Seq(S)
      BY <1>5 DEF Shape
    <2>2. e \in [1..Len(e) -> S]
      BY <2>1, LenProperties
    <2> QED
      BY <2>2
  <1> HIDE DEF e
  <1>7. \A i \in 1..(m + n) : e[i] = Item(u[i])
    <2> TAKE i \in 1..(m + n)
    <2>1. (i <= m /\ i \in 1..m) \/ (~(i <= m) /\ i - m \in 1..n)
      BY <1>1
    <2> QED
      BY <1>2, <1>3, <1>5, <2>1
  <1>8. e = [i \in DOMAIN u |-> Item(u[i])]
    BY <1>2, <1>5, <1>6, <1>7
  <1> QED
    BY <1>8 DEF Chained, e, u

(* A new accumulator.                                                      *)
LEMMA InitialOK ==
    ASSUME NEW policy
    PROVE  AccOK(init_accumulator(policy)) /\ init_accumulator(policy).z.policy_hash = policy
  <1> DEFINE a == init_accumulator(policy)
  <1>1. /\ a.folded = << >> /\ a.logged = << >> /\ a.z = compute_z_0(policy)
    BY DEF init_accumulator
  <1>2. /\ a.z.admit_chain = << >> /\ a.z.settlement_acc = << >> /\ a.z.round_nonce = 0
        /\ a.z.policy_hash = policy
    BY <1>1 DEF compute_z_0
  <1> HIDE DEF a
  <1>3. Chained(<< >>, << >>)
    <2>1. << >> \in [{} -> {}]
      BY ShapeEmpty, EmptySeq, LenProperties
    <2> QED
      BY <2>1, ShapeEmpty DEF Chained
  <1>4. AccOK(a)
    BY <1>1, <1>2, <1>3, ShapeEmpty DEF AccOK
  <1> QED
    BY <1>2, <1>4 DEF a

(* The accumulator that a fold starts from.                                *)
LEMMA AccumulatorOK ==
    ASSUME ProvingInv, NEW policy
    PROVE  AccOK(Accumulator(policy))
  BY InitialOK DEF ProvingInv, Accumulator

(* Folding attested rows whose legs are in the round's admitted set.       *)
LEMMA FoldOK ==
    ASSUME NEW a, AccOK(a), NEW rows, Shape(rows), NEW ext, NEW c, NEW leaves,
           \A i \in DOMAIN rows :
              Attested(rows[i], a.z.policy_hash) /\ Listed(rows[i], ext.admitted_root),
           Chained(c, a.folded \o rows)
    PROVE  AccOK(fold_step(a, StepState(a.z, ext, c, leaves), rows))
  <1> DEFINE z == StepState(a.z, ext, c, leaves)
             b == fold_step(a, z, rows)
             u == a.folded \o rows
             ch == Append(a.z.admit_chain, ext.admitted_root)
             lg == Append(a.logged, Logged)
             m == Len(a.folded)
             k == Len(a.logged)
  <1>1. /\ z.admit_chain = ch /\ z.settlement_acc = c /\ z.round_nonce = a.z.round_nonce + 1
        /\ z.policy_hash = a.z.policy_hash
    BY DEF StepState, admitted_chain_step
  <1>2. /\ Shape(a.folded) /\ Shape(a.logged) /\ Shape(a.z.admit_chain)
        /\ Len(a.z.admit_chain) = k /\ a.z.round_nonce = k
        /\ \A i \in DOMAIN a.folded :
              /\ Attested(a.folded[i], a.z.policy_hash)
              /\ \E n \in DOMAIN a.z.admit_chain : Listed(a.folded[i], a.z.admit_chain[n])
    BY DEF AccOK
  <1> HIDE DEF z
  <1>3. b.z = z /\ b.folded = u /\ b.logged = lg
    BY DEF fold_step
  <1> HIDE DEF b
  <1>4. /\ Shape(u) /\ DOMAIN u = 1..(m + Len(rows))
        /\ \A i \in 1..(m + Len(rows)) : u[i] = IF i <= m THEN a.folded[i] ELSE rows[i - m]
        /\ \A i \in 1..(m + Len(rows)) :
              (i <= m /\ i \in DOMAIN a.folded) \/ (i > m /\ i - m \in DOMAIN rows)
    BY <1>2, ShapeConcat
  <1>5. /\ Shape(lg) /\ Len(lg) = k + 1
    BY <1>2, ShapeAppend
  <1>6. /\ Shape(ch) /\ Len(ch) = k + 1 /\ DOMAIN ch = 1..(k + 1) /\ ch[k + 1] = ext.admitted_root
        /\ k + 1 \in 1..(k + 1)
        /\ \A n \in DOMAIN a.z.admit_chain : ch[n] = a.z.admit_chain[n] /\ n \in 1..(k + 1)
    BY <1>2, ShapeAppend
  <1> HIDE DEF ch, lg
  <1>7. m \in Nat
    BY <1>2, ShapeDomain
  <1> HIDE DEF k, m
  <1>8. ASSUME NEW i \in DOMAIN u
        PROVE  /\ Attested(u[i], a.z.policy_hash)
               /\ \E n \in DOMAIN ch : Listed(u[i], ch[n])
    <2>1. CASE i <= m /\ i \in DOMAIN a.folded
      <3>1. u[i] = a.folded[i]
        BY <1>4, <1>8, <2>1
      <3>2. PICK n \in DOMAIN a.z.admit_chain : Listed(a.folded[i], a.z.admit_chain[n])
        BY <1>2, <2>1
      <3>3. n \in DOMAIN ch /\ ch[n] = a.z.admit_chain[n]
        BY <1>6, <3>2
      <3> QED
        BY <1>2, <2>1, <3>1, <3>2, <3>3
    <2>2. CASE i > m /\ i - m \in DOMAIN rows
      <3>1. ~(i <= m)
        BY <1>4, <1>7, <1>8, <2>2
      <3>2. u[i] = rows[i - m]
        BY <1>4, <1>8, <3>1
      <3> QED
        BY <1>6, <2>2, <3>2
    <2> QED
      BY <1>4, <1>8, <2>1, <2>2
  <1> HIDE DEF u
  <1>9. Chained(c, u)
    BY DEF u
  <1>10. AccOK(b)
    BY <1>1, <1>2, <1>3, <1>4, <1>5, <1>6, <1>8, <1>9 DEF AccOK
  <1> QED
    BY <1>10 DEF b, z

-----------------------------------------------------------------------------
(* The steps.                                                              *)

(* Nothing is observed and no step is under way: only the accumulator and  *)
(* the book can have changed.                                              *)
LEMMA QuietKeeps ==
    ASSUME ProvingInv, acc' = None \/ AccOK(acc)', \A b \in book' : b.order \in Payloads,
           step' = None, row' = None, accepted' = None
    PROVE  ProvingInv'
  BY DEF ProvingInv

(* An accumulator that is left alone.                                      *)
LEMMA SameAcc ==
    ASSUME ProvingInv, acc' = acc
    PROVE  (acc' = None \/ AccOK(acc)') /\ \A p : Accumulator(p)' = Accumulator(p)
  BY DEF ProvingInv, Accumulator, AccOK

(* Admission, departures and a restart.                                    *)
LEMMA OrdersKeep ==
    ASSUME ProvingInv, step = None,
           \/ \E p, q \in Payloads : \E answer \in lookup(p) : place_encrypted_order(p, q, answer)
           \/ \E b \in book : Leave(b)
           \/ Restart
    PROVE  ProvingInv'
  <1>1. ASSUME NEW p \in Payloads, NEW q \in Payloads, NEW answer,
               place_encrypted_order(p, q, answer)
        PROVE  ProvingInv'
    <2>1. /\ acc' = acc /\ step' = None /\ row' = None /\ accepted' = None
          /\ \E c : book' = book \cup {[order |-> p, proved |-> q, commitment |-> c]}
      BY <1>1 DEF place_encrypted_order, Quiet
    <2>2. \A b \in book' : b.order \in Payloads
      BY <2>1 DEF ProvingInv
    <2> QED
      BY <2>1, <2>2, SameAcc, QuietKeeps
  <1>2. ASSUME NEW b \in book, Leave(b) PROVE ProvingInv'
    <2>1. /\ acc' = acc /\ step' = None /\ row' = None /\ accepted' = None
          /\ book' = book \ {b}
      BY <1>2 DEF Leave, Quiet
    <2>2. \A x \in book' : x.order \in Payloads
      BY <2>1 DEF ProvingInv
    <2> QED
      BY <2>1, <2>2, SameAcc, QuietKeeps
  <1>3. CASE Restart
    <2>1. /\ acc' = None /\ step' = None /\ row' = None /\ accepted' = None /\ book' = book
      BY <1>3 DEF Restart, Quiet
    <2>2. \A b \in book' : b.order \in Payloads
      BY <2>1 DEF ProvingInv
    <2> QED
      BY <2>1, <2>2, QuietKeeps
  <1> QED
    BY <1>1, <1>2, <1>3

(* A step begins on the rows folded so far.                                *)
LEMMA BeginKeeps ==
    ASSUME ProvingInv, step = None, NEW policy \in Policies, NEW price \in ClearingPrices,
           NEW root, BeginStep(policy, price, root)
    PROVE  ProvingInv'
  <1> DEFINE a == Accumulator(policy)
             x == [policy |-> policy, clearing_price |-> price, admitted_root |-> root]
             s == [ext |-> x, settled |-> a.z.settlement_acc, leaves |-> <<>>, rows |-> <<>>]
  <1>1. /\ a.z.policy_hash = policy /\ step' = s
        /\ acc' = acc /\ book' = book /\ row' = None /\ accepted' = None
    BY DEF BeginStep, Quiet
  <1>2. price \in F
    BY WitnessWires DEF ClearingPrices, Witnesses, Wires
  <1>3. AccOK(a)
    BY AccumulatorOK
  <1> HIDE DEF a
  <1>4. /\ s.ext = x /\ s.settled = a.z.settlement_acc /\ s.rows = << >>
        /\ x.policy = policy /\ x.clearing_price = price
        /\ s = [ext |-> s.ext, settled |-> s.settled, leaves |-> s.leaves, rows |-> s.rows]
    OBVIOUS
  <1>5. Chained(a.z.settlement_acc, a.folded \o << >>)
    <2>1. Shape(a.folded) /\ Chained(a.z.settlement_acc, a.folded)
      BY <1>3 DEF AccOK
    <2>2. PICK S : a.folded \in Seq(S)
      BY <2>1 DEF Shape
    <2>3. a.folded \o << >> = a.folded
      BY <2>2, ConcatEmptySeq
    <2> QED
      BY <2>1, <2>3
  <1> HIDE DEF s, x
  <1>6. StepOK(s, a)
    BY <1>1, <1>2, <1>4, <1>5, ShapeEmpty DEF StepOK
  <1>7. Stepping'
    <2>1. Accumulator(policy)' = a
      BY <1>1, SameAcc DEF a
    <2>2. (step.ext.policy)' = policy
      BY <1>1, <1>4
    <2>3. Accumulator(step.ext.policy)' = a
      BY <2>1, <2>2 DEF Accumulator
    <2> QED
      BY <1>1, <1>6, <2>3 DEF Stepping, StepOK
  <1> QED
    BY <1>1, <1>7, SameAcc DEF ProvingInv

(* A row is assigned: an inactive one changes nothing that is settled.     *)
LEMMA AssignKeeps ==
    ASSUME ProvingInv, step # None, NEW r \in Witnesses, AssignRow(r)
    PROVE  ProvingInv'
  <1> DEFINE x == step.ext
             a == Accumulator(x.policy)
             c == SettleChain(step.settled, r)
             lv == Append(step.leaves, StateLeaves(r))
             rw == IF r.active = 0 THEN step.rows ELSE Append(step.rows, Settles(r))
  <1>1. /\ RoundSatisfied(r, x)
        /\ step' = [step EXCEPT !.settled = c, !.leaves = lv, !.rows = rw]
        /\ row' = r /\ acc' = acc /\ book' = book /\ accepted' = None
    BY DEF AssignRow
  <1>2. /\ step = [ext |-> x, settled |-> step.settled, leaves |-> step.leaves, rows |-> step.rows]
        /\ x.policy \in Policies /\ x.clearing_price \in F /\ a.z.policy_hash = x.policy
        /\ Shape(step.rows) /\ Chained(step.settled, a.folded \o step.rows)
        /\ \A i \in DOMAIN step.rows :
              /\ step.rows[i].price = x.clearing_price
              /\ Attested(step.rows[i], x.policy) /\ Listed(step.rows[i], x.admitted_root)
    BY DEF ProvingInv, Stepping, StepOK
  <1>3. AccOK(a)
    BY AccumulatorOK
  <1>4. Wires(r) /\ RowSatisfied(r) /\ Limits(x.policy)
    BY <1>2, WitnessWires DEF Witnesses
  <1>5. /\ Shape(rw) /\ Chained(c, a.folded \o rw)
        /\ \A i \in DOMAIN rw :
              /\ rw[i].price = x.clearing_price
              /\ Attested(rw[i], x.policy) /\ Listed(rw[i], x.admitted_root)
    <2>1. CASE r.active = 0
      <3>1. rw = step.rows /\ c = step.settled
        BY <2>1 DEF SettleChain
      <3> HIDE DEF rw, c
      <3> QED
        BY <1>2, <3>1
    <2>2. CASE r.active # 0
      <3> DEFINE t == step.rows
                 y == Settles(r)
      <3>1. r.active = 1
        BY <1>4, <2>2, RowCrosses
      <3>2. r.price = x.clearing_price /\ r.size >= x.policy.min_size
        BY <1>1, <1>2, <1>4, <3>1, RowWithinRound
      <3>3. /\ r.bid.trader = derive_trader_id(r.bid.addr)
            /\ r.ask.trader = derive_trader_id(r.ask.addr)
        BY <1>4, <3>1 DEF RowSatisfied, Identities
      <3>4. leaf_of(r.bid) \in x.admitted_root /\ leaf_of(r.ask) \in x.admitted_root
        BY <1>1, <3>1 DEF RoundSatisfied, Members, admitted_set_proof
      <3>5. /\ y.price = r.price /\ y.size = r.size /\ y.bid = leaf_of(r.bid)
            /\ y.ask = leaf_of(r.ask) /\ y.bid_addr = r.bid.addr /\ y.ask_addr = r.ask.addr
        BY DEF Settles
      <3>6. y.bid.trader = r.bid.trader /\ y.ask.trader = r.ask.trader
        BY <3>5 DEF leaf_of, commit_native
      <3>7. Item(y) = SettlementRow(r)
        BY <3>5 DEF Item, SettlementRow
      <3>8. rw = Append(t, y) /\ c = Append(step.settled, Item(y))
        BY <3>1, <3>7 DEF SettleChain
      <3> HIDE DEF y, rw, c
      <3>9. y.price = x.clearing_price /\ Attested(y, x.policy) /\ Listed(y, x.admitted_root)
        BY <3>2, <3>3, <3>4, <3>5, <3>6 DEF Attested, Listed
      <3>10. Chained(c, a.folded \o rw)
        <4> DEFINE f == a.folded
                   sd == step.settled
        <4>1. Shape(f) /\ Shape(t) /\ Chained(sd, f \o t)
          BY <1>2, <1>3 DEF AccOK
        <4> HIDE DEF f, t, sd
        <4>2. Chained(Append(sd, Item(y)), f \o Append(t, y))
          BY <4>1, ChainedAppend
        <4> QED
          BY <3>8, <4>2 DEF f, sd
      <3>11. /\ Shape(rw) /\ DOMAIN rw = 1..(Len(t) + 1) /\ rw[Len(t) + 1] = y
             /\ \A i \in DOMAIN t : rw[i] = t[i]
             /\ \A i \in 1..(Len(t) + 1) : i \in DOMAIN t \/ i = Len(t) + 1
        BY <1>2, <3>8, ShapeAppend
      <3>12. \A i \in DOMAIN rw : rw[i] = y \/ (i \in DOMAIN t /\ rw[i] = t[i])
        BY <3>11
      <3> QED
        BY <1>2, <3>9, <3>10, <3>11, <3>12
    <2> QED
      BY <2>1, <2>2
  <1> HIDE DEF c, lv, rw, a
  <1>6. step' = [ext |-> x, settled |-> c, leaves |-> lv, rows |-> rw]
    <2>1. PICK e, s0, l0, t0 : e = x /\
             step = [ext |-> e, settled |-> s0, leaves |-> l0, rows |-> t0]
      BY <1>2
    <2> HIDE DEF x
    <2>2. step' = [ext |-> e, settled |-> c, leaves |-> lv, rows |-> rw]
      BY <1>1, <2>1
    <2> QED
      BY <2>1, <2>2
  <1> HIDE DEF x
  <1>7. /\ step'.ext = x /\ step'.settled = c /\ step'.rows = rw
        /\ step' = [ext |-> step'.ext, settled |-> step'.settled, leaves |-> step'.leaves,
                    rows |-> step'.rows]
    BY <1>6
  <1>8. StepOK(step', a)
    BY <1>2, <1>5, <1>7 DEF StepOK
  <1>9. Stepping'
    <2>1. Accumulator(step.ext.policy)' = a
      BY <1>1, <1>7 DEF a, x, Accumulator
    <2> QED
      BY <1>8, <2>1 DEF Stepping, StepOK
  <1>10. RoundSatisfied(row, step.ext)'
    BY <1>1, <1>7
  <1>11. row' \in Witnesses'
    BY <1>1 DEF Witnesses
  <1> QED
    BY <1>1, <1>9, <1>10, <1>11, SameAcc DEF ProvingInv

(* The rows of a finished step join the accumulator.                       *)
LEMMA CloseKeeps ==
    ASSUME ProvingInv, CloseStep
    PROVE  ProvingInv'
  <1> DEFINE x == step.ext
             a == Accumulator(x.policy)
             b == fold_step(a, StepState(a.z, x, step.settled, step.leaves), step.rows)
  <1>1. /\ step # None /\ acc' = b /\ step' = None /\ row' = None /\ accepted' = None
        /\ book' = book
    BY DEF CloseStep, Quiet
  <1>2. /\ a.z.policy_hash = x.policy
        /\ Shape(step.rows) /\ Chained(step.settled, a.folded \o step.rows)
        /\ \A i \in DOMAIN step.rows :
              Attested(step.rows[i], x.policy) /\ Listed(step.rows[i], x.admitted_root)
    BY <1>1 DEF ProvingInv, Stepping, StepOK
  <1>3. AccOK(a)
    BY AccumulatorOK
  <1>4. AccOK(b)
    <2> DEFINE rows == step.rows
               c == step.settled
               lv == step.leaves
    <2>1. /\ Shape(rows) /\ Chained(c, a.folded \o rows)
          /\ \A i \in DOMAIN rows :
                Attested(rows[i], a.z.policy_hash) /\ Listed(rows[i], x.admitted_root)
      BY <1>2
    <2> HIDE DEF rows, c, lv, a, x
    <2>2. AccOK(fold_step(a, StepState(a.z, x, c, lv), rows))
      BY <1>3, <2>1, FoldOK
    <2> QED
      BY <2>2 DEF rows, c, lv, a, x
  <1> HIDE DEF b
  <1>5. AccOK(acc)'
    BY <1>1, <1>4 DEF AccOK
  <1> QED
    BY <1>1, <1>5, QuietKeeps DEF ProvingInv

(* The matches of a round.                                                 *)
LEMMA RoundShape ==
    ASSUME NEW matches \in Rounds
    PROVE  Shape(matches) /\ \A i \in DOMAIN matches : matches[i] \in Matches
  <1>1. CASE \E m \in Matches : matches = <<m>>
    <2>1. matches \in Seq(Matches)
      BY <1>1
    <2> QED
      BY <2>1, LenProperties, ElementOfSeq DEF Shape
  <1>2. CASE matches \in Matches \X Matches
    <2>1. PICK m \in Matches, n \in Matches : matches = <<m, n>>
      BY <1>2
    <2>2. matches \in Seq(Matches)
      BY <2>1
    <2> QED
      BY <2>2, LenProperties, ElementOfSeq DEF Shape
  <1> QED
    BY <1>1, <1>2 DEF Rounds

(* A row that this engine builds and the constraints accept.               *)
LEMMA OwnRow ==
    ASSUME ProvingInv, NEW m \in Matches, Encodes(m.size), NEW ext, Limits(ext.policy),
           RowSatisfied(RowOf(m)), RoundSatisfied(RowOf(m), ext)
    PROVE  /\ Attested(Settles(RowOf(m)), ext.policy)
           /\ Listed(Settles(RowOf(m)), ext.admitted_root)
           /\ Item(Settles(RowOf(m))) = SettlementRow(RowOf(m))
  <1> DEFINE r == RowOf(m)
             y == Settles(r)
  <1>1. r.active = 1 /\ r.size = m.size \div 2
    BY DEF RowOf, decimal_to_scalar
  <1>2. r.size \in F
    <2>1. m.size \in Int
      <3>1. PICK b \in book : m.size = b.order.size
        BY DEF Matches
      <3> QED
        BY <3>1, ProvingAssumption DEF ProvingInv
    <2>2. m.size >= 0 /\ m.size \div 2 < M
      BY DEF Encodes, M
    <2> QED
      BY <1>1, <2>1, <2>2, Room, Sizes DEF F
  <1>3. /\ y.price = r.price /\ y.size = r.size /\ y.bid = leaf_of(r.bid)
        /\ y.ask = leaf_of(r.ask) /\ y.bid_addr = r.bid.addr /\ y.ask_addr = r.ask.addr
    BY DEF Settles
  <1> HIDE DEF r, y
  <1>4. y.bid.trader = r.bid.trader /\ y.ask.trader = r.ask.trader
    BY <1>3 DEF leaf_of, commit_native
  <1>5. RowSatisfied(r) /\ RoundSatisfied(r, ext)
    BY DEF r
  <1>6. /\ r.bid.trader = derive_trader_id(r.bid.addr)
        /\ r.ask.trader = derive_trader_id(r.ask.addr)
    BY <1>1, <1>5 DEF RowSatisfied, Identities
  <1>7. leaf_of(r.bid) \in ext.admitted_root /\ leaf_of(r.ask) \in ext.admitted_root
    BY <1>1, <1>5 DEF RoundSatisfied, Members, admitted_set_proof
  <1>8. r.size >= ext.policy.min_size
    <2> DEFINE s == r.size
               ms == ext.policy.min_size
    <2>1. s \in F /\ ms \in F /\ ms < M
      BY <1>2, Room, Sizes DEF Limits, F
    <2>2. enforce_range(Gate(sub(s, ms), r), SIZE_BITS)
      BY <1>5 DEF RoundSatisfied, WithinPolicy
    <2> HIDE DEF s, ms
    <2>3. s >= ms
      BY <1>1, <2>1, <2>2, GatedOrder
    <2> QED
      BY <2>3 DEF s, ms
  <1>9. Attested(y, ext.policy) /\ Listed(y, ext.admitted_root)
    BY <1>3, <1>4, <1>6, <1>7, <1>8 DEF Attested, Listed
  <1>10. Item(y) = SettlementRow(r)
    BY <1>3 DEF Item, SettlementRow
  <1> QED
    BY <1>9, <1>10 DEF r, y

(* This engine's own round: skipped, or folded.                            *)
LEMMA RoundKeeps ==
    ASSUME ProvingInv, step = None, NEW matches \in Rounds, FoldRound(matches)
    PROVE  ProvingInv'
  <1> DEFINE a == Accumulator(DEFAULT_POLICY)
             root == admitted_set_root(admitted_commitments)
             rows == [i \in DOMAIN matches |-> RowOf(matches[i])]
             ext == [policy |-> DEFAULT_POLICY, clearing_price |-> rows[1].price,
                     admitted_root |-> root]
             c == settlement_chain(a.z.settlement_acc, rows)
             lv == [i \in DOMAIN rows |-> StateLeaves(rows[i])]
                      \o Padding(IVC_BATCH_SIZE - Len(rows))
             new == [i \in DOMAIN rows |-> Settles(rows[i])]
             b == fold_step(a, StepState(a.z, ext, c, lv), new)
  <1>1. /\ step' = None /\ row' = None /\ accepted' = None /\ book' = book
        /\ \/ acc' = acc
           \/ acc' = a
           \/ /\ acc' = b /\ build_rows(matches) /\ DEFAULT_POLICY = a.z.policy_hash
              /\ \A i \in DOMAIN rows : RowSatisfied(rows[i]) /\ RoundSatisfied(rows[i], ext)
    BY DEF FoldRound
  <1>2. AccOK(a)
    BY AccumulatorOK
  <1>3. CASE acc' = acc
    BY <1>1, <1>3, SameAcc, QuietKeeps DEF ProvingInv
  <1>4. CASE acc' = a
    <2> HIDE DEF a
    <2>1. AccOK(acc)'
      BY <1>2, <1>4 DEF AccOK
    <2> QED
      BY <1>1, <2>1, QuietKeeps DEF ProvingInv
  <1>5. CASE /\ acc' = b /\ build_rows(matches) /\ DEFAULT_POLICY = a.z.policy_hash
             /\ \A i \in DOMAIN rows : RowSatisfied(rows[i]) /\ RoundSatisfied(rows[i], ext)
    <2>1. Shape(matches) /\ \A i \in DOMAIN matches : matches[i] \in Matches
      BY RoundShape
    <2>2. Limits(DEFAULT_POLICY) /\ ext.policy = DEFAULT_POLICY /\ ext.admitted_root = root
      BY ProvingAssumption, WitnessWires
    <2> DEFINE y(i) == Settles(RowOf(matches[i]))
    <2>3. /\ DOMAIN rows = DOMAIN matches /\ DOMAIN new = DOMAIN matches
          /\ \A i \in DOMAIN matches : rows[i] = RowOf(matches[i]) /\ new[i] = y(i)
      OBVIOUS
    <2> HIDE DEF ext
    <2>4. ASSUME NEW i \in DOMAIN matches
          PROVE  /\ Attested(new[i], DEFAULT_POLICY) /\ Listed(new[i], ext.admitted_root)
                 /\ Item(new[i]) = SettlementRow(rows[i])
      <3> DEFINE m == matches[i]
      <3>1. m \in Matches /\ Encodes(m.size)
        BY <1>5, <2>1, <2>4 DEF build_rows
      <3>2. RowSatisfied(RowOf(m)) /\ RoundSatisfied(RowOf(m), ext)
        BY <1>5, <2>3, <2>4
      <3> HIDE DEF m
      <3>3. /\ Attested(Settles(RowOf(m)), ext.policy)
            /\ Listed(Settles(RowOf(m)), ext.admitted_root)
            /\ Item(Settles(RowOf(m))) = SettlementRow(RowOf(m))
        BY <2>2, <3>1, <3>2, OwnRow
      <3> QED
        BY <2>2, <2>3, <2>4, <3>3 DEF m
    <2>5. Shape(new)
      <3>1. Len(matches) \in Nat /\ DOMAIN matches = 1..Len(matches)
        BY <2>1, ShapeDomain
      <3>2. DOMAIN new = 1..Len(matches) /\ new = [i \in 1..Len(matches) |-> new[i]]
        BY <2>3, <3>1
      <3> HIDE DEF new
      <3> QED
        BY <3>1, <3>2, ShapeIntro
    <2>6. Chained(c, a.folded \o new)
      <3> DEFINE d == [i \in DOMAIN rows |-> SettlementRow(rows[i])]
      <3>1. c = a.z.settlement_acc \o d
        BY DEF settlement_chain
      <3>2. d = [i \in DOMAIN new |-> Item(new[i])]
        <4>1. d = [i \in DOMAIN matches |-> SettlementRow(rows[i])]
          BY <2>3
        <4> HIDE DEF rows, new, d
        <4> QED
          BY <2>3, <2>4, <4>1
      <3>3. Chained(d, new)
        BY <3>2 DEF Chained
      <3>4. Shape(a.folded) /\ Chained(a.z.settlement_acc, a.folded)
        BY <1>2 DEF AccOK
      <3> DEFINE f == a.folded
                 e == a.z.settlement_acc
      <3> HIDE DEF d, new, f, e
      <3>5. Chained(e \o d, f \o new)
        BY <2>5, <3>3, <3>4, ChainedConcat DEF f, e
      <3> QED
        BY <3>1, <3>5 DEF f, e
    <2> HIDE DEF new, c, lv, a, rows
    <2>7. AccOK(b)
      <3>1. \A i \in DOMAIN new :
               Attested(new[i], a.z.policy_hash) /\ Listed(new[i], ext.admitted_root)
        BY <1>5, <2>3, <2>4
      <3> QED
        BY <1>2, <2>5, <2>6, <3>1, FoldOK
    <2> HIDE DEF b
    <2>8. AccOK(acc)'
      BY <1>5, <2>7 DEF AccOK
    <2> QED
      BY <1>1, <2>8, QuietKeeps DEF ProvingInv
  <1> QED
    BY <1>1, <1>3, <1>4, <1>5

(* A copy that verifies is that of the proof it travels with.              *)
LEMMA VerifyKeeps ==
    ASSUME ProvingInv, step = None, Verify
    PROVE  ProvingInv'
  <1> DEFINE g == compress_and_finalize
  <1>1. PICK f \in Delivered(g) :
           /\ accepted' = IF verify_final(f) THEN f ELSE None
           /\ acc # None /\ acc' = acc /\ book' = book /\ step' = step /\ row' = None
    BY DEF Verify
  <1>2. f.proof = acc
    <2>1. g.proof = acc /\ g = [proof |-> g.proof, z_0 |-> g.z_0, z_n |-> g.z_n,
                                policy_hash |-> g.policy_hash]
      BY DEF compress_and_finalize
    <2> HIDE DEF g
    <2>2. CASE f = g
      BY <2>1, <2>2
    <2>3. CASE f = [g EXCEPT !.z_n.settlement_acc = <<>>]
      BY <2>1, <2>3
    <2>4. CASE f = [g EXCEPT !.z_n.admit_chain[1] = Logged]
      BY <2>1, <2>4
    <2>5. ASSUME NEW pol \in Policies, f = [g EXCEPT !.policy_hash = pol]
          PROVE  f.proof = g.proof
      BY <2>1, <2>5
    <2>6. ASSUME NEW pol \in Policies, f = [g EXCEPT !.z_n.policy_hash = pol]
          PROVE  f.proof = g.proof
      BY <2>1, <2>6
    <2>7. ASSUME NEW pol \in Policies,
                 f = [g EXCEPT !.policy_hash = pol, !.z_n.policy_hash = pol]
          PROVE  f.proof = g.proof
      BY <2>1, <2>7
    <2>8. ASSUME NEW pol \in Policies, f = [g EXCEPT !.z_0.policy_hash = pol]
          PROVE  f.proof = g.proof
      BY <2>1, <2>8
    <2> QED
      BY <1>1, <2>1, <2>2, <2>3, <2>4, <2>5, <2>6, <2>7, <2>8, Zenon DEF Delivered
  <1>3. accepted' = None \/ Verified(accepted)'
    <2>1. AccOK(f.proof)
      BY <1>1, <1>2 DEF ProvingInv
    <2>2. verify_final(f) => Verified(f)
      BY <2>1 DEF verify_final, Verified
    <2> HIDE DEF g
    <2> QED
      BY <1>1, <2>2 DEF Verified, AccOK
  <1> QED
    BY <1>1, <1>3, SameAcc DEF ProvingInv

-----------------------------------------------------------------------------
(* The invariant of the specification.                                     *)

(* Nothing is folded, assigned or verified before the first action.        *)
LEMMA ProvingInit == Init => ProvingInv
  BY DEF Init, ProvingInv

(* One case for each action.                                               *)
LEMMA ProvingNext == ProvingInv /\ [Next]_vars => ProvingInv'
  <1> SUFFICES ASSUME ProvingInv, [Next]_vars
               PROVE  ProvingInv'
    OBVIOUS
  <1>1. CASE step # None /\ \E r \in Witnesses : AssignRow(r)
    BY <1>1, AssignKeeps
  <1>2. CASE CloseStep
    BY <1>2, CloseKeeps
  <1>3. CASE step = None /\ \/ \E p, q \in Payloads : \E answer \in lookup(p) :
                                   place_encrypted_order(p, q, answer)
                            \/ \E b \in book : Leave(b)
                            \/ Restart
    BY <1>3, OrdersKeep
  <1>4. CASE step = None /\ \E matches \in Rounds : FoldRound(matches)
    BY <1>4, RoundKeeps
  <1>5. CASE step = None /\ \E policy \in Policies, price \in ClearingPrices,
                               root \in {Logged, Logged \cup Phantoms} :
                                   BeginStep(policy, price, root)
    BY <1>5, BeginKeeps
  <1>6. CASE step = None /\ Verify
    BY <1>6, VerifyKeeps
  <1>7. CASE UNCHANGED vars
    <2>1. /\ book' = book /\ acc' = acc /\ step' = step /\ row' = row
          /\ accepted' = accepted
      BY <1>7 DEF vars
    <2> QED
      BY <2>1 DEF ProvingInv, AccOK, Stepping, StepOK, Verified, Accumulator
  <1> QED
    BY <1>1, <1>2, <1>3, <1>4, <1>5, <1>6, <1>7 DEF Next

(* The inductive invariant: the accumulator carries the chain and the log  *)
(* of exactly the rows folded into it, the open step extends it, and what  *)
(* was accepted is a copy of such an accumulator.                          *)
THEOREM ProvingIsInvariant == Spec => []ProvingInv
  BY ProvingInit, ProvingNext, PTL DEF Spec

(* A row the constraints accept is a trade between integers, whatever the  *)
(* prime, the widths and the scale: no difference the circuit ranges over  *)
(* (enforce_range_60, enforce_range_n) wraps back into range, and the rows *)
(* of a step share its clearing price.                                     *)
THEOREM RowsAreTrades == Spec => []RowsMeanTrades
  <1>1. ProvingInv => RowsMeanTrades
    <2> SUFFICES ASSUME ProvingInv, row # None, row.active # 0
                 PROVE  RowsMeanTrades
      BY DEF RowsMeanTrades
    <2> DEFINE ext == step.ext
               pol == ext.policy
               r == row
    <2>1. r \in Rows /\ RowSatisfied(r) /\ RoundSatisfied(r, ext) /\ Stepping
      BY DEF ProvingInv, Witnesses
    <2>2. pol \in Policies /\ ext.clearing_price \in F
      BY <2>1 DEF Stepping, StepOK
    <2>3. \A i \in DOMAIN step.rows : step.rows[i].price = ext.clearing_price
      BY <2>1 DEF Stepping, StepOK
    <2>4. Wires(r) /\ Limits(pol) /\ r.active # 0
      BY <2>1, <2>2, WitnessWires
    <2> HIDE DEF ext, r
    <2>5. /\ r.active = 1 /\ {r.bid.side, r.ask.side} = {0, 1}
          /\ r.bid.price >= r.price /\ r.price >= r.ask.price
          /\ r.size <= r.bid.size /\ r.size <= r.ask.size
      BY <2>1, <2>4, RowCrosses
    <2>6. r.price * r.size <= r.bid.balance * SCALE_FACTOR /\ r.size <= r.ask.balance
      BY <2>1, <2>4, <2>5, RowFunded
    <2>7. /\ r.price = ext.clearing_price
          /\ r.size >= pol.min_size /\ r.bid.price >= pol.min_price
          /\ Signed(r.bid.position) + r.size \in -pol.position_limit .. pol.position_limit
          /\ Signed(r.ask.position) - r.size \in -pol.position_limit .. pol.position_limit
      BY <2>1, <2>2, <2>4, <2>5, RowWithinRound
    <2>8. r.size \in pol.min_size .. r.bid.size
      <3>1. r.size \in F /\ r.bid.size \in F /\ pol.min_size \in Nat
        BY <2>4 DEF Wires, Limits
      <3> DEFINE s == r.size
                 b == r.bid.size
                 m == pol.min_size
      <3>2. s \in Int /\ s <= b /\ s >= m
        BY <2>5, <2>7, <3>1 DEF F
      <3> QED
        BY <3>1, <3>2 DEF F
    <2>9. \A i \in DOMAIN step.rows : step.rows[i].price = r.price
      BY <2>3, <2>7
    <2> QED
      BY <2>5, <2>6, <2>7, <2>8, <2>9, Zenon DEF RowsMeanTrades, ext, r
  <1> QED
    BY <1>1, ProvingIsInvariant, PTL

(* A proof that verifies binds the batch through the copies beside it, for *)
(* every number of rounds and rows: its settlement chain is that of the    *)
(* rows folded, each at least the policy's minimum and in its traders' own *)
(* names, and an admitted chain equal to the one recomputed from the log   *)
(* means every leg settled was logged (verify_final).                      *)
THEOREM ProofsBindBatches == Spec => []ProofBindsBatch
  <1>1. ProvingInv => ProofBindsBatch
    <2> SUFFICES ASSUME ProvingInv, accepted # None
                 PROVE  ProofBindsBatch
      BY DEF ProofBindsBatch
    <2> DEFINE f == accepted
               a == f.proof
               rows == a.folded
    <2>1. AccOK(a) /\ f.z_n = a.z /\ f.policy_hash = a.z.policy_hash
      BY DEF ProvingInv, Verified
    <2> HIDE DEF f
    <2>2. f.z_n.settlement_acc = [i \in DOMAIN rows |->
             <<rows[i].bid_addr, rows[i].ask_addr, rows[i].price, rows[i].size>>]
      BY <2>1 DEF AccOK, Chained, Item
    <2>3. \A i \in DOMAIN rows :
             /\ rows[i].size >= f.policy_hash.min_size
             /\ rows[i].bid.trader = derive_trader_id(rows[i].bid_addr)
             /\ rows[i].ask.trader = derive_trader_id(rows[i].ask_addr)
      BY <2>1 DEF AccOK, Attested
    <2>4. ASSUME f.z_n.admit_chain = a.logged
          PROVE  \A i \in DOMAIN rows : \A leg \in {rows[i].bid, rows[i].ask} :
                    \E n \in DOMAIN a.logged : leg \in a.logged[n]
      BY <2>1, <2>4 DEF AccOK, Listed
    <2>5. f.z_n.round_nonce = Len(a.logged)
      BY <2>1 DEF AccOK
    <2> QED
      BY <2>2, <2>3, <2>4, <2>5 DEF ProofBindsBatch, f
  <1> QED
    BY <1>1, ProvingIsInvariant, PTL

-----------------------------------------------------------------------------
(* The rounds of this engine satisfy the constraints.                      *)

(* The range check of a difference of integers that are in range.          *)
LEMMA GatedWithin ==
    ASSUME NEW r, r.active = 1, NEW x \in Nat, NEW y \in Nat, y <= x,
           NEW bits \in {SIZE_BITS, SOLVENCY_DIFF_BITS}, x < 2^bits
    PROVE  enforce_range(Gate(sub(x, y), r), bits)
  <1>1. 2^bits \in Nat /\ 2^bits <= P
    BY Sizes, Room DEF M, D, MAX_ENCODED
  <1>2. x \in F /\ y \in F
    BY <1>1, Sizes DEF F
  <1>3. sub(x, y) = x - y /\ sub(x, y) \in F
    BY <1>2, SubWraps
  <1>4. Gate(sub(x, y), r) = x - y
    BY <1>2, <1>3, GateOpen
  <1> QED
    BY <1>1, <1>4 DEF enforce_range

(* A row of integers that are a funded trade.                              *)
Trade(r) ==
    /\ r.active = 1 /\ r.bid.side = 0 /\ r.ask.side = 1
    /\ r.price \in 1 .. M - 1 /\ r.size \in 1 .. M - 1
    /\ r.bid.price \in r.price .. M - 1 /\ r.ask.price \in 1 .. r.price
    /\ r.bid.size \in r.size .. M - 1 /\ r.ask.size \in r.size .. M - 1
    /\ r.bid.balance \in 0 .. M - 1 /\ r.ask.balance \in r.size .. M - 1
    /\ r.price * r.size <= r.bid.balance * SCALE_FACTOR
    /\ r.bid.position = 0 /\ r.ask.position = 0
    /\ \A leg \in {r.bid, r.ask} : leg.trader = derive_trader_id(leg.addr)

LEMMA TradeFunded ==
    ASSUME NEW p \in Nat, NEW s \in Nat, NEW b \in Nat, p < M, s < M, b < M,
           p * s <= b * SCALE_FACTOR
    PROVE  /\ mul(p, s) = p * s /\ p * s \in Nat
           /\ mul(b, SCALE_FACTOR) = b * SCALE_FACTOR /\ b * SCALE_FACTOR \in Nat
           /\ b * SCALE_FACTOR < D
  <1>1. \A m, k, x \in Nat : x < m /\ k > 0 => x * k < k * m
    OBVIOUS
  <1>2. b * SCALE_FACTOR < SCALE_FACTOR * M
    BY <1>1, Sizes
  <1> DEFINE n == b * SCALE_FACTOR
             l == SCALE_FACTOR * M
             q == p * s
  <1>3. n \in Nat /\ l \in Nat /\ q \in Nat /\ n < l /\ l <= D /\ D < P /\ q <= n
    BY <1>2, Sizes, Room
  <1> HIDE DEF n, l, q
  <1>4. n < D /\ n < P /\ q < P
    BY <1>3, Sizes
  <1>5. mul(p, s) = p * s
    BY <1>4, MulExact DEF q
  <1>6. mul(b, SCALE_FACTOR) = b * SCALE_FACTOR
    BY <1>4, MulExact, Sizes DEF n
  <1> QED
    BY <1>3, <1>4, <1>5, <1>6 DEF n, q

LEMMA TradeSatisfies ==
    ASSUME NEW r, Trade(r)
    PROVE  RowSatisfied(r)
  <1>1. /\ r.active = 1 /\ r.bid.side = 0 /\ r.ask.side = 1
        /\ r.price \in Nat /\ r.size \in Nat /\ r.bid.price \in Nat /\ r.ask.price \in Nat
        /\ r.bid.size \in Nat /\ r.ask.size \in Nat /\ r.bid.balance \in Nat /\ r.ask.balance \in Nat
        /\ r.price < M /\ r.size < M /\ r.bid.price < M /\ r.ask.price < M
        /\ r.bid.size < M /\ r.ask.size < M /\ r.bid.balance < M /\ r.ask.balance < M
        /\ r.price <= r.bid.price /\ r.ask.price <= r.price
        /\ r.size <= r.bid.size /\ r.size <= r.ask.size /\ r.size <= r.ask.balance
        /\ r.price * r.size <= r.bid.balance * SCALE_FACTOR
    BY Sizes DEF Trade
  <1>2. 0 \in F /\ 1 \in F
    BY Room, Sizes DEF F
  <1>3. sub(1, 0) = 1 /\ sub(1, 1) = 0 /\ add(0, 1) = 1
    BY <1>2, SubWraps, AddWraps, Room, Sizes
  <1>4. mul(0, 1) = 0 /\ mul(1, 0) = 0
    BY MulExact, Sizes
  <1>5. SideBits(r)
    BY <1>1, <1>3, <1>4 DEF SideBits
  <1>6. OppositeSides(r)
    BY <1>1, <1>2, <1>3, GateOpen DEF OppositeSides
  <1>7. RowRanges(r)
    BY <1>1 DEF RowRanges, enforce_range, M, MAX_ENCODED
  <1>8. Crosses(r)
    BY <1>1, GatedWithin DEF Crosses, M, MAX_ENCODED
  <1>9. FillsWithin(r)
    BY <1>1, GatedWithin DEF FillsWithin, M, MAX_ENCODED
  <1>10. Solvent(r)
    <2> DEFINE n == r.bid.balance * SCALE_FACTOR
               q == r.price * r.size
    <2>1. /\ mul(r.price, r.size) = q /\ q \in Nat
          /\ mul(r.bid.balance, SCALE_FACTOR) = n /\ n \in Nat /\ n < D
      BY <1>1, TradeFunded
    <2>2. q <= n
      BY <1>1
    <2> HIDE DEF n, q
    <2>3. enforce_range(Gate(sub(n, q), r), SOLVENCY_DIFF_BITS)
      BY <1>1, <2>1, <2>2, GatedWithin DEF D
    <2>4. r.ask.balance < D
      BY <1>1, Room, Sizes
    <2>5. enforce_range(Gate(sub(r.ask.balance, r.size), r), SOLVENCY_DIFF_BITS)
      BY <1>1, <2>4, GatedWithin DEF D
    <2> QED
      BY <2>1, <2>3, <2>5 DEF Solvent
  <1>11. Identities(r)
    BY DEF Identities, Trade
  <1> QED
    BY <1>5, <1>6, <1>7, <1>8, <1>9, <1>10, <1>11 DEF RowSatisfied

LEMMA TradeSatisfiesRound ==
    ASSUME NEW r, Trade(r), NEW ext, Limits(ext.policy), ext.clearing_price = r.price,
           ext.policy.min_size <= 1, ext.policy.min_price <= 1,
           r.size <= ext.policy.position_limit,
           leaf_of(r.bid) \in ext.admitted_root, leaf_of(r.ask) \in ext.admitted_root
    PROVE  RoundSatisfied(r, ext)
  <1> DEFINE s == r.size
             limit == ext.policy.position_limit
  <1>1. /\ r.active = 1 /\ r.bid.position = 0 /\ r.ask.position = 0
        /\ r.price \in Nat /\ r.price < M /\ s \in Nat /\ s > 0 /\ s < M
        /\ r.bid.price \in Nat /\ r.bid.price < M /\ r.bid.price > 0
    BY Sizes DEF Trade
  <1>2. /\ limit \in Nat /\ 2 * limit < M /\ s <= limit
        /\ ext.policy.min_size \in Nat /\ ext.policy.min_size <= s
        /\ ext.policy.min_price \in Nat /\ ext.policy.min_price <= r.bid.price
    BY <1>1 DEF Limits
  <1>3. UniformPrice(r, ext.clearing_price)
    <2>1. r.price \in F
      BY <1>1, Room, Sizes DEF F
    <2>2. sub(r.price, r.price) = r.price - r.price
      BY <1>1, <2>1, SubWraps
    <2>3. sub(r.price, ext.clearing_price) = 0 /\ 0 \in F
      BY <1>1, <2>2, Sizes DEF F
    <2> QED
      BY <1>1, <2>3, GateOpen DEF UniformPrice
  <1>4. WithinPolicy(r, ext.policy)
    BY <1>1, <1>2, GatedWithin DEF WithinPolicy, M, MAX_ENCODED
  <1>5. WithinPosition(r, limit)
    <2> HIDE DEF s, limit
    <2>1. 0 \in F /\ s \in F /\ limit \in F /\ P - s \in F /\ limit + s < M /\ limit + s < P
      BY <1>1, <1>2, Room, Sizes DEF F
    <2>2. add(0, s) = s /\ sub(0, s) = P - s
      BY <1>1, <2>1, AddWraps, SubWraps, Sizes DEF F
    <2>3. sub(limit, s) = limit - s /\ add(limit, s) = limit + s
      BY <1>1, <1>2, <2>1, AddWraps, SubWraps, Sizes DEF F
    <2>4. sub(limit, P - s) = limit + s
      <3>1. limit < P - s /\ limit - (P - s) + P = limit + s
        BY <1>1, <1>2, <2>1, Sizes
      <3> QED
        BY <2>1, <3>1, SubWraps
    <2>5. add(limit, P - s) = limit - s
      <3>1. limit + (P - s) >= P /\ limit + (P - s) - P = limit - s
        BY <1>1, <1>2, Sizes
      <3> QED
        BY <2>1, <3>1, AddWraps
    <2>6. limit - s \in F /\ limit + s \in F /\ limit - s < M
      BY <1>1, <1>2, <2>1, Room, Sizes DEF F
    <2>7. Gate(limit - s, r) = limit - s /\ Gate(limit + s, r) = limit + s
      BY <1>1, <2>6, GateOpen
    <2>8. \A pos \in {s, P - s} : /\ enforce_range(Gate(sub(limit, pos), r), SIZE_BITS)
                                  /\ enforce_range(Gate(add(limit, pos), r), SIZE_BITS)
      BY <2>1, <2>3, <2>4, <2>5, <2>6, <2>7 DEF enforce_range, M, MAX_ENCODED
    <2> QED
      BY <1>1, <2>2, <2>8 DEF WithinPosition, s
  <1>6. Members(r, ext.admitted_root)
    BY DEF Members, admitted_set_proof
  <1> QED
    BY <1>3, <1>4, <1>5, <1>6 DEF RoundSatisfied

-----------------------------------------------------------------------------
(* What is admitted is what was proved.                                    *)

(* What an order commits to.                                               *)
CommitmentOf(o) ==
    commit_native(derive_trader_id(o.trader), o.side, o.price \div 2, o.size \div 2, o.salt)

Admissible(o) ==
    /\ o \in Payloads /\ o.side \in {0, 1}
    /\ o.price > 0 /\ o.size > 0 /\ Encodes(o.price) /\ Encodes(o.size)

(* The secrets s are those of order o.                                     *)
HeldFor(s, o) ==
    /\ s.trader_id = derive_trader_id(o.trader) /\ s.salt = o.salt
    /\ s.commitment = CommitmentOf(o) /\ s.balance \in Int /\ s.position = 0

OrdersOK ==
    /\ IsFiniteSet(book)
    /\ \A b \in book : /\ Admissible(b.order) /\ b.proved = b.order
                       /\ b.commitment = CommitmentOf(b.order)
    /\ \A o \in DOMAIN secrets : HeldFor(secrets[o], o)

(* A round that was skipped is excused.                                    *)
SkipExcused ==
    skipped # None =>
        \/ Cardinality(book) > MERKLE_LEAVES
        \/ acc # None /\ acc.z.policy_hash # DEFAULT_POLICY
        \/ \E i \in DOMAIN skipped.matches : Excused(skipped.matches[i], skipped.secrets)

AdmitInv == OrdersOK /\ SkipExcused

(* A proof that verifies was made from the order of the ciphertext.        *)
LEMMA ProvedIsPlaced ==
    ASSUME NEW p \in Payloads, NEW q \in Payloads, CommitmentOf(p) = CommitmentOf(q),
           Encodes(p.price), Encodes(p.size), ClientEncodes(q.price), ClientEncodes(q.size)
    PROVE  p = q
  <1>1. /\ [poseidon |-> p.trader] = [poseidon |-> q.trader] /\ p.side = q.side
        /\ p.price \div 2 = q.price \div 2 /\ p.size \div 2 = q.size \div 2 /\ p.salt = q.salt
    BY DEF CommitmentOf, commit_native, derive_trader_id
  <1>2. [poseidon |-> p.trader].poseidon = [poseidon |-> q.trader].poseidon
    BY <1>1
  <1>3. {p.price, p.size, q.price, q.size} \subseteq Int
    BY ProvingAssumption
  <1>4. p.price % 2 = 0 /\ p.size % 2 = 0 /\ q.price % 2 = 0 /\ q.size % 2 = 0
    BY DEF Encodes, ClientEncodes
  <1>5. \A x, y \in Int : x % 2 = 0 /\ y % 2 = 0 /\ x \div 2 = y \div 2 => x = y
    OBVIOUS
  <1>6. p.price = q.price /\ p.size = q.size
    BY <1>1, <1>3, <1>4, <1>5
  <1>7. /\ p = [trader |-> p.trader, side |-> p.side, price |-> p.price, size |-> p.size,
                salt |-> p.salt]
        /\ q = [trader |-> q.trader, side |-> q.side, price |-> q.price, size |-> q.size,
                salt |-> q.salt]
    BY ProvingAssumption
  <1> QED
    BY <1>1, <1>2, <1>6, <1>7

LEMMA DerivedSecrets ==
    ASSUME NEW p \in Payloads, p.side \in {0, 1}, NEW answer \in lookup(p)
    PROVE  HeldFor(derive_order_secrets(p, answer), p)
  <1>1. answer.balance \in Int /\ answer.position = 0
    BY ProvingAssumption DEF lookup
  <1>2. (IF p.side = 0 THEN 0 ELSE 1) = p.side
    OBVIOUS
  <1> QED
    BY <1>1, <1>2 DEF derive_order_secrets, HeldFor, CommitmentOf, decimal_to_scalar

LEMMA PlaceAdmits ==
    ASSUME AdmitInv, NEW p \in Payloads, NEW q \in Payloads, NEW answer \in lookup(p),
           place_encrypted_order(p, q, answer)
    PROVE  AdmitInv'
  <1> DEFINE s == derive_order_secrets(p, answer)
             b == [order |-> p, proved |-> q, commitment |-> s.commitment]
  <1>1. /\ p.side \in {0, 1} /\ p.price > 0 /\ p.size > 0 /\ Encodes(p.price) /\ Encodes(p.size)
        /\ ClientEncodes(q.price) /\ ClientEncodes(q.size)
        /\ prove_order(q) = [commitment |-> s.commitment, nullifier |-> s.nullifier]
        /\ secrets' = [o \in DOMAIN secrets \cup {p} |-> IF o = p THEN s ELSE secrets[o]]
        /\ book' = book \cup {b}
        /\ skipped' = None
    BY DEF place_encrypted_order, prepare_order, Verifies, Quiet
  <1>2. HeldFor(s, p)
    BY <1>1, DerivedSecrets
  <1> HIDE DEF s
  <1>3. prove_order(q).commitment = CommitmentOf(q)
    BY DEF prove_order, OrderProofPublics, from_decimals, CommitmentOf
  <1>4. s.commitment = CommitmentOf(q) /\ s.commitment = CommitmentOf(p)
    BY <1>1, <1>2, <1>3 DEF HeldFor
  <1>5. p = q
    BY <1>1, <1>4, ProvedIsPlaced
  <1>6. Admissible(b.order) /\ b.proved = b.order /\ b.commitment = CommitmentOf(b.order)
    BY <1>1, <1>4, <1>5 DEF Admissible
  <1> HIDE DEF b
  <1>7. IsFiniteSet(book')
    BY <1>1, FS_AddElement DEF AdmitInv, OrdersOK
  <1>8. \A o \in DOMAIN secrets' : HeldFor(secrets'[o], o)
    BY <1>1, <1>2 DEF AdmitInv, OrdersOK
  <1>9. OrdersOK'
    BY <1>1, <1>6, <1>7, <1>8 DEF AdmitInv, OrdersOK
  <1> QED
    BY <1>1, <1>9 DEF AdmitInv, SkipExcused

(* A match of admitted orders that nothing excuses is a trade the circuit  *)
(* accepts.                                                                *)
LEMMA MatchIsTrade ==
    ASSUME OrdersOK, NEW m \in Matches, ~Excused(m, secrets)
    PROVE  /\ {m.bid, m.ask} \subseteq DOMAIN secrets
           /\ Encodes(m.price) /\ Encodes(m.size)
           /\ LegEncodes(leg_witness_from(m.bid, 0)) /\ LegEncodes(leg_witness_from(m.ask, 1))
           /\ Trade(RowOf(m)) /\ RowOf(m).size <= DEFAULT_POLICY.position_limit
           /\ leaf_of(RowOf(m).bid) \in admitted_commitments
           /\ leaf_of(RowOf(m).ask) \in admitted_commitments
  <1> DEFINE bid == m.bid
             ask == m.ask
             r == RowOf(m)
             orders == {b.order : b \in book}
  <1>1. /\ bid \in orders /\ ask \in orders
        /\ m.price \in {b.order.price : b \in book} /\ m.size \in {b.order.size : b \in book}
        /\ bid.side = 0 /\ ask.side = 1
        /\ bid.price >= m.price /\ m.price >= ask.price
        /\ m.size <= bid.size /\ m.size <= ask.size
    BY DEF Matches
  <1>2. /\ bid \in DOMAIN secrets /\ ask \in DOMAIN secrets
        /\ Encodes(secrets[bid].balance) /\ Encodes(secrets[ask].balance)
        /\ ~(SCALE_FACTOR * secrets[bid].balance * 2 < m.price * m.size)
        /\ ~(secrets[ask].balance < m.size)
        /\ ~(m.size \div 2 > DEFAULT_POLICY.position_limit)
    BY DEF Excused, decimal_to_scalar
  <1>3. HeldFor(secrets[bid], bid) /\ HeldFor(secrets[ask], ask)
    BY <1>2 DEF OrdersOK
  <1>4. Admissible(bid) /\ Admissible(ask)
    BY <1>1 DEF OrdersOK
  <1>5. \A x \in {m.price, m.size, bid.price, bid.size, ask.price, ask.size,
                  secrets[bid].balance, secrets[ask].balance} :
            x \in Int /\ Encodes(x)
    <2>1. \A b \in book : Admissible(b.order) /\ b.order.price \in Int /\ b.order.size \in Int
      BY ProvingAssumption DEF OrdersOK, Admissible
    <2>2. \A x \in {m.price, m.size} : x \in Int /\ Encodes(x)
      BY <1>1, <2>1 DEF Admissible
    <2>3. \A x \in {bid.price, bid.size, ask.price, ask.size} : x \in Int /\ Encodes(x)
      BY <1>4, ProvingAssumption DEF Admissible
    <2>4. \A x \in {secrets[bid].balance, secrets[ask].balance} : x \in Int /\ Encodes(x)
      BY <1>2, <1>3 DEF HeldFor
    <2> QED
      BY <2>2, <2>3, <2>4
  <1>6. m.price > 0 /\ m.size > 0 /\ ask.price > 0
    BY <1>1, <1>4 DEF OrdersOK, Admissible
  <1>7. /\ r.active = 1 /\ r.price = m.price \div 2 /\ r.size = m.size \div 2
        /\ r.bid = [trader |-> secrets[bid].trader_id, addr |-> bid.trader, side |-> 0,
                    price |-> bid.price \div 2, size |-> bid.size \div 2,
                    salt |-> secrets[bid].salt, balance |-> secrets[bid].balance \div 2,
                    position |-> secrets[bid].position % P]
        /\ r.ask = [trader |-> secrets[ask].trader_id, addr |-> ask.trader, side |-> 1,
                    price |-> ask.price \div 2, size |-> ask.size \div 2,
                    salt |-> secrets[ask].salt, balance |-> secrets[ask].balance \div 2,
                    position |-> secrets[ask].position % P]
    BY DEF RowOf, LegScalars, leg_witness_from, decimal_to_scalar, signed_to_scalar
  <1>8. LegEncodes(leg_witness_from(bid, 0)) /\ LegEncodes(leg_witness_from(ask, 1))
    BY <1>5 DEF LegEncodes, leg_witness_from
  <1> HIDE DEF r, bid, ask
  <1>9. Trade(r)
    <2> DEFINE Half(x) == x \div 2
    <2>1. \A x \in Int : Encodes(x) => x \div 2 \in Nat /\ x \div 2 < M /\ x = 2 * (x \div 2)
      BY Sizes DEF Encodes, M
    <2>2. /\ r.bid.position = 0 /\ r.ask.position = 0
          /\ r.bid.trader = derive_trader_id(r.bid.addr)
          /\ r.ask.trader = derive_trader_id(r.ask.addr)
      <3>1. 0 % P = 0
        BY Sizes
      <3> QED
        BY <1>3, <1>7, <3>1 DEF HeldFor
    <2>3. /\ r.price \in Nat /\ r.price < M /\ m.price = 2 * r.price
          /\ r.size \in Nat /\ r.size < M /\ m.size = 2 * r.size
          /\ r.bid.price \in Nat /\ r.bid.price < M /\ bid.price = 2 * r.bid.price
          /\ r.ask.price \in Nat /\ r.ask.price < M /\ ask.price = 2 * r.ask.price
          /\ r.bid.size \in Nat /\ r.bid.size < M /\ bid.size = 2 * r.bid.size
          /\ r.ask.size \in Nat /\ r.ask.size < M /\ ask.size = 2 * r.ask.size
          /\ r.bid.balance \in Nat /\ r.bid.balance < M
          /\ secrets[bid].balance = 2 * r.bid.balance
          /\ r.ask.balance \in Nat /\ r.ask.balance < M
          /\ secrets[ask].balance = 2 * r.ask.balance
      BY <1>5, <1>7, <2>1
    <2>4. r.price * r.size <= r.bid.balance * SCALE_FACTOR
      <3>1. \A k, x, p, s \in Nat : k * (2 * x) * 2 >= (2 * p) * (2 * s) => p * s <= x * k
        OBVIOUS
      <3>2. \A k, x \in Nat, y \in Int : ~(k * (2 * x) * 2 < y) => k * (2 * x) * 2 >= y
        OBVIOUS
      <3>3. ~(SCALE_FACTOR * (2 * r.bid.balance) * 2 < (2 * r.price) * (2 * r.size))
        BY <1>2, <2>3
      <3>4. (2 * r.price) * (2 * r.size) \in Int
        BY <2>3
      <3>5. SCALE_FACTOR * (2 * r.bid.balance) * 2 >= (2 * r.price) * (2 * r.size)
        BY <2>3, <3>2, <3>3, <3>4, Sizes
      <3> QED
        BY <2>3, <3>1, <3>5, Sizes
    <2>5. /\ r.price <= r.bid.price /\ r.ask.price <= r.price /\ r.ask.price >= 1
          /\ r.size <= r.bid.size /\ r.size <= r.ask.size /\ r.size >= 1
          /\ r.size <= r.ask.balance /\ r.price >= 1
      BY <1>1, <1>2, <1>6, <2>3
    <2>6. r.bid.side = 0 /\ r.ask.side = 1 /\ r.active = 1
      BY <1>7
    <2> QED
      BY <2>2, <2>3, <2>4, <2>5, <2>6, Sizes DEF Trade
  <1>10. r.size <= DEFAULT_POLICY.position_limit
    <2>1. r.size \in Nat /\ DEFAULT_POLICY.position_limit \in Nat
      BY <1>9, ProvingAssumption, Sizes DEF Trade
    <2> QED
      BY <1>2, <1>7, <2>1
  <1>11. leaf_of(r.bid) = secrets[bid].commitment /\ leaf_of(r.ask) = secrets[ask].commitment
    BY <1>1, <1>3, <1>7 DEF HeldFor, CommitmentOf, leaf_of
  <1>12. leaf_of(r.bid) \in admitted_commitments /\ leaf_of(r.ask) \in admitted_commitments
    BY <1>1, <1>2, <1>11 DEF admitted_commitments
  <1> QED
    BY <1>2, <1>5, <1>8, <1>9, <1>10, <1>12 DEF r, bid, ask

(* The admitted set is no larger than the book.                            *)
LEMMA AdmittedFits ==
    ASSUME OrdersOK, Cardinality(book) <= MERKLE_LEAVES
    PROVE  canonical_leaves(admitted_commitments)
  <1> DEFINE T == {b.commitment : b \in book}
             f == [b \in book |-> b.commitment]
  <1>1. IsFiniteSet(book)
    BY DEF OrdersOK
  <1>2. f \in Surjection(book, T)
    BY DEF Surjection
  <1>3. IsFiniteSet(T) /\ Cardinality(T) <= Cardinality(book)
    <2> HIDE DEF f, T
    <2> QED
      BY <1>1, <1>2, FS_Surjection
  <1>4. admitted_commitments \in SUBSET T
    BY DEF admitted_commitments, OrdersOK, HeldFor
  <1> HIDE DEF T
  <1>5. IsFiniteSet(admitted_commitments) /\ Cardinality(admitted_commitments) <= Cardinality(T)
    BY <1>3, <1>4, FS_Subset
  <1>6. /\ Cardinality(admitted_commitments) \in Nat /\ Cardinality(T) \in Nat
        /\ Cardinality(book) \in Nat /\ MERKLE_LEAVES \in Nat
    BY <1>1, <1>3, <1>5, FS_CardinalityType, CircuitAssumption
  <1> QED
    BY <1>3, <1>5, <1>6 DEF canonical_leaves

(* The matches of a chunk: as many as the circuit takes, at one price.     *)
LEMMA ChunkShape ==
    ASSUME NEW matches \in Rounds
    PROVE  /\ Len(matches) <= BATCH_SIZE /\ 1 \in DOMAIN matches
           /\ \A i \in DOMAIN matches : matches[i].price = matches[1].price
  <1>0. BATCH_SIZE \in Nat /\ BATCH_SIZE >= 1
    BY ProvingAssumption, CircuitAssumption
  <1>1. CASE \E m \in Matches : matches = <<m>>
    BY <1>0, <1>1
  <1>2. CASE \E m, n \in Matches : matches = <<m, n>> /\ m.price = n.price /\ BATCH_SIZE >= 2
    BY <1>0, <1>2
  <1> QED
    BY <1>1, <1>2 DEF Rounds

(* A round that cannot be folded is excused.                               *)
LEMMA RoundAdmits ==
    ASSUME AdmitInv, NEW matches \in Rounds, FoldRound(matches)
    PROVE  AdmitInv'
  <1> DEFINE a == Accumulator(DEFAULT_POLICY)
             root == admitted_commitments
             rows == [i \in DOMAIN matches |-> RowOf(matches[i])]
             ext == [policy |-> DEFAULT_POLICY, clearing_price |-> rows[1].price,
                     admitted_root |-> root]
             built == Witnessed(matches) /\ build_rows(matches) /\ attach_membership(rows, root)
             holds == /\ ext.policy = a.z.policy_hash
                      /\ \A i \in DOMAIN rows :
                             RowSatisfied(rows[i]) /\ RoundSatisfied(rows[i], ext)
  <1>1. /\ \/ /\ skipped' = [matches |-> matches, secrets |-> secrets]
              /\ (~built /\ acc' = acc) \/ (~holds /\ acc' = a)
           \/ skipped' = None
        /\ UNCHANGED <<book, secrets>>
    BY DEF FoldRound, admitted_set_root
  <1>2. OrdersOK
    BY DEF AdmitInv
  <1>3. OrdersOK'
    BY <1>1, <1>2 DEF OrdersOK
  <1>4. ASSUME Cardinality(book) <= MERKLE_LEAVES,
               \A i \in DOMAIN matches : ~Excused(matches[i], secrets)
        PROVE  built /\ \A i \in DOMAIN rows : RowSatisfied(rows[i]) /\ RoundSatisfied(rows[i], ext)
    <2>1. /\ Len(matches) <= BATCH_SIZE /\ 1 \in DOMAIN matches
          /\ \A i \in DOMAIN matches : matches[i].price = matches[1].price
      BY ChunkShape
    <2>2. \A i \in DOMAIN matches : matches[i] \in Matches
      BY RoundShape
    <2>3. ASSUME NEW i \in DOMAIN matches
          PROVE  /\ {matches[i].bid, matches[i].ask} \subseteq DOMAIN secrets
                 /\ Encodes(matches[i].price) /\ Encodes(matches[i].size)
                 /\ LegEncodes(leg_witness_from(matches[i].bid, 0))
                 /\ LegEncodes(leg_witness_from(matches[i].ask, 1))
                 /\ Trade(RowOf(matches[i]))
                 /\ RowOf(matches[i]).size <= DEFAULT_POLICY.position_limit
                 /\ leaf_of(RowOf(matches[i]).bid) \in root
                 /\ leaf_of(RowOf(matches[i]).ask) \in root
      BY <1>2, <1>4, <2>2, <2>3, MatchIsTrade
    <2>4. Witnessed(matches) /\ build_rows(matches)
      BY <2>1, <2>3 DEF Witnessed, build_rows
    <2>5. attach_membership(rows, root)
      <3>1. canonical_leaves(root)
        BY <1>2, <1>4, AdmittedFits
      <3> QED
        BY <2>3, <3>1 DEF attach_membership, admitted_set_proof
    <2>6. ASSUME NEW i \in DOMAIN matches
          PROVE  RowSatisfied(rows[i]) /\ RoundSatisfied(rows[i], ext)
      <3> DEFINE r == RowOf(matches[i])
      <3>1. Trade(r) /\ rows[i] = r
        BY <2>3, <2>6
      <3>2. ext.clearing_price = r.price
        <4>1. RowOf(matches[1]).price = RowOf(matches[i]).price
          BY <2>1, <2>6 DEF RowOf
        <4> QED
          BY <2>1, <4>1
      <3>3. /\ Limits(ext.policy) /\ ext.policy.min_size <= 1 /\ ext.policy.min_price <= 1
            /\ r.size <= ext.policy.position_limit
            /\ leaf_of(r.bid) \in ext.admitted_root /\ leaf_of(r.ask) \in ext.admitted_root
        BY <2>3, <2>6, ProvingAssumption DEF Limits, M
      <3> HIDE DEF r, ext
      <3>4. RowSatisfied(r) /\ RoundSatisfied(r, ext)
        BY <3>1, <3>2, <3>3, TradeSatisfies, TradeSatisfiesRound
      <3> QED
        BY <3>1, <3>4
    <2> HIDE DEF ext
    <2> QED
      BY <2>4, <2>5, <2>6
  <1>5. ASSUME acc = None \/ acc.z.policy_hash = DEFAULT_POLICY
        PROVE  DEFAULT_POLICY = a.z.policy_hash
    BY <1>5 DEF Accumulator, init_accumulator, compute_z_0
  <1>6. acc # None => a = acc
    BY DEF Accumulator
  <1>7. Cardinality(book) \in Nat /\ MERKLE_LEAVES \in Nat
    BY <1>2, FS_CardinalityType, CircuitAssumption DEF OrdersOK
  <1>8. ext.policy = DEFAULT_POLICY
    OBVIOUS
  <1> HIDE DEF built, rows, ext, a
  <1>9. SkipExcused'
    <2> SUFFICES ASSUME skipped' # None,
                        ~(Cardinality(book) > MERKLE_LEAVES),
                        ~(acc' # None /\ acc'.z.policy_hash # DEFAULT_POLICY),
                        \A i \in DOMAIN matches : ~Excused(matches[i], secrets)
                 PROVE  FALSE
      BY <1>1 DEF SkipExcused
    <2>1. Cardinality(book) <= MERKLE_LEAVES
      BY <1>7
    <2>2. acc = None \/ acc.z.policy_hash = DEFAULT_POLICY
      BY <1>1, <1>6
    <2> QED
      BY <1>1, <1>4, <1>5, <1>8, <2>1, <2>2
  <1> QED
    BY <1>3, <1>9 DEF AdmitInv

(* The other steps leave the orders alone, or take some away.              *)
LEMMA OthersAdmit ==
    ASSUME AdmitInv, skipped' = None, book' \subseteq book,
           \A o \in DOMAIN secrets' : o \in DOMAIN secrets /\ secrets'[o] = secrets[o]
    PROVE  AdmitInv'
  <1>1. IsFiniteSet(book')
    BY FS_Subset DEF AdmitInv, OrdersOK
  <1> QED
    BY <1>1 DEF AdmitInv, OrdersOK, SkipExcused

LEMMA AdmitInit == Init => AdmitInv
  <1>1. DOMAIN << >> = {}
    BY ShapeEmpty
  <1> QED
    BY <1>1, FS_EmptySet DEF Init, AdmitInv, OrdersOK, SkipExcused

LEMMA AdmitNext == AdmitInv /\ [Next]_vars => AdmitInv'
  <1> SUFFICES ASSUME AdmitInv, [Next]_vars PROVE AdmitInv'
    OBVIOUS
  <1>1. CASE UNCHANGED vars
    BY <1>1 DEF vars, AdmitInv, OrdersOK, SkipExcused
  <1>2. ASSUME NEW r, AssignRow(r) PROVE AdmitInv'
    BY <1>2, OthersAdmit DEF AssignRow
  <1>3. CASE CloseStep
    BY <1>3, OthersAdmit DEF CloseStep, Quiet
  <1>4. ASSUME NEW b \in book, Leave(b) PROVE AdmitInv'
    BY <1>4, OthersAdmit DEF Leave, Quiet
  <1>5. CASE Restart
    <2>1. DOMAIN secrets' = {}
      BY <1>5, ShapeEmpty DEF Restart
    <2> QED
      BY <1>5, <2>1, OthersAdmit DEF Restart, Quiet
  <1>6. ASSUME NEW policy, NEW price, NEW root, BeginStep(policy, price, root) PROVE AdmitInv'
    BY <1>6, OthersAdmit DEF BeginStep, Quiet
  <1>7. CASE Verify
    BY <1>7, OthersAdmit DEF Verify
  <1> QED
    BY <1>1, <1>2, <1>3, <1>4, <1>5, <1>6, <1>7, PlaceAdmits, RoundAdmits DEF Next

(* The engine admits an order only as its trader proved it, and a round of *)
(* admitted orders folds unless one of the listed reasons excuses it: the  *)
(* commitment derived at admission, the witness rebuilt from the secrets   *)
(* and the admitted set agree (place_encrypted_order, build_batch_witness, *)
(* attach_membership).                                                     *)
THEOREM AdmittedOrdersProve == Spec => []AdmittedProves
  <1>1. AdmitInv => AdmittedProves
    <2> SUFFICES ASSUME AdmitInv PROVE AdmittedProves
      OBVIOUS
    <2>1. \A b \in book : prove_order(b.proved).commitment = b.commitment /\ b.proved = b.order
      BY DEF AdmitInv, OrdersOK, prove_order, OrderProofPublics, from_decimals, CommitmentOf
    <2> QED
      BY <2>1 DEF AdmitInv, SkipExcused, AdmittedProves
  <1> QED
    BY <1>1, AdmitInit, AdmitNext, PTL DEF Spec
=============================================================================
