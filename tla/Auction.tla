------------------------------- MODULE Auction -------------------------------
(***************************************************************************)
(* The uniform-price batch auction of dp-auction (crates/dp-auction/src/   *)
(* lib.rs): the clearing price of a round and the greedy price-time        *)
(* allocation at that price, as operators over sets of orders.             *)
(*                                                                         *)
(* An order is a record [id, trader, price, seq, remaining].  Prices are   *)
(* integers in units of 10^-CLEARING_PRICE_DP, the finest price the ZK     *)
(* encoder accepts; sizes are integers in units of the smallest lot.       *)
(***************************************************************************)
EXTENDS Integers, FiniteSets, Sequences, SequencesExt

NoAuction == [price |-> 0, matches |-> <<>>]

(* Best price first, then earliest placement: the total order `run` sorts  *)
(* each side by.  seq is unique per order, so both are strict.             *)
BetterBid(a, b) == a.price > b.price \/ (a.price = b.price /\ a.seq < b.seq)
BetterAsk(a, b) == a.price < b.price \/ (a.price = b.price /\ a.seq < b.seq)

(* The order of one side of the book.                                      *)
Better(side, a, b) == IF side = "Buy" THEN BetterBid(a, b) ELSE BetterAsk(a, b)

(* Defective: priority by arrival alone, the price forgotten.              *)
SortedByArrival(side, S) ==
    [i \in 1..Cardinality(S) |->
        CHOOSE o \in S : Cardinality({p \in S : p.seq < o.seq}) = i - 1]

(* The orders S of one side from the best to the worst.                    *)
SortedSide(side, S) ==
    [i \in 1..Cardinality(S) |->
        CHOOSE o \in S : Cardinality({p \in S : Better(side, p, o)}) = i - 1]

cumulative_volume(S) == MapThenSumSet(LAMBDA o : o.remaining, S)

Lesser(m, n) == IF m <= n THEN m ELSE n

(* The volume a clearing price p lets execute.                             *)
VolumeAt(bids, asks, p) ==
    Lesser(cumulative_volume({b \in bids : b.price >= p}),
           cumulative_volume({a \in asks : a.price <= p}))

(* Half of n, rounded to an integer as Decimal::round_dp does: a tie goes  *)
(* to the even neighbour.                                                  *)
HalfRoundedToEven(n) ==
    IF n % 2 = 0 \/ (n \div 2) % 2 = 0 THEN n \div 2 ELSE n \div 2 + 1

(* The prices of the round's orders at which the executable volume is      *)
(* greatest and not zero.                                                  *)
tied_prices(bids, asks) ==
    LET candidates == {o.price : o \in bids \cup asks}
        best == Max({VolumeAt(bids, asks, p) : p \in candidates})
    IN  {p \in candidates : VolumeAt(bids, asks, p) = best /\ best > 0}

(* Defective: the midpoint of the whole book.                              *)
MidpointOfAllPrices(bids, asks) ==
    LET all == {o.price : o \in bids \cup asks}
    IN  HalfRoundedToEven(Min(all) + Max(all))

compute_clearing_price(bids, asks) ==
    LET tied == tied_prices(bids, asks)
    IN  IF tied = {} THEN 0 ELSE HalfRoundedToEven(Min(tied) + Max(tied))

(* Defective: no self-trade prevention.                                    *)
FillPairSelfTrade(st, bid, ask, price) ==
    LET size == Lesser(st.rem[bid.id], st.rem[ask.id])
    IN  IF size = 0
        THEN st
        ELSE [rem |-> [st.rem EXCEPT ![bid.id] = @ - size, ![ask.id] = @ - size],
              matches |-> Append(st.matches, [bid |-> bid.id, ask |-> ask.id,
                                              price |-> price, size |-> size])]

(* One step of the inner loop of match_orders: the current bid against one *)
(* ask.  st.rem holds what is left of every eligible order.                *)
FillPair(st, bid, ask, price) ==
    LET size == Lesser(st.rem[bid.id], st.rem[ask.id])
    IN  IF size = 0 \/ bid.trader = ask.trader
        THEN st
        ELSE [rem |-> [st.rem EXCEPT ![bid.id] = @ - size, ![ask.id] = @ - size],
              matches |-> Append(st.matches, [bid |-> bid.id, ask |-> ask.id,
                                              price |-> price, size |-> size])]

(* The greedy allocation among the orders of two sides that are eligible.  *)
GreedyFills(eligibleBids, eligibleAsks, price) ==
    LET eligible == eligibleBids \cup eligibleAsks
        remaining == [i \in {o.id : o \in eligible} |->
                        (CHOOSE o \in eligible : o.id = i).remaining]
        FillBid(st, bid) ==
            FoldLeft(LAMBDA s, ask : FillPair(s, bid, ask, price),
                     st, SortedSide("Sell", eligibleAsks))
    IN  FoldLeft(FillBid, [rem |-> remaining, matches |-> <<>>],
                 SortedSide("Buy", eligibleBids)).matches

(* Defective: an order at the clearing price itself is left out.           *)
MatchInsideClearing(bids, asks, price) ==
    GreedyFills({b \in bids : b.price > price}, {a \in asks : a.price <= price}, price)

match_orders(bids, asks, price) ==
    GreedyFills({b \in bids : b.price >= price /\ b.remaining > 0},
                {a \in asks : a.price <= price /\ a.remaining > 0}, price)

(* The outcome of one round: its clearing price and its fills, in the      *)
(* order they are made, or NoAuction when nothing crosses.                 *)
run(bids, asks) ==
    IF \/ bids = {} \/ asks = {}
       \/ \A b \in bids, a \in asks : b.price < a.price
    THEN NoAuction
    ELSE LET price == compute_clearing_price(bids, asks)
             matches == IF price > 0 THEN match_orders(bids, asks, price) ELSE <<>>
         IN  IF matches = <<>> THEN NoAuction
             ELSE [price |-> price, matches |-> matches]

(* What the fills of a round take from order i.                            *)
Filled(matches, i) ==
    FoldLeft(LAMBDA sum, m : IF i \in {m.bid, m.ask} THEN sum + m.size ELSE sum, 0, matches)
=============================================================================
