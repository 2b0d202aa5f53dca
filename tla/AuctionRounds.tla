---------------------------- MODULE AuctionRounds ----------------------------
(***************************************************************************)
(* Auction rounds over the resting orders of one pair: orders arrive on    *)
(* either side, a round clears them with Auction!run, and what the fills   *)
(* leave is carried into the next round (overview.md 2.2).                 *)
(***************************************************************************)
EXTENDS Auction

CONSTANTS Addresses,    \* addresses that place orders
          Prices,       \* limit prices, in encoder units
          Sizes,        \* order sizes, in lots
          MaxOrders     \* bound: orders placed in one behaviour

ASSUME RoundsAssumption ==
    /\ Prices \subseteq Nat \ {0} /\ IsFiniteSet(Prices) /\ Prices # {}
    /\ Sizes \subseteq Nat \ {0}
    /\ MaxOrders \in Nat

VARIABLES bids,    \* resting buy orders
          asks,    \* resting sell orders
          seq,     \* last placement sequence number given out
          round    \* the round that has just run: its input and its result

rounds_vars == <<bids, asks, seq, round>>

NoRound == [bids |-> {}, asks |-> {}, result |-> NoAuction]

RoundsInit ==
    /\ bids = {} /\ asks = {}
    /\ seq = 0
    /\ round = NoRound

(* OrderBook::insert_order of an order that carries the sequence number    *)
(* its OrderPlaced event was given.                                        *)
insert_order(side, trader, price, size) ==
    LET order == [id |-> seq + 1, trader |-> trader, price |-> price,
                  seq |-> seq + 1, remaining |-> size]
    IN  /\ seq < MaxOrders
        /\ seq' = seq + 1
        /\ bids' = IF side = "Buy" THEN bids \cup {order} ELSE bids
        /\ asks' = IF side = "Sell" THEN asks \cup {order} ELSE asks
        /\ round' = NoRound

(* What the fills of a round leave of one side of the book: every fill is  *)
(* subtracted and an order with nothing left is removed.                   *)
apply_fills(orders, matches) ==
    {o \in {[o EXCEPT !.remaining = @ - Filled(matches, o.id)] : o \in orders} :
        o.remaining > 0}

RunRound ==
    LET result == run(bids, asks)
    IN  /\ round' = [bids |-> bids, asks |-> asks, result |-> result]
        /\ bids' = apply_fills(bids, result.matches)
        /\ asks' = apply_fills(asks, result.matches)
        /\ UNCHANGED seq

RoundsNext ==
    \/ \E side \in {"Buy", "Sell"}, t \in Addresses, p \in Prices, s \in Sizes :
            insert_order(side, t, p, s)
    \/ RunRound

RoundsSpec == RoundsInit /\ [][RoundsNext]_rounds_vars

-----------------------------------------------------------------------------
(* Reference definitions the properties compare the rounds with.           *)

PricesAround == 0..(Max(Prices) + 1)

(* No trader has orders on both sides of the round.                        *)
NoSelfCross(r) == \A b \in r.bids, a \in r.asks : b.trader # a.trader

Executed(r) == FoldLeft(LAMBDA sum, m : sum + m.size, 0, r.result.matches)

OrderOf(S, i) == CHOOSE o \in S : o.id = i

(* A fill larger than what is left of its order would leave a negative     *)
(* remaining size on the book (book.rs apply_fill refuses it), and a       *)
(* midpoint rounded past a limit would be a price its trader refused       *)
(* (compute_clearing_price: the rounded value stays in [lo, hi]).  No      *)
(* round takes more of an order than it has, however many fills it is      *)
(* split in, bids and asks are filled by the same volume, and every fill   *)
(* is acceptable to both of its traders and is no self-trade.              *)
FillsAcceptable ==
    LET matches == round.result.matches
        filled(S) == MapThenSumSet(LAMBDA o : Filled(matches, o.id), S)
    IN  /\ \A o \in round.bids \cup round.asks : Filled(matches, o.id) <= o.remaining
        /\ filled(round.bids) = filled(round.asks)
        /\ \A k \in 1..Len(matches) :
               LET b == OrderOf(round.bids, matches[k].bid)
                   a == OrderOf(round.asks, matches[k].ask)
               IN  /\ b.price >= matches[k].price /\ matches[k].price >= a.price
                   /\ b.trader # a.trader

(* The midpoint of the two extreme volume-maximising prices, rounded, is   *)
(* itself volume-maximising over every price and not only over the limit   *)
(* prices the code tries, and the greedy allocation executes all of it:    *)
(* when no trader is on both sides, a round executes the greatest volume   *)
(* any uniform price could.                                                *)
RoundMaximisesVolume ==
    NoSelfCross(round) =>
        Executed(round) = Max({VolumeAt(round.bids, round.asks, p) : p \in PricesAround})

(* Strict price-time priority (ADR 0005): an order gets a fill only when   *)
(* every better order of its side is filled to the end, except for what    *)
(* self-trade prevention kept the better order from taking.                *)
PriceTimePriority ==
    LET filled(o) == Filled(round.result.matches, o.id)
        Ahead(side, S, Other) ==
            \A o, worse \in S :
                /\ Better(side, o, worse) /\ filled(worse) > 0
                => \/ filled(o) = o.remaining
                   \/ \E c \in Other : c.trader = o.trader
    IN  /\ Ahead("Buy", round.bids, round.asks)
        /\ Ahead("Sell", round.asks, round.bids)

(* Two orders of different traders that both accept the clearing price are *)
(* never both left with something to trade by the round; when no trader    *)
(* was on both sides, what it leaves on the book does not cross at all     *)
(* ("All crossing orders execute at that single price", overview.md:60).   *)
NothingEligibleLeft ==
    LET left(o) == o.remaining - Filled(round.result.matches, o.id)
    IN  /\ round.result # NoAuction =>
                \A b \in round.bids, a \in round.asks :
                    /\ b.trader # a.trader
                    /\ b.price >= round.result.price /\ round.result.price >= a.price
                    => left(b) = 0 \/ left(a) = 0
        /\ round # NoRound /\ NoSelfCross(round) =>
                \A b \in bids, a \in asks : b.price < a.price
=============================================================================
