--------------------------- MODULE DarkPoolProofs ----------------------------
(***************************************************************************)
(* Proofs about the settlement contract, for any traders, tokens, scales,  *)
(* match lists and delay: the types, the escrow cooldown and the one       *)
(* settlement per auction round.                                           *)
(***************************************************************************)
EXTENDS DarkPool, SequenceTheorems, FiniteSetTheorems, WellFoundedInduction, TLAPS

(* What the replay guards know of the settlements that happened, and of    *)
(* the one in progress.                                                    *)
GuardsCount ==
    /\ \A a \in AuctionIds : rounds[a] = IF a \in settledAuction THEN 1 ELSE 0
    /\ \A s \in SessionIds : sessionRounds[s] = IF s \in sessionSettled THEN 1 ELSE 0
    /\ tx # NoTx => tx.auction \notin settledAuction
    /\ tx # NoTx /\ tx.arm = "session" => tx.id \notin sessionSettled

(* The inductive invariant: no subtraction is covered without the escrow   *)
(* being seasoned, so the types and the escrow go together.                *)
IndInv == TypeOK /\ EscrowSeasoned /\ GuardsCount

-----------------------------------------------------------------------------
(* Amounts.                                                                *)

(* A quotient of natural numbers is a natural number.                      *)
LEMMA QuotientNat ==
    ASSUME NEW a \in Nat, NEW b \in Nat \ {0}
    PROVE  a \div b \in Nat
  OBVIOUS

(* A product of natural numbers is a natural number.                       *)
LEMMA ProductNat ==
    ASSUME NEW a \in Nat, NEW b \in Nat
    PROVE  a * b \in Nat
  OBVIOUS

(* A share of at most the whole, rounded down, is at most the whole.       *)
LEMMA ShareAtMostWhole ==
    ASSUME NEW x \in Nat, NEW d \in Nat \ {0}, NEW b \in 0..d
    PROVE  (x * b) \div d <= x
  <1>1. x * b <= x * d
    OBVIOUS
  <1>2. x * d = d * x
    OBVIOUS
  <1> DEFINE q == (x * b) \div d
  <1>3. q \in Int /\ d * q <= x * b
    BY SMT
  <1>4. d * q <= d * x
    BY <1>1, <1>2, <1>3
  <1> QED
    BY <1>3, <1>4

(* The legs of a match are amounts, and the fee is part of the notional.   *)
LEMMA MatchAmounts ==
    ASSUME NEW m \in Matches
    PROVE  /\ baseAmount(m) \in Nat
           /\ notional(m) \in Nat
           /\ fee(m) \in Nat
           /\ fee(m) <= notional(m)
  <1>1. /\ m.price \in Nat /\ m.size \in Nat
        /\ Scale[m.baseToken] \in Nat /\ Scale[m.quoteToken] \in Nat
        /\ ONE \in Nat \ {0} /\ BPS_DENOMINATOR \in Nat \ {0}
        /\ PROTOCOL_FEE_BPS \in 0..BPS_DENOMINATOR
    BY DarkPoolAssumption DEF Matches
  <1>2. baseAmount(m) \in Nat
    BY <1>1, ProductNat, QuotientNat DEF baseAmount
  <1>3. notional(m) \in Nat
    <2>1. (m.price * m.size) \div ONE \in Nat
      BY <1>1, ProductNat, QuotientNat
    <2> QED
      BY <1>1, <2>1, ProductNat, QuotientNat DEF notional
  <1>4. fee(m) \in Nat
    BY <1>1, <1>3, ProductNat, QuotientNat DEF fee
  <1>5. fee(m) <= notional(m)
    BY <1>1, <1>3, ShareAtMostWhole DEF fee
  <1> QED
    BY <1>2, <1>3, <1>4, <1>5

-----------------------------------------------------------------------------
(* The ledger.                                                             *)

(* A credit to a free balance keeps the ledger well formed and seasoned.   *)
LEMMA CreditKeeps ==
    ASSUME NEW l \in Ledgers, Seasoned(l),
           NEW s \in Slots, NEW amount \in Nat
    PROVE  /\ Credit(l, s, amount) \in Ledgers
           /\ Seasoned(Credit(l, s, amount))
           /\ Credit(l, s, amount).reserved = l.reserved
  <1> DEFINE c == Credit(l, s, amount)
             nb == [l.balances EXCEPT ![s] = @ + amount]
  <1>1. c = [l EXCEPT !.balances = nb]
    BY DEF Credit, Ledgers
  <1>2. nb \in [Slots -> Nat]
    BY DEF Ledgers
  <1> HIDE DEF c, nb
  <1>3. /\ c \in Ledgers /\ c.reserved = l.reserved /\ c.low = l.low
        /\ c.pendingUnreserve = l.pendingUnreserve /\ c.requestedAt = l.requestedAt
        /\ c.unreserveReadyAt = l.unreserveReadyAt
    BY <1>1, <1>2 DEF Ledgers
  <1> QED
    BY <1>3 DEF Seasoned, c

(* _consumeReserved takes what is covered from the escrow, and what stays  *)
(* pending stays covered by escrow that was there since the request.       *)
LEMMA ConsumeKeeps ==
    ASSUME NEW l \in Ledgers, Seasoned(l),
           NEW s \in Slots, NEW amount \in Nat,
           amount <= l.reserved[s]
    PROVE  /\ consumeReserved(l, s, amount) \in Ledgers
           /\ Seasoned(consumeReserved(l, s, amount))
  <1> DEFINE c  == consumeReserved(l, s, amount)
             r  == l.reserved[s]
             p  == l.pendingUnreserve[s]
             free == IF r > p THEN r - p ELSE 0
             reached == p # 0 /\ amount > free
             np == IF reached THEN p - (amount - free) ELSE p
             nt == IF reached /\ np = 0 THEN 0 ELSE l.unreserveReadyAt[s]
             nl == Least(l.low[s], r - amount)
  <1>2. /\ r \in Nat /\ p \in Nat /\ l.low[s] \in Nat
        /\ l.unreserveReadyAt[s] \in Nat /\ l.requestedAt[s] \in Nat
        /\ p <= l.low[s] /\ l.low[s] <= r /\ amount <= r
        /\ l.unreserveReadyAt[s] = IF p = 0 THEN 0 ELSE l.requestedAt[s] + UNRESERVE_DELAY
    BY DEF Ledgers, Seasoned
  <1>3. /\ np \in Nat /\ nt \in Nat /\ nl \in Nat /\ r - amount \in Nat
        /\ np <= nl /\ nl <= r - amount
        /\ nt = IF np = 0 THEN 0 ELSE l.requestedAt[s] + UNRESERVE_DELAY
    BY <1>2 DEF Least
  <1>4. c = [l EXCEPT !.reserved[s] = r - amount, !.pendingUnreserve[s] = np,
                      !.unreserveReadyAt[s] = nt, !.low[s] = nl]
    BY DEF consumeReserved
  <1> HIDE DEF c, np, nt, nl, r, p
  <1>5. /\ c \in Ledgers
        /\ c.reserved = [l.reserved EXCEPT ![s] = r - amount]
        /\ c.pendingUnreserve = [l.pendingUnreserve EXCEPT ![s] = np]
        /\ c.unreserveReadyAt = [l.unreserveReadyAt EXCEPT ![s] = nt]
        /\ c.low = [l.low EXCEPT ![s] = nl]
        /\ c.requestedAt = l.requestedAt
    BY <1>3, <1>4 DEF Ledgers
  <1>6. Seasoned(c)
    BY <1>3, <1>5 DEF Ledgers, Seasoned
  <1> QED
    BY <1>5, <1>6 DEF c

(* _settleMatch, when neither of its checked subtractions underflows.      *)
LEMMA SettleMatchKeeps ==
    ASSUME NEW l \in Ledgers, Seasoned(l), NEW m \in Matches,
           admin.feeRecipient \in Accounts, Settleable(l, m)
    PROVE  /\ settleMatch(l, m) \in Ledgers
           /\ Seasoned(settleMatch(l, m))
  <1> DEFINE paidBid == consumeReserved(l, bidSlot(m), notional(m))
             bid == AfterBid(l, m)
             paidAsk == consumeReserved(bid, askSlot(m), baseAmount(m))
             ask == Credit(paidAsk, <<m.askTrader, m.quoteToken>>, notional(m) - fee(m))
  <1>1. /\ bidSlot(m) \in Slots /\ askSlot(m) \in Slots
        /\ <<m.bidTrader, m.baseToken>> \in Slots
        /\ <<m.askTrader, m.quoteToken>> \in Slots
        /\ <<admin.feeRecipient, m.quoteToken>> \in Slots
    BY DEF Matches, Accounts, Slots, bidSlot, askSlot
  <1>2. /\ notional(m) \in Nat /\ baseAmount(m) \in Nat /\ fee(m) \in Nat
        /\ notional(m) - fee(m) \in Nat
    BY MatchAmounts
  <1>3. paidBid \in Ledgers /\ Seasoned(paidBid)
    BY <1>1, <1>2, ConsumeKeeps DEF Settleable
  <1>4. bid \in Ledgers /\ Seasoned(bid)
    <2>1. bid = Credit(paidBid, <<m.bidTrader, m.baseToken>>, baseAmount(m))
      BY DEF AfterBid
    <2> HIDE DEF paidBid, bid
    <2> QED
      BY <1>1, <1>2, <1>3, <2>1, CreditKeeps
  <1>5. paidAsk \in Ledgers /\ Seasoned(paidAsk)
    <2>1. baseAmount(m) <= bid.reserved[askSlot(m)]
      BY DEF Settleable
    <2> HIDE DEF bid
    <2> QED
      BY <1>1, <1>2, <1>4, <2>1, ConsumeKeeps
  <1>6. ask \in Ledgers /\ Seasoned(ask)
    <2> HIDE DEF paidAsk
    <2> QED
      BY <1>1, <1>2, <1>5, CreditKeeps
  <1>7. settleMatch(l, m) = Credit(ask, <<admin.feeRecipient, m.quoteToken>>, fee(m))
    BY DEF settleMatch
  <1> HIDE DEF ask
  <1> QED
    BY <1>1, <1>2, <1>6, <1>7, CreditKeeps

-----------------------------------------------------------------------------
(* The calls of traders.                                                   *)

(* Each call a trader makes keeps the ledger well formed and seasoned.     *)
LEMMA TradeKeeps ==
    ASSUME IndInv, Trade
    PROVE  /\ ledger' \in Ledgers
           /\ Seasoned(ledger')
           /\ held' \in [Tokens -> Int]
  <1> PICK s \in Traders \X Tokens :
        \/ \E amount \in Amounts :
            \/ \E received \in 1..amount : deposit(s, amount, received)
            \/ withdraw(s, amount)
            \/ reserve(s, amount)
            \/ requestUnreserve(s, amount)
        \/ releaseUnreserve(s)
    BY DEF Trade
  <1>1. s \in Slots /\ s[2] \in Tokens
    BY DEF Slots, Accounts
  <1>2. ledger \in Ledgers /\ Seasoned(ledger) /\ held \in [Tokens -> Int] /\ now \in Nat
    BY DEF IndInv, TypeOK, EscrowSeasoned
  <1>3. ASSUME NEW amount \in Amounts, NEW received \in 1..amount, deposit(s, amount, received)
        PROVE  ledger' \in Ledgers /\ Seasoned(ledger') /\ held' \in [Tokens -> Int]
    <2>1. amount \in Nat /\ received \in Nat
      BY DarkPoolAssumption
    <2>2. ledger' = Credit(ledger, s, received)
      BY <1>3 DEF deposit, Credit
    <2>3. held' \in [Tokens -> Int]
      BY <1>1, <1>2, <1>3, <2>1 DEF deposit
    <2> QED
      BY <1>1, <1>2, <2>1, <2>2, <2>3, CreditKeeps
  <1>4. ASSUME NEW amount \in Amounts, withdraw(s, amount)
        PROVE  ledger' \in Ledgers /\ Seasoned(ledger') /\ held' \in [Tokens -> Int]
    <2>1. amount \in Nat
      BY DarkPoolAssumption
    <2>2. held' \in [Tokens -> Int]
      BY <1>1, <1>2, <1>4, <2>1 DEF withdraw
    <2>3. /\ ledger' = [ledger EXCEPT !.balances[s] = @ - amount]
          /\ ledger.balances[s] >= amount
      BY <1>4 DEF withdraw
    <2>4. ledger' \in Ledgers
      BY <1>1, <1>2, <2>1, <2>3 DEF Ledgers
    <2>5. Seasoned(ledger')
      BY <1>2, <2>3 DEF Ledgers, Seasoned
    <2> QED
      BY <2>2, <2>4, <2>5
  <1>5. ASSUME NEW amount \in Amounts, reserve(s, amount)
        PROVE  ledger' \in Ledgers /\ Seasoned(ledger') /\ held' \in [Tokens -> Int]
    <2>1. amount \in Nat
      BY DarkPoolAssumption
    <2> DEFINE nb == ledger.balances[s] - amount
               nr == ledger.reserved[s] + amount
    <2>2. /\ ledger' = [ledger EXCEPT !.balances[s] = nb, !.reserved[s] = nr]
          /\ held' = held
      BY <1>5 DEF reserve
    <2>6. ledger.balances[s] >= amount
      BY <1>5 DEF reserve
    <2>5. nb \in Nat /\ nr \in Nat /\ nr >= ledger.reserved[s]
      BY <1>1, <1>2, <2>1, <2>6 DEF Ledgers
    <2> HIDE DEF nb, nr
    <2>3. ledger' \in Ledgers
      BY <1>1, <1>2, <2>2, <2>5 DEF Ledgers
    <2>4. Seasoned(ledger')
      BY <1>1, <1>2, <2>2, <2>5 DEF Ledgers, Seasoned
    <2> QED
      BY <1>2, <2>2, <2>3, <2>4
  <1>6. ASSUME NEW amount \in Amounts, requestUnreserve(s, amount)
        PROVE  ledger' \in Ledgers /\ Seasoned(ledger') /\ held' \in [Tokens -> Int]
    <2>1. amount \in Nat /\ amount # 0 /\ UNRESERVE_DELAY \in Nat
      BY DarkPoolAssumption
    <2> DEFINE np == ledger.pendingUnreserve[s] + amount
               ready == now + UNRESERVE_DELAY
               nl == ledger.reserved[s]
    <2>2. /\ ledger' = [ledger EXCEPT !.pendingUnreserve[s] = np, !.unreserveReadyAt[s] = ready,
                                      !.requestedAt[s] = now, !.low[s] = nl]
          /\ held' = held
      BY <1>6 DEF requestUnreserve
    <2>5. np \in Nat /\ np # 0 /\ ready \in Nat /\ nl \in Nat /\ np <= nl
      <3>1. amount <= ledger.reserved[s] - ledger.pendingUnreserve[s]
        BY <1>6 DEF requestUnreserve
      <3> QED
        BY <1>1, <1>2, <2>1, <3>1 DEF Ledgers
    <2>6. nl = ledger.reserved[s] /\ ready = now + UNRESERVE_DELAY
      OBVIOUS
    <2> HIDE DEF np, ready, nl
    <2>3. ledger' \in Ledgers
      BY <1>1, <1>2, <2>2, <2>5 DEF Ledgers
    <2>4. Seasoned(ledger')
      BY <1>1, <1>2, <2>2, <2>5, <2>6 DEF Ledgers, Seasoned
    <2> QED
      BY <1>2, <2>2, <2>3, <2>4
  <1>7. ASSUME releaseUnreserve(s)
        PROVE  ledger' \in Ledgers /\ Seasoned(ledger') /\ held' \in [Tokens -> Int]
    <2> DEFINE amount == Least(ledger.pendingUnreserve[s], ledger.reserved[s])
               nr == ledger.reserved[s] - amount
               nb == ledger.balances[s] + amount
               nl == Least(ledger.low[s], nr)
    <2>1. nr \in Nat /\ nb \in Nat /\ nl \in Nat /\ nl <= nr
      BY <1>1, <1>2 DEF Ledgers, Seasoned, Least
    <2>2. /\ ledger' = [ledger EXCEPT !.reserved[s] = nr, !.balances[s] = nb,
                                      !.pendingUnreserve[s] = 0, !.unreserveReadyAt[s] = 0,
                                      !.low[s] = nl]
          /\ held' = held
      BY <1>7 DEF releaseUnreserve
    <2> HIDE DEF nr, nb, nl
    <2>3. ledger' \in Ledgers
      BY <1>1, <1>2, <2>1, <2>2 DEF Ledgers
    <2>4. Seasoned(ledger')
      BY <1>1, <1>2, <2>1, <2>2 DEF Ledgers, Seasoned
    <2> QED
      BY <1>2, <2>2, <2>3, <2>4
  <1> QED
    BY <1>3, <1>4, <1>5, <1>6, <1>7

(* A trader's call touches neither the replay guards nor a transaction.    *)
LEMMA TradeFrame ==
    ASSUME Trade
    PROVE  /\ tx = NoTx
           /\ UNCHANGED <<guards, tx, admin, history, ownerCalls, now>>
  BY ZenonT(60) DEF Trade, deposit, withdraw, reserve, requestUnreserve, releaseUnreserve, Callable

-----------------------------------------------------------------------------
(* The invariant.                                                          *)

(* What Deploy.s.sol leaves satisfies the invariant.                       *)
LEMMA InitInv == Init => IndInv
  <1> SUFFICES ASSUME Init PROVE IndInv
    OBVIOUS
  <1>1. ledger \in Ledgers /\ Seasoned(ledger)
    BY DEF Init, EmptyLedger, Zero, Ledgers, Seasoned
  <1>2. admin \in Admins
    BY DEF Init, Admins
  <1>3. TypeOK
    BY <1>1, <1>2 DEF Init, TypeOK, Txs
  <1>4. EscrowSeasoned /\ GuardsCount
    BY <1>1 DEF Init, EscrowSeasoned, GuardsCount
  <1> QED
    BY <1>3, <1>4 DEF IndInv

(* A settlement in progress, taken apart.                                  *)
LEMMA TxShape ==
    ASSUME IndInv, tx # NoTx
    PROVE  /\ tx.auction \in AuctionIds /\ tx.left \in Seq(Matches)
           /\ tx.ledger \in Ledgers /\ Seasoned(tx.ledger)
           /\ tx.auction \notin settledAuction
           /\ \/ tx.arm = "batch" /\ tx.id \in BatchIds
              \/ tx.arm = "session" /\ tx.id \in SessionIds /\ tx.id \notin sessionSettled
  BY DEF IndInv, TypeOK, Txs, EscrowSeasoned, GuardsCount

(* Opening a settlement on the ledger as it is.                            *)
LEMMA OperateKeeps ==
    ASSUME IndInv, Operate
    PROVE  IndInv'
  <1> PICK op \in Operators, matches \in MatchLists :
        \/ \E b \in BatchIds, a \in AuctionIds, policy \in Policies :
                submitBatch(op, b, a, matches, policy)
        \/ \E s \in SessionIds : submitSession(op, s, matches)
        \/ \E s \in SessionIds, a \in AuctionIds : settleAuction(op, s, a, matches)
    BY DEF Operate
  <1>1. matches \in Seq(Matches)
    BY DarkPoolAssumption
  <1>2. ledger \in Ledgers /\ Seasoned(ledger)
    BY DEF IndInv, TypeOK, EscrowSeasoned
  <1>3. ASSUME NEW b \in BatchIds, NEW a \in AuctionIds, NEW policy \in Policies,
               submitBatch(op, b, a, matches, policy)
        PROVE  IndInv'
    <2>1. /\ tx' = [arm |-> "batch", id |-> b, auction |-> a, left |-> matches, ledger |-> ledger]
          /\ a \notin settledAuction
          /\ UNCHANGED <<funds, guards, admin, history, ownerCalls, now>>
      BY <1>3 DEF submitBatch
    <2>2. tx' \in Txs /\ tx'.ledger = ledger /\ tx'.arm = "batch" /\ tx'.auction = a
      BY <1>1, <1>2, <2>1 DEF Txs
    <2>3. TypeOK'
      BY <2>1, <2>2 DEF IndInv, TypeOK, funds, guards, history
    <2>4. EscrowSeasoned'
      BY <1>2, <2>1, <2>2 DEF EscrowSeasoned, Seasoned, funds
    <2>5. GuardsCount'
      BY <2>1, <2>2 DEF IndInv, GuardsCount, guards, history
    <2> QED
      BY <2>3, <2>4, <2>5 DEF IndInv
  <1>4. ASSUME NEW s \in SessionIds, submitSession(op, s, matches)
        PROVE  IndInv'
    <2>1. /\ tx = NoTx
          /\ DOMAIN sessionAcc' = DOMAIN sessionAcc \cup {s}
          /\ UNCHANGED <<funds, settledBatch, settledAuction, sessionSettled, auctionToSession,
                         tx, admin, history, ownerCalls, now>>
      BY <1>4 DEF submitSession, IvcCallable, Callable
    <2>2. TypeOK'
      BY <2>1 DEF IndInv, TypeOK, funds, history
    <2>3. EscrowSeasoned'
      BY <1>2, <2>1 DEF EscrowSeasoned, Seasoned, funds
    <2>4. GuardsCount'
      BY <2>1 DEF IndInv, GuardsCount, history
    <2> QED
      BY <2>2, <2>3, <2>4 DEF IndInv
  <1>5. ASSUME NEW s \in SessionIds, NEW a \in AuctionIds, settleAuction(op, s, a, matches)
        PROVE  IndInv'
    <2>1. /\ tx' = [arm |-> "session", id |-> s, auction |-> a, left |-> matches, ledger |-> ledger]
          /\ a \notin settledAuction /\ s \notin sessionSettled
          /\ UNCHANGED <<funds, guards, admin, history, ownerCalls, now>>
      BY <1>5 DEF settleAuction
    <2>2. /\ tx' \in Txs /\ tx'.ledger = ledger
          /\ tx'.arm = "session" /\ tx'.auction = a /\ tx'.id = s
      BY <1>1, <1>2, <2>1 DEF Txs
    <2>3. TypeOK'
      BY <2>1, <2>2 DEF IndInv, TypeOK, funds, guards, history
    <2>4. EscrowSeasoned'
      BY <1>2, <2>1, <2>2 DEF EscrowSeasoned, Seasoned, funds
    <2>5. GuardsCount'
      BY <2>1, <2>2 DEF IndInv, GuardsCount, guards, history
    <2> QED
      BY <2>3, <2>4, <2>5 DEF IndInv
  <1> QED
    BY <1>3, <1>4, <1>5

(* One match of the loop.                                                  *)
LEMMA SettleNextKeeps ==
    ASSUME IndInv, SettleNext
    PROVE  IndInv'
  <1> DEFINE m == Head(tx.left)
             nl == settleMatch(tx.ledger, m)
  <1>1. /\ tx # NoTx /\ tx.left # <<>> /\ Settleable(tx.ledger, m)
        /\ tx' = [tx EXCEPT !.ledger = nl, !.left = Tail(tx.left)]
        /\ UNCHANGED <<funds, guards, admin, history, ownerCalls, now>>
    BY DEF SettleNext
  <1>2. m \in Matches /\ Tail(tx.left) \in Seq(Matches)
    BY <1>1, TxShape, HeadTailProperties
  <1>3. admin.feeRecipient \in Accounts
    BY DEF IndInv, TypeOK, Admins, Accounts
  <1>4. nl \in Ledgers /\ Seasoned(nl)
    BY <1>1, <1>2, <1>3, TxShape, SettleMatchKeeps
  <1> HIDE DEF m, nl
  <1>5. /\ tx' \in Txs /\ tx'.ledger = nl
        /\ tx'.arm = tx.arm /\ tx'.auction = tx.auction /\ tx'.id = tx.id
    BY <1>1, <1>2, <1>4 DEF IndInv, TypeOK, Txs
  <1>6. TypeOK'
    BY <1>1, <1>5 DEF IndInv, TypeOK, funds, guards, history
  <1>7. EscrowSeasoned'
    BY <1>1, <1>4, <1>5 DEF IndInv, EscrowSeasoned, Seasoned, funds
  <1>8. GuardsCount'
    BY <1>1, <1>5 DEF IndInv, GuardsCount, guards, history
  <1> QED
    BY <1>6, <1>7, <1>8 DEF IndInv

(* The end of a settlement: the ledger and the guards are written.         *)
LEMMA CommitKeeps ==
    ASSUME IndInv, Commit
    PROVE  IndInv'
  <1>1. /\ tx # NoTx /\ ledger' = tx.ledger /\ tx' = NoTx
        /\ settledAuction' = settledAuction \cup {tx.auction}
        /\ rounds' = [rounds EXCEPT ![tx.auction] = @ + 1]
        /\ UNCHANGED <<held, sessionAcc, admin, ownerCalls, now>>
    BY DEF Commit
  <1>2. /\ rounds \in [AuctionIds -> Nat] /\ sessionRounds \in [SessionIds -> Nat]
        /\ \A a \in AuctionIds : rounds[a] = IF a \in settledAuction THEN 1 ELSE 0
        /\ \A s \in SessionIds : sessionRounds[s] = IF s \in sessionSettled THEN 1 ELSE 0
    BY DEF IndInv, TypeOK, GuardsCount
  <1>3. /\ rounds' \in [AuctionIds -> Nat]
        /\ \A a \in AuctionIds : rounds'[a] = IF a \in settledAuction' THEN 1 ELSE 0
    BY <1>1, <1>2, TxShape
  <1>4. ledger' \in Ledgers /\ Seasoned(ledger')
    BY <1>1, TxShape
  <1>5. /\ sessionRounds' \in [SessionIds -> Nat]
        /\ \A s \in SessionIds : sessionRounds'[s] = IF s \in sessionSettled' THEN 1 ELSE 0
        /\ settledBatch' \subseteq BatchIds /\ sessionSettled' \subseteq SessionIds
        /\ DOMAIN auctionToSession' \subseteq AuctionIds
    <2>1. CASE tx.arm = "batch"
      BY <1>1, <1>2, <2>1, TxShape DEF Commit, IndInv, TypeOK
    <2>2. CASE tx.arm = "session"
      BY <1>1, <1>2, <2>2, TxShape DEF Commit, IndInv, TypeOK
    <2> QED
      BY <1>1, <2>1, <2>2, TxShape
  <1>6. TypeOK'
    BY <1>1, <1>3, <1>4, <1>5, TxShape DEF IndInv, TypeOK, Txs
  <1>7. EscrowSeasoned' /\ GuardsCount'
    BY <1>1, <1>3, <1>4, <1>5 DEF EscrowSeasoned, GuardsCount
  <1> QED
    BY <1>6, <1>7 DEF IndInv

(* An owner's call changes the switches only.                              *)
LEMMA OwnKeeps ==
    ASSUME IndInv, Own
    PROVE  IndInv'
  <1>1. /\ admin' \in Admins
        /\ ownerCalls' \in Nat
        /\ UNCHANGED <<funds, guards, tx, history, now>>
    <2>1. admin \in Admins /\ ownerCalls \in Nat
      BY DEF IndInv, TypeOK
    <2>2. \A new : OwnerSets(new) => /\ admin' = new /\ ownerCalls' \in Nat
                                     /\ UNCHANGED <<funds, guards, tx, history, now>>
      BY <2>1 DEF OwnerSets
    <2>3. ASSUME NEW k \in Tokens, NEW allowed \in BOOLEAN
          PROVE  [admin EXCEPT !.allowedTokens = IF allowed THEN @ \cup {k} ELSE @ \ {k}] \in Admins
      BY <2>1 DEF Admins
    <2>4. ASSUME NEW op \in Operators
          PROVE  /\ [admin EXCEPT !.operators = @ \cup {op}] \in Admins
                 /\ [admin EXCEPT !.operators = @ \ {op}] \in Admins
      BY <2>1 DEF Admins
    <2>5. /\ \A policy \in Policies : [admin EXCEPT !.policy = policy] \in Admins
          /\ \A u \in Treasuries : [admin EXCEPT !.feeRecipient = u] \in Admins
          /\ [admin EXCEPT !.ivcVerifier = "set"] \in Admins
      BY <2>1 DEF Admins
    <2>6. /\ \A enabled \in BOOLEAN : [admin EXCEPT !.ivcEnabled = enabled] \in Admins
          /\ [admin EXCEPT !.paused = TRUE] \in Admins
          /\ [admin EXCEPT !.paused = FALSE] \in Admins
      BY <2>1 DEF Admins
    <2>7. CASE \E k \in Tokens, allowed \in BOOLEAN : setTokenAllowed(k, allowed)
      BY <2>2, <2>3, <2>7, Zenon DEF setTokenAllowed
    <2>8. CASE \E op \in Operators : addOperator(op) \/ removeOperator(op)
      BY <2>2, <2>4, <2>8, Zenon DEF addOperator, removeOperator
    <2>9. CASE \/ \E policy \in Policies : setPolicy(policy)
               \/ \E u \in Treasuries : setFeeRecipient(u)
               \/ setIvcVerifier
      BY <2>2, <2>5, <2>9, Zenon DEF setPolicy, setFeeRecipient, setIvcVerifier
    <2>10. CASE \/ \E enabled \in BOOLEAN : setIvcEnabled(enabled)
                \/ pause
                \/ unpause
      BY <2>2, <2>6, <2>10, Zenon DEF setIvcEnabled, pause, unpause
    <2> QED
      BY <2>7, <2>8, <2>9, <2>10 DEF Own
  <1>2. TypeOK'
    BY <1>1 DEF IndInv, TypeOK, funds, guards, history
  <1>3. EscrowSeasoned' /\ GuardsCount'
    BY <1>1 DEF IndInv, EscrowSeasoned, Seasoned, GuardsCount, funds, guards, history
  <1> QED
    BY <1>2, <1>3 DEF IndInv

(* The invariant is inductive.                                             *)
LEMMA StepInv == IndInv /\ [Next]_vars => IndInv'
  <1> SUFFICES ASSUME IndInv, [Next]_vars PROVE IndInv'
    OBVIOUS
  <1>1. CASE Trade
    <2>1. TypeOK'
      BY <1>1, TradeKeeps, TradeFrame DEF IndInv, TypeOK, guards, history
    <2>2. EscrowSeasoned' /\ GuardsCount'
      BY <1>1, TradeKeeps, TradeFrame DEF IndInv, EscrowSeasoned, GuardsCount, guards, history
    <2> QED
      BY <2>1, <2>2 DEF IndInv
  <1>2. CASE Operate
    BY <1>2, OperateKeeps
  <1>3. CASE SettleNext
    BY <1>3, SettleNextKeeps
  <1>4. CASE Revert
    BY <1>4 DEF Revert, IndInv, TypeOK, Txs, EscrowSeasoned, Seasoned, GuardsCount,
                funds, guards, history
  <1>5. CASE Commit
    BY <1>5, CommitKeeps
  <1>6. CASE Own
    BY <1>6, OwnKeeps
  <1>7. CASE Tick
    BY <1>7 DEF Tick, IndInv, TypeOK, EscrowSeasoned, Seasoned, GuardsCount,
                funds, guards, history
  <1>8. CASE UNCHANGED vars
    BY <1>8 DEF vars, IndInv, TypeOK, EscrowSeasoned, Seasoned, GuardsCount
  <1> QED
    BY <1>1, <1>2, <1>3, <1>4, <1>5, <1>6, <1>7, <1>8 DEF Next

(* The invariant holds in every reachable state.                           *)
LEMMA Invariance == Spec => []IndInv
  <1>1. Init => IndInv
    BY InitInv
  <1>2. IndInv /\ [Next]_vars => IndInv'
    BY StepInv
  <1> QED
    BY <1>1, <1>2, PTL DEF Spec

-----------------------------------------------------------------------------
(* Every subtraction of the contract is covered: no balance, escrow or     *)
(* pending request is ever less than zero, in a transaction either.        *)
THEOREM TypeCorrect == Spec => []TypeOK
  <1>1. IndInv => TypeOK
    BY DEF IndInv
  <1> QED
    BY <1>1, Invariance, PTL

(* The cooldown cannot be reused: whatever settlements and further         *)
(* requests happen, what is pending has been in escrow ever since the      *)
(* latest request.                                                         *)
THEOREM EscrowIsSeasoned == Spec => []EscrowSeasoned
  <1>1. IndInv => EscrowSeasoned
    BY DEF IndInv
  <1> QED
    BY <1>1, Invariance, PTL

(* An auction round settles at most once through the two arms together,    *)
(* and a session settles at most one auction.                              *)
THEOREM RoundsSettleOnce == Spec => []SettledOnce
  <1>1. IndInv => SettledOnce
    BY DEF IndInv, GuardsCount, SettledOnce
  <1> QED
    BY <1>1, Invariance, PTL

(* Escrow is there for the cooldown: a step that takes escrow from a       *)
(* trader is the commit of a settlement, or follows a full cooldown after  *)
(* the trader's latest request and takes no more than was in escrow during *)
(* all of it.                                                              *)
THEOREM EscrowIsHeld == Spec => EscrowHeld
  <1> DEFINE Kept == \A s \in Slots :
                ledger'.reserved[s] < ledger.reserved[s] =>
                    \/ tx # NoTx /\ tx.left = <<>> /\ tx' = NoTx
                    \/ /\ now >= ledger.requestedAt[s] + UNRESERVE_DELAY
                       /\ ledger.reserved[s] - ledger'.reserved[s] <= ledger.low[s]
  <1>1. IndInv /\ [Next]_vars => [Kept]_vars
    <2> SUFFICES ASSUME IndInv, Next, NEW s \in Slots,
                        ledger'.reserved[s] < ledger.reserved[s]
                 PROVE  \/ tx # NoTx /\ tx.left = <<>> /\ tx' = NoTx
                        \/ /\ now >= ledger.requestedAt[s] + UNRESERVE_DELAY
                           /\ ledger.reserved[s] - ledger'.reserved[s] <= ledger.low[s]
      OBVIOUS
    <2>1. ledger \in Ledgers /\ Seasoned(ledger) /\ now \in Nat
      BY DEF IndInv, TypeOK, EscrowSeasoned
    <2>2. CASE Commit
      BY <2>2 DEF Commit
    <2>3. CASE Trade
      <3> PICK t \in Traders \X Tokens :
            \/ \E amount \in Amounts :
                \/ \E received \in 1..amount : deposit(t, amount, received)
                \/ withdraw(t, amount)
                \/ reserve(t, amount)
                \/ requestUnreserve(t, amount)
            \/ releaseUnreserve(t)
        BY <2>3 DEF Trade
      <3>1. t \in Slots
        BY DEF Slots, Accounts
      <3>2. ASSUME NEW amount \in Amounts,
                   \/ \E received \in 1..amount : deposit(t, amount, received)
                   \/ withdraw(t, amount)
                   \/ requestUnreserve(t, amount)
            PROVE  FALSE
        <4>1. ledger'.reserved = ledger.reserved
          BY <2>1, <3>2 DEF deposit, withdraw, requestUnreserve, Ledgers
        <4> QED
          BY <2>1, <4>1 DEF Ledgers
      <3>3. ASSUME NEW amount \in Amounts, reserve(t, amount)
            PROVE  FALSE
        <4>1. ledger'.reserved = [ledger.reserved EXCEPT ![t] = ledger.reserved[t] + amount]
          BY <2>1, <3>3 DEF reserve, Ledgers
        <4>2. amount \in Nat
          BY DarkPoolAssumption
        <4> QED
          BY <2>1, <3>1, <4>1, <4>2 DEF Ledgers
      <3>4. ASSUME releaseUnreserve(t)
            PROVE  /\ now >= ledger.requestedAt[s] + UNRESERVE_DELAY
                   /\ ledger.reserved[s] - ledger'.reserved[s] <= ledger.low[s]
        <4> DEFINE amount == Least(ledger.pendingUnreserve[t], ledger.reserved[t])
        <4>1. /\ ledger'.reserved = [ledger.reserved EXCEPT ![t] = ledger.reserved[t] - amount]
              /\ ledger.pendingUnreserve[t] > 0
              /\ now >= ledger.unreserveReadyAt[t]
          BY <2>1, <3>4 DEF releaseUnreserve, Ledgers
        <4>2. /\ amount \in Nat /\ amount <= ledger.low[t]
              /\ ledger.reserved[t] \in Nat
              /\ ledger.unreserveReadyAt[t] = ledger.requestedAt[t] + UNRESERVE_DELAY
          BY <2>1, <3>1, <4>1 DEF Ledgers, Seasoned, Least
        <4> HIDE DEF amount
        <4>3. s = t
          BY <2>1, <3>1, <4>1 DEF Ledgers
        <4>4. ledger.reserved[s] - ledger'.reserved[s] = amount
          BY <2>1, <3>1, <4>1, <4>2, <4>3 DEF Ledgers
        <4> QED
          BY <4>1, <4>2, <4>3, <4>4
      <3> QED
        BY <3>2, <3>3, <3>4
    <2>4. CASE Operate \/ SettleNext \/ Revert \/ Own \/ Tick
      <3>1. ledger' = ledger
        BY ZenonT(60), <2>4 DEF Operate, submitBatch, submitSession, settleAuction, SettleNext, Revert, Own,
                    OwnerSets, setTokenAllowed, addOperator, removeOperator, setPolicy,
                    setFeeRecipient, setIvcVerifier, setIvcEnabled, pause, unpause, Tick, funds
      <3> QED
        BY <2>1, <3>1 DEF Ledgers
    <2> QED
      BY <2>2, <2>3, <2>4 DEF Next
  <1>2. Spec => [][Kept]_vars
    BY <1>1, Invariance, PTL DEF Spec
  <1> QED
    BY <1>2 DEF EscrowHeld

-----------------------------------------------------------------------------
(* Totals over all accounts: what MapThenSumSet computes, by induction on  *)
(* the number of accounts it still has to add.                             *)

(* A set of natural numbers has a least one.                               *)
LEMMA LeastNatural ==
    ASSUME NEW T \in SUBSET Nat, T # {}
    PROVE  \E x \in T : \A y \in T : x <= y
  <1> DEFINE R == OpToRel(<, Nat)
  <1>1. IsWellFoundedOn(R, Nat)
    BY NatLessThanWellFounded
  <1>2. \A y, x \in Nat : <<y, x>> \in R <=> y < x
    BY DEF OpToRel
  <1> HIDE DEF R
  <1>3. PICK x \in T : \A y \in T : ~(<<y, x>> \in R)
    BY <1>1, WFMin
  <1>4. \A y \in T : y \in Nat /\ x \in Nat /\ ~(y < x)
    BY <1>2, <1>3
  <1>5. \A y \in T : x <= y
    BY <1>4
  <1> QED
    BY <1>5

(* What holds of 0 and goes from each number to the next holds of all.     *)
LEMMA SetInduction ==
    ASSUME NEW S, 0 \in S, \A n \in Nat : n \in S => n + 1 \in S
    PROVE  \A n \in Nat : n \in S
  <1> SUFFICES ASSUME NEW k \in Nat, k \notin S PROVE FALSE
    OBVIOUS
  <1>1. PICK x \in Nat \ S : \A y \in Nat \ S : x <= y
    <2>1. Nat \ S \in SUBSET Nat /\ Nat \ S # {}
      OBVIOUS
    <2> QED
      BY <2>1, LeastNatural
  <1>2. x # 0 /\ x - 1 \in Nat /\ (x - 1) + 1 = x
    BY <1>1
  <1>3. x - 1 \in S
    BY <1>1, <1>2
  <1> QED
    BY <1>1, <1>2, <1>3

(* The account a sum takes next, and what it does with it.                 *)
Taken(s) == CHOOSE u \in s : TRUE
Adds(f, k, r, s) == IF s = {} THEN 0 ELSE f[<<Taken(s), k>>] + r[s \ {Taken(s)}]

(* Taking an account from a set of n + 1 leaves n.                         *)
LEMMA TakenSmaller ==
    ASSUME NEW s \in SUBSET Accounts, s # {}
    PROVE  /\ Taken(s) \in s /\ Taken(s) \in Accounts /\ s \ {Taken(s)} \in SUBSET Accounts
           /\ IsFiniteSet(s) /\ Cardinality(s) \in Nat \ {0}
           /\ Cardinality(s \ {Taken(s)}) = Cardinality(s) - 1
  <1>1. Taken(s) \in s
    BY DEF Taken
  <1>2. IsFiniteSet(s)
    BY DarkPoolAssumption, FS_Subset
  <1>3. Cardinality(s) \in Nat /\ Cardinality(s) # 0
    BY <1>2, FS_CardinalityType, FS_EmptySet
  <1>4. Cardinality(s \ {Taken(s)}) = Cardinality(s) - 1
    BY <1>1, <1>2, FS_RemoveElement
  <1> QED
    BY <1>1, <1>2, <1>3, <1>4

(* The recursive function behind a total exists, so Total unfolds.         *)
LEMMA TotalUnfolds ==
    ASSUME NEW f, NEW k
    PROVE  \E r : /\ Total(f, k) = r[Accounts]
                  /\ \A s \in SUBSET Accounts : r[s] = Adds(f, k, r, s)
  <1> DEFINE loop(n, r) == r = [s \in {x \in SUBSET Accounts : Cardinality(x) <= n} |->
                                   Adds(f, k, r, s)]
             W(n) == {x \in SUBSET Accounts : Cardinality(x) <= n}
             c == Cardinality(Accounts)
             built == CHOOSE r : r = [s \in SUBSET Accounts |-> Adds(f, k, r, s)]
  <1>1. Total(f, k) = built[Accounts]
    BY DEF Total, MapThenSumSet, MapThenFoldSet, Adds, Taken
  <1>2. c \in Nat /\ W(c) = SUBSET Accounts
    <2>1. IsFiniteSet(Accounts)
      BY DarkPoolAssumption
    <2>2. \A x \in SUBSET Accounts : Cardinality(x) <= c
      BY <2>1, FS_Subset
    <2> QED
      BY <2>1, <2>2, FS_CardinalityType
  <1>3. \E r : loop(c, r)
    <2> DEFINE S == {n \in Nat : \E r : loop(n, r)}
    <2>1. 0 \in S
      <3>1. W(0) = {{}}
        <4>1. \A x \in SUBSET Accounts : x # {} => Cardinality(x) \in Nat \ {0}
          BY TakenSmaller
        <4>2. Cardinality({}) = 0
          BY FS_EmptySet
        <4> QED
          BY <4>1, <4>2
      <3> DEFINE q == [s \in W(0) |-> 0]
      <3>2. q = [s \in W(0) |-> Adds(f, k, q, s)]
        <4>1. \A s \in W(0) : Adds(f, k, q, s) = 0
          BY <3>1 DEF Adds
        <4> QED
          BY <4>1
      <3>3. loop(0, q)
        BY <3>2
      <3> HIDE DEF q, loop
      <3>4. \E r : loop(0, r)
        BY <3>3
      <3> QED
        BY <3>4
    <2>2. ASSUME NEW n \in Nat, n \in S PROVE n + 1 \in S
      <3>1. PICK r : loop(n, r)
        BY <2>2
      <3> DEFINE q == [s \in W(n + 1) |-> IF s \in W(n) THEN r[s] ELSE Adds(f, k, r, s)]
      <3>2. \A s \in W(n) : s \in W(n + 1) /\ q[s] = r[s] /\ r[s] = Adds(f, k, r, s)
        <4>1. \A s \in W(n) : r[s] = Adds(f, k, r, s)
          BY <3>1
        <4>2. \A s \in W(n) : s \in W(n + 1)
          <5> SUFFICES ASSUME NEW s \in W(n) PROVE s \in W(n + 1)
            OBVIOUS
          <5>1. s \in SUBSET Accounts /\ Cardinality(s) <= n
            OBVIOUS
          <5>2. Cardinality(s) \in Nat
            BY <5>1, DarkPoolAssumption, FS_Subset, FS_CardinalityType
          <5> QED
            BY <5>1, <5>2
        <4> QED
          BY <4>1, <4>2
      <3>3. \A s \in W(n + 1) : q[s] = Adds(f, k, r, s)
        BY <3>2
      <3>4. \A s \in W(n + 1) : s # {} => s \ {Taken(s)} \in W(n)
        <4> SUFFICES ASSUME NEW s \in W(n + 1), s # {} PROVE s \ {Taken(s)} \in W(n)
          OBVIOUS
        <4>1. /\ s \ {Taken(s)} \in SUBSET Accounts /\ Cardinality(s) \in Nat
              /\ Cardinality(s \ {Taken(s)}) = Cardinality(s) - 1
          BY TakenSmaller
        <4> QED
          BY <4>1
      <3> HIDE DEF W
      <3>5. \A s \in W(n + 1) : q[s] = Adds(f, k, q, s)
        <4>1. q = [s \in W(n + 1) |-> q[s]]
          OBVIOUS
        <4> HIDE DEF q
        <4> QED
          BY <3>2, <3>3, <3>4 DEF Adds
      <3>6. loop(n + 1, q)
        <4>1. q = [s \in W(n + 1) |-> q[s]]
          OBVIOUS
        <4> HIDE DEF q
        <4>2. q = [s \in W(n + 1) |-> Adds(f, k, q, s)]
          BY <3>5, <4>1
        <4> QED
          BY <4>2 DEF W
      <3> HIDE DEF q, loop
      <3>7. \E x : loop(n + 1, x)
        BY <3>6
      <3> QED
        BY <3>7
    <2> HIDE DEF S
    <2>3. c \in S
      BY <1>2, <2>1, <2>2, SetInduction
    <2> QED
      BY <2>3 DEF S
  <1>4. built = [s \in SUBSET Accounts |-> Adds(f, k, built, s)]
    BY <1>2, <1>3
  <1> HIDE DEF built
  <1>5. \A s \in SUBSET Accounts : built[s] = Adds(f, k, built, s)
    BY <1>4
  <1> QED
    BY <1>1, <1>5

(* One slot changed by d.                                                  *)
Plus(f, s, d) == [f EXCEPT ![s] = f[s] + d]

(* Adding d to one account's slot adds d to the total of its token.        *)
LEMMA TotalAdds ==
    ASSUME NEW f \in [Slots -> Int], NEW u \in Accounts, NEW t \in Tokens, NEW d \in Int,
           NEW k \in Tokens
    PROVE  /\ Total(f, k) \in Int
           /\ Total(Plus(f, <<u, t>>, d), k) = Total(f, k) + (IF k = t THEN d ELSE 0)
  <1> DEFINE g == Plus(f, <<u, t>>, d)
             e == IF k = t THEN d ELSE 0
             c == Cardinality(Accounts)
  <1>1. PICK p : /\ Total(f, k) = p[Accounts]
                 /\ \A s \in SUBSET Accounts : p[s] = Adds(f, k, p, s)
    BY TotalUnfolds
  <1>2. PICK q : /\ Total(g, k) = q[Accounts]
                 /\ \A s \in SUBSET Accounts : q[s] = Adds(g, k, q, s)
    BY TotalUnfolds
  <1>3. \A x \in Accounts : /\ f[<<x, k>>] \in Int
                            /\ g[<<x, k>>] = f[<<x, k>>] + (IF x = u THEN e ELSE 0)
    BY DEF Slots, Plus
  <1>4. e \in Int
    OBVIOUS
  <1> HIDE DEF g, e
  <1> DEFINE Same(s) == p[s] \in Int /\ q[s] = p[s] + (IF u \in s THEN e ELSE 0)
             T == {n \in Nat : \A s \in SUBSET Accounts : Cardinality(s) = n => Same(s)}
  <1>5. 0 \in T
    <2> SUFFICES ASSUME NEW s \in SUBSET Accounts, Cardinality(s) = 0 PROVE Same(s)
      OBVIOUS
    <2>1. s = {}
      BY TakenSmaller
    <2>2. p[s] = 0 /\ q[s] = 0
      BY <1>1, <1>2, <2>1 DEF Adds
    <2> QED
      BY <2>1, <2>2
  <1>6. ASSUME NEW n \in Nat, n \in T PROVE n + 1 \in T
    <2> SUFFICES ASSUME NEW s \in SUBSET Accounts, Cardinality(s) = n + 1 PROVE Same(s)
      OBVIOUS
    <2>1. s # {}
      <3>1. Cardinality({}) = 0
        BY FS_EmptySet
      <3> QED
        BY <3>1
    <2> DEFINE x == Taken(s)
               z == s \ {x}
    <2>2. x \in s /\ x \in Accounts /\ z \in SUBSET Accounts /\ Cardinality(z) = n
      BY <2>1, TakenSmaller
    <2>3. p[s] = f[<<x, k>>] + p[z] /\ q[s] = g[<<x, k>>] + q[z]
      BY <1>1, <1>2, <2>1 DEF Adds
    <2>4. x \notin z /\ (u \in s <=> u = x \/ u \in z)
      BY <2>2
    <2> HIDE DEF x, z
    <2>5. Same(z)
      BY <1>6, <2>2
    <2> QED
      BY <1>3, <1>4, <2>2, <2>3, <2>4, <2>5
  <1> HIDE DEF T
  <1>7. c \in Nat
    BY DarkPoolAssumption, FS_CardinalityType
  <1>8. c \in T
    BY <1>5, <1>6, <1>7, SetInduction
  <1>9. Same(Accounts)
    BY <1>8 DEF T
  <1>10. Total(f, k) \in Int /\ Total(g, k) = Total(f, k) + e
    BY <1>1, <1>2, <1>9
  <1> QED
    BY <1>10 DEF g, e

(* No account has anything, and neither have all of them.                  *)
LEMMA TotalZero == \A k \in Tokens : Total(Zero, k) = 0
  <1> SUFFICES ASSUME NEW k \in Tokens PROVE Total(Zero, k) = 0
    OBVIOUS
  <1>1. PICK p : /\ Total(Zero, k) = p[Accounts]
                 /\ \A s \in SUBSET Accounts : p[s] = Adds(Zero, k, p, s)
    BY TotalUnfolds
  <1> DEFINE T == {n \in Nat : \A s \in SUBSET Accounts : Cardinality(s) = n => p[s] = 0}
             c == Cardinality(Accounts)
  <1>2. 0 \in T
    <2> SUFFICES ASSUME NEW s \in SUBSET Accounts, Cardinality(s) = 0 PROVE p[s] = 0
      OBVIOUS
    <2>1. s = {}
      BY TakenSmaller
    <2> QED
      BY <1>1, <2>1 DEF Adds
  <1>3. ASSUME NEW n \in Nat, n \in T PROVE n + 1 \in T
    <2> SUFFICES ASSUME NEW s \in SUBSET Accounts, Cardinality(s) = n + 1 PROVE p[s] = 0
      OBVIOUS
    <2>1. s # {}
      <3>1. Cardinality({}) = 0
        BY FS_EmptySet
      <3> QED
        BY <3>1
    <2> DEFINE x == Taken(s)
               z == s \ {x}
    <2>2. x \in Accounts /\ z \in SUBSET Accounts /\ Cardinality(z) = n
      BY <2>1, TakenSmaller
    <2>3. p[s] = Zero[<<x, k>>] + p[z]
      BY <1>1, <2>1 DEF Adds
    <2> HIDE DEF x, z
    <2>4. Zero[<<x, k>>] = 0 /\ p[z] = 0
      BY <1>3, <2>2 DEF Zero, Slots
    <2> QED
      BY <2>3, <2>4
  <1> HIDE DEF T
  <1>4. c \in Nat
    BY DarkPoolAssumption, FS_CardinalityType
  <1>5. c \in T
    BY <1>2, <1>3, <1>4, SetInduction
  <1> QED
    BY <1>1, <1>5 DEF T

(* What a ledger says the contract owes of a token.                        *)
Owed(l, k) == Total(l.balances, k) + Total(l.reserved, k)

(* A change of one slot's balance and escrow, by b and r.                  *)
LEMMA OwedChanges ==
    ASSUME NEW l \in Ledgers, NEW h, NEW s \in Slots, NEW b \in Int, NEW r \in Int,
           h.balances = Plus(l.balances, s, b),
           h.reserved = Plus(l.reserved, s, r),
           NEW k \in Tokens
    PROVE  Owed(l, k) \in Int /\ Owed(h, k) = Owed(l, k) + (IF k = s[2] THEN b + r ELSE 0)
  <1>1. PICK u \in Accounts, t \in Tokens : s = <<u, t>>
    BY DEF Slots
  <1> DEFINE f == l.balances
             g == l.reserved
  <1>2. f \in [Slots -> Int] /\ g \in [Slots -> Int] /\ s[2] = t
    BY <1>1 DEF Ledgers
  <1>3. h.balances = Plus(f, <<u, t>>, b)
    BY <1>1
  <1>4. h.reserved = Plus(g, <<u, t>>, r)
    BY <1>1
  <1> HIDE DEF f, g
  <1>5. /\ Total(f, k) \in Int
        /\ Total(h.balances, k) = Total(f, k) + (IF k = t THEN b ELSE 0)
    BY <1>1, <1>2, <1>3, TotalAdds
  <1>6. /\ Total(g, k) \in Int
        /\ Total(h.reserved, k) = Total(g, k) + (IF k = t THEN r ELSE 0)
    BY <1>1, <1>2, <1>4, TotalAdds
  <1>7. Owed(l, k) = Total(f, k) + Total(g, k)
    BY DEF Owed, f, g
  <1>8. Owed(h, k) = Total(h.balances, k) + Total(h.reserved, k)
    BY DEF Owed
  <1> DEFINE tf == Total(f, k)
             tg == Total(g, k)
             hb == Total(h.balances, k)
             hr == Total(h.reserved, k)
  <1>9. /\ tf \in Int /\ tg \in Int /\ hb = tf + (IF k = t THEN b ELSE 0)
        /\ hr = tg + (IF k = t THEN r ELSE 0)
    BY <1>5, <1>6
  <1>10. Owed(l, k) = tf + tg /\ Owed(h, k) = hb + hr
    BY <1>7, <1>8
  <1> HIDE DEF tf, tg, hb, hr
  <1> QED
    BY <1>2, <1>9, <1>10

(* A credit.                                                               *)
LEMMA CreditOwed ==
    ASSUME NEW l \in Ledgers, NEW s \in Slots, NEW amount \in Nat, NEW k \in Tokens
    PROVE  /\ Owed(l, k) \in Int
           /\ Owed(Credit(l, s, amount), k) = Owed(l, k) + (IF k = s[2] THEN amount ELSE 0)
  <1> DEFINE h == Credit(l, s, amount)
  <1>1. h.balances = Plus(l.balances, s, amount) /\ h.reserved = l.reserved
    BY DEF Credit, Ledgers, Plus
  <1>2. l.reserved = Plus(l.reserved, s, 0)
    BY DEF Ledgers, Plus
  <1> HIDE DEF h
  <1>3. h.reserved = Plus(l.reserved, s, 0) /\ amount \in Int /\ 0 \in Int
    BY <1>1, <1>2
  <1>4. Owed(l, k) \in Int /\ Owed(h, k) = Owed(l, k) + (IF k = s[2] THEN amount + 0 ELSE 0)
    BY <1>1, <1>3, OwedChanges
  <1> QED
    BY <1>4 DEF h

(* A debit of escrow.                                                      *)
LEMMA ConsumeOwed ==
    ASSUME NEW l \in Ledgers, NEW s \in Slots, NEW amount \in Nat, NEW k \in Tokens
    PROVE  /\ Owed(l, k) \in Int
           /\ Owed(consumeReserved(l, s, amount), k)
                 = Owed(l, k) - (IF k = s[2] THEN amount ELSE 0)
  <1> DEFINE h == consumeReserved(l, s, amount)
             a == 0 - amount
  <1>1. /\ h.balances = l.balances
        /\ h.reserved = [l.reserved EXCEPT ![s] = l.reserved[s] - amount]
    BY DEF consumeReserved, Ledgers
  <1>2. l.balances = Plus(l.balances, s, 0)
    BY DEF Ledgers, Plus
  <1>3. l.reserved[s] - amount = l.reserved[s] + a /\ a \in Int /\ 0 \in Int
    BY DEF Ledgers
  <1> HIDE DEF h, a
  <1>4. h.balances = Plus(l.balances, s, 0) /\ h.reserved = Plus(l.reserved, s, a)
    BY <1>1, <1>2, <1>3 DEF Plus
  <1>5. Owed(l, k) \in Int /\ Owed(h, k) = Owed(l, k) + (IF k = s[2] THEN 0 + a ELSE 0)
    BY <1>3, <1>4, OwedChanges
  <1> QED
    BY <1>5 DEF h, a

(* A match moves what it takes: the two debits are the three credits.      *)
LEMMA SettleMatchOwed ==
    ASSUME NEW l \in Ledgers, Seasoned(l), NEW m \in Matches,
           admin.feeRecipient \in Accounts, Settleable(l, m), NEW k \in Tokens
    PROVE  Owed(settleMatch(l, m), k) = Owed(l, k)
  <1> DEFINE n == notional(m)
             b == baseAmount(m)
             f == fee(m)
             l1 == consumeReserved(l, bidSlot(m), n)
             s2 == <<m.bidTrader, m.baseToken>>
             s4 == <<m.askTrader, m.quoteToken>>
             s5 == <<admin.feeRecipient, m.quoteToken>>
             l2 == Credit(l1, s2, b)
             l3 == consumeReserved(l2, askSlot(m), b)
             l4 == Credit(l3, s4, n - f)
             l5 == Credit(l4, s5, f)
             Q(x) == IF k = m.quoteToken THEN x ELSE 0
             B(x) == IF k = m.baseToken THEN x ELSE 0
  <1>1. /\ bidSlot(m) \in Slots /\ askSlot(m) \in Slots
        /\ s2 \in Slots /\ s4 \in Slots /\ s5 \in Slots
        /\ s2[2] = m.baseToken /\ s4[2] = m.quoteToken /\ s5[2] = m.quoteToken
        /\ bidSlot(m)[2] = m.quoteToken /\ askSlot(m)[2] = m.baseToken
    BY DEF Matches, Accounts, Slots, bidSlot, askSlot
  <1>2. n \in Nat /\ b \in Nat /\ f \in Nat /\ n - f \in Nat
    BY MatchAmounts
  <1>3. AfterBid(l, m) = l2 /\ settleMatch(l, m) = l5
    BY DEF AfterBid, settleMatch
  <1>4. n <= l.reserved[bidSlot(m)] /\ b <= l2.reserved[askSlot(m)]
    BY <1>3 DEF Settleable
  <1> HIDE DEF n, b, f, s2, s4, s5
  <1>5. l1 \in Ledgers /\ Seasoned(l1) /\ Owed(l1, k) = Owed(l, k) - Q(n) /\ Owed(l, k) \in Int
    BY <1>1, <1>2, <1>4, ConsumeKeeps, ConsumeOwed
  <1> HIDE DEF l1
  <1>6. l2 \in Ledgers /\ Seasoned(l2) /\ Owed(l2, k) = Owed(l1, k) + B(b)
    <2>1. l2 \in Ledgers /\ Seasoned(l2)
      BY <1>1, <1>2, <1>5, CreditKeeps
    <2>2. Owed(l2, k) = Owed(l1, k) + B(b)
      BY <1>1, <1>2, <1>5, CreditOwed
    <2> QED
      BY <2>1, <2>2
  <1> HIDE DEF l2
  <1>7. l3 \in Ledgers /\ Seasoned(l3) /\ Owed(l3, k) = Owed(l2, k) - B(b)
    BY <1>1, <1>2, <1>4, <1>6, ConsumeKeeps, ConsumeOwed
  <1> HIDE DEF l3
  <1>8. l4 \in Ledgers /\ Owed(l4, k) = Owed(l3, k) + Q(n - f)
    <2>1. l4 \in Ledgers
      BY <1>1, <1>2, <1>7, CreditKeeps
    <2>2. Owed(l4, k) = Owed(l3, k) + Q(n - f)
      BY <1>1, <1>2, <1>7, CreditOwed
    <2> QED
      BY <2>1, <2>2
  <1> HIDE DEF l4
  <1>9. Owed(l5, k) = Owed(l4, k) + Q(f)
    BY <1>1, <1>2, <1>8, CreditOwed
  <1> HIDE DEF l5
  <1>10. Owed(l5, k) = Owed(l, k)
    BY <1>2, <1>5, <1>6, <1>7, <1>8, <1>9
  <1> QED
    BY <1>3, <1>10

-----------------------------------------------------------------------------
(* The contract covers its ledger.                                         *)

(* The calls of traders change what is owed by what the contract receives  *)
(* or pays out.                                                            *)
LEMMA TradeOwed ==
    ASSUME IndInv, Trade, NEW k \in Tokens, Owed(ledger, k) = held[k]
    PROVE  Owed(ledger', k) = held'[k]
  <1> PICK s \in Traders \X Tokens :
        \/ \E amount \in Amounts :
            \/ \E received \in 1..amount : deposit(s, amount, received)
            \/ withdraw(s, amount)
            \/ reserve(s, amount)
            \/ requestUnreserve(s, amount)
        \/ releaseUnreserve(s)
    BY DEF Trade
  <1> DEFINE l == ledger
             h == ledger'
  <1>1. s \in Slots /\ s[2] \in Tokens
    BY DEF Slots, Accounts
  <1>2. /\ l \in Ledgers /\ held \in [Tokens -> Int] /\ Owed(l, k) = held[k]
        /\ l.balances[s] \in Int /\ l.reserved[s] \in Int
        /\ l.pendingUnreserve[s] \in Int
    BY <1>1 DEF IndInv, TypeOK, Ledgers
  <1>3. \A x \in Amounts : x \in Nat
    BY DarkPoolAssumption
  <1> DEFINE Moves(b, r) == /\ b \in Int /\ r \in Int
                            /\ h.balances = Plus(l.balances, s, b)
                            /\ h.reserved = Plus(l.reserved, s, r)
                            /\ held' = Plus(held, s[2], b + r)
  <1>4. ASSUME NEW b, NEW r, Moves(b, r)
        PROVE  Owed(h, k) = held'[k]
    <2>1. Owed(l, k) \in Int /\ Owed(h, k) = Owed(l, k) + (IF k = s[2] THEN b + r ELSE 0)
      <3> HIDE DEF l, h
      <3> QED
        BY <1>1, <1>2, <1>4, OwedChanges
    <2>2. held'[k] = held[k] + (IF k = s[2] THEN b + r ELSE 0)
      BY <1>1, <1>2, <1>4 DEF Plus
    <2> QED
      BY <1>2, <2>1, <2>2
  <1>5. held = Plus(held, s[2], 0)
    BY <1>1, <1>2 DEF Plus
  <1>6. l.balances = Plus(l.balances, s, 0) /\ l.reserved = Plus(l.reserved, s, 0)
    BY <1>1, <1>2 DEF Ledgers, Plus
  <1>7. ASSUME NEW amount \in Amounts, NEW received \in 1..amount, deposit(s, amount, received)
        PROVE  Owed(h, k) = held'[k]
    <2>1. received \in Int /\ received + 0 = received /\ 0 \in Int
      BY <1>3
    <2>2. /\ h.balances = Plus(l.balances, s, received)
          /\ h.reserved = l.reserved
          /\ held' = Plus(held, s[2], received)
      BY <1>2, <1>7 DEF deposit, Ledgers, Plus
    <2>3. Moves(received, 0)
      <3> HIDE DEF h, l
      <3> QED
        BY <1>6, <2>1, <2>2
    <2> HIDE DEF Moves
    <2> QED
      BY <1>4, <2>3
  <1>8. ASSUME NEW amount \in Amounts, withdraw(s, amount)
        PROVE  Owed(h, k) = held'[k]
    <2> DEFINE a == 0 - amount
    <2>1. /\ a \in Int /\ a + 0 = a /\ 0 \in Int
          /\ l.balances[s] - amount = l.balances[s] + a
          /\ held[s[2]] - amount = held[s[2]] + a
      BY <1>1, <1>2, <1>3
    <2>2. /\ h.balances = [l.balances EXCEPT ![s] = l.balances[s] - amount]
          /\ h.reserved = l.reserved
          /\ held' = [held EXCEPT ![s[2]] = held[s[2]] - amount]
      BY <1>2, <1>8 DEF withdraw, Ledgers
    <2>3. Moves(a, 0)
      <3> HIDE DEF h, l, a
      <3>1. h.balances = Plus(l.balances, s, a) /\ held' = Plus(held, s[2], a)
        BY <2>1, <2>2 DEF Plus
      <3> QED
        BY <1>6, <2>1, <2>2, <3>1
    <2> HIDE DEF Moves, a
    <2> QED
      BY <1>4, <2>3
  <1>9. ASSUME NEW amount \in Amounts, reserve(s, amount)
        PROVE  Owed(h, k) = held'[k]
    <2> DEFINE a == 0 - amount
    <2>1. /\ a \in Int /\ amount \in Int /\ a + amount = 0
          /\ l.balances[s] - amount = l.balances[s] + a
      BY <1>2, <1>3
    <2>2. /\ h.balances = [l.balances EXCEPT ![s] = l.balances[s] - amount]
          /\ h.reserved = Plus(l.reserved, s, amount)
          /\ held' = held
      BY <1>2, <1>9 DEF reserve, Ledgers, Plus
    <2>3. Moves(a, amount)
      <3> HIDE DEF h, l, a
      <3>1. h.balances = Plus(l.balances, s, a)
        BY <2>1, <2>2 DEF Plus
      <3> QED
        BY <1>5, <2>1, <2>2, <3>1
    <2> HIDE DEF Moves, a
    <2> QED
      BY <1>4, <2>3
  <1>10. ASSUME NEW amount \in Amounts, requestUnreserve(s, amount)
         PROVE  Owed(h, k) = held'[k]
    <2>1. h.balances = l.balances /\ h.reserved = l.reserved /\ held' = held
      BY <1>2, <1>10 DEF requestUnreserve, Ledgers
    <2> HIDE DEF h, l
    <2> QED
      BY <1>2, <2>1 DEF Owed
  <1>11. ASSUME releaseUnreserve(s)
         PROVE  Owed(h, k) = held'[k]
    <2> DEFINE amount == Least(l.pendingUnreserve[s], l.reserved[s])
               a == 0 - amount
    <2>1. amount \in Int
      BY <1>2 DEF Least
    <2>2. /\ h.balances = Plus(l.balances, s, amount)
          /\ h.reserved = [l.reserved EXCEPT ![s] = l.reserved[s] - amount]
          /\ held' = held
      BY <1>2, <1>11 DEF releaseUnreserve, Ledgers, Plus
    <2> HIDE DEF amount
    <2>3. a \in Int /\ amount + a = 0 /\ l.reserved[s] - amount = l.reserved[s] + a
      BY <1>2, <2>1
    <2>4. Moves(amount, a)
      <3> HIDE DEF h, l, a
      <3>1. h.reserved = Plus(l.reserved, s, a)
        BY <2>2, <2>3 DEF Plus
      <3> QED
        BY <1>5, <2>1, <2>2, <2>3, <3>1
    <2> HIDE DEF Moves, a
    <2> QED
      BY <1>4, <2>4
  <1> QED
    BY <1>7, <1>8, <1>9, <1>10, <1>11

(* Every step keeps the books, in a transaction and outside of one.        *)
LEMMA BackedStep == IndInv /\ LedgerBacked /\ [Next]_vars => LedgerBacked'
  <1> SUFFICES ASSUME IndInv, LedgerBacked, [Next]_vars, NEW k \in Tokens
               PROVE  /\ Owed(ledger', k) = held'[k]
                      /\ tx' # NoTx => Owed(tx'.ledger, k) = held'[k]
    BY DEF LedgerBacked, Owed
  <1>1. /\ Owed(ledger, k) = held[k]
        /\ tx # NoTx => Owed(tx.ledger, k) = held[k]
    BY DEF LedgerBacked, Owed
  <1>2. CASE Trade
    <2>1. tx = NoTx /\ tx' = tx
      BY <1>2, TradeFrame
    <2> QED
      BY <1>1, <1>2, <2>1, TradeOwed
  <1>3. CASE Operate
    <2>1. ledger' = ledger /\ held' = held /\ (tx' = tx \/ tx'.ledger = ledger)
      <3>1. PICK op \in Operators, matches \in MatchLists :
              \/ \E b \in BatchIds, a \in AuctionIds, policy \in Policies :
                      submitBatch(op, b, a, matches, policy)
              \/ \E s \in SessionIds : submitSession(op, s, matches)
              \/ \E s \in SessionIds, a \in AuctionIds : settleAuction(op, s, a, matches)
        BY <1>3 DEF Operate
      <3>2. ASSUME NEW b, NEW a, NEW policy, submitBatch(op, b, a, matches, policy)
            PROVE  ledger' = ledger /\ held' = held /\ tx'.ledger = ledger
        BY <3>2 DEF submitBatch, funds
      <3>3. ASSUME NEW s, submitSession(op, s, matches)
            PROVE  ledger' = ledger /\ held' = held /\ tx' = tx
        BY <3>3 DEF submitSession, funds
      <3>4. ASSUME NEW s, NEW a, settleAuction(op, s, a, matches)
            PROVE  ledger' = ledger /\ held' = held /\ tx'.ledger = ledger
        BY <3>4 DEF settleAuction, funds
      <3> QED
        BY <3>1, <3>2, <3>3, <3>4
    <2> QED
      BY <1>1, <2>1
  <1>4. CASE SettleNext
    <2> DEFINE m == Head(tx.left)
               nl == settleMatch(tx.ledger, m)
    <2>1. /\ tx # NoTx /\ tx.left # <<>> /\ Settleable(tx.ledger, m)
          /\ tx' = [tx EXCEPT !.ledger = nl, !.left = Tail(tx.left)]
          /\ ledger' = ledger /\ held' = held
      BY <1>4 DEF SettleNext, funds
    <2>2. m \in Matches
      BY <2>1, TxShape, HeadTailProperties
    <2>3. admin.feeRecipient \in Accounts
      BY DEF IndInv, TypeOK, Admins, Accounts
    <2>4. Owed(nl, k) = Owed(tx.ledger, k)
      BY <2>1, <2>2, <2>3, TxShape, SettleMatchOwed
    <2> HIDE DEF m, nl
    <2>5. tx'.ledger = nl
      BY <2>1 DEF IndInv, TypeOK, Txs
    <2> QED
      BY <1>1, <2>1, <2>4, <2>5
  <1>5. CASE Revert
    BY <1>1, <1>5 DEF Revert, funds
  <1>6. CASE Commit
    BY <1>1, <1>6 DEF Commit
  <1>7. CASE Own \/ Tick \/ UNCHANGED vars
    <2>1. ledger' = ledger /\ held' = held /\ tx' = tx
      BY <1>7, ZenonT(60) DEF Own, OwnerSets, setTokenAllowed, addOperator, removeOperator,
            setPolicy, setFeeRecipient, setIvcVerifier, setIvcEnabled, pause, unpause, Tick,
            funds, vars
    <2> QED
      BY <1>1, <2>1
  <1> QED
    BY <1>2, <1>3, <1>4, <1>5, <1>6, <1>7 DEF Next

(* For any finite number of accounts, the balances and the escrow of a     *)
(* token add up to what the contract holds of it, through short deliveries *)
(* and the rounding of notional and fee, and after every match of a        *)
(* settlement loop (deposit, _settleMatch).                                *)
THEOREM LedgerIsBacked == Spec => []LedgerBacked
  <1>1. Init => LedgerBacked
    <2> SUFFICES ASSUME Init PROVE LedgerBacked
      OBVIOUS
    <2>1. /\ ledger.balances = Zero /\ ledger.reserved = Zero /\ tx = NoTx
          /\ held = [k \in Tokens |-> 0]
      BY DEF Init, EmptyLedger
    <2> QED
      BY <2>1, TotalZero DEF LedgerBacked
  <1>2. IndInv /\ LedgerBacked /\ [Next]_vars => LedgerBacked'
    BY BackedStep
  <1> QED
    BY <1>1, <1>2, Invariance, PTL DEF Spec
=============================================================================
