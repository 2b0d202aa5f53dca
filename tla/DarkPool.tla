------------------------------ MODULE DarkPool -------------------------------
(***************************************************************************)
(* The settlement contract, DarkPool.sol: free balances, the escrow that   *)
(* orders are matched against, the unreserve cooldown, the two settlement  *)
(* arms (submitBatch, and submitSession with settleAuction) and the        *)
(* owner's switches.                                                       *)
(*                                                                         *)
(* A call that reverts changes nothing, so only a revert in the middle of  *)
(* a settlement loop is a step.  A transaction works on a copy of the      *)
(* ledger, one match per step, and writes it back when it commits; no      *)
(* other call runs in between.  Ids stand for their _domainId hashes: the  *)
(* namespaces are disjoint variables here.                                 *)
(***************************************************************************)
EXTENDS Integers, Sequences, FiniteSetsExt

CONSTANTS Traders, Tokens,
          Treasuries,       \* accounts the owner may name as fee recipient
          Operators, BatchIds, AuctionIds, SessionIds, Policies,
          MatchLists,       \* the matches[] arrays an operator may submit
          Scale,            \* 10^decimals() of each token
          ONE,              \* 1e18
          WEI_TO_CIRCUIT_SCALE, PROTOCOL_FEE_BPS, BPS_DENOMINATOR,
          MAX_BATCH_SIZE, MAX_IVC_SETTLE_MATCHES, UNRESERVE_DELAY,
          Amounts,          \* the amounts traders call with
          MaxHeld,          \* bound: what is ever deposited of a token
          MaxTime,          \* bound: block.timestamp
          MaxOwnerCalls     \* bound: calls of the owner

Accounts == Traders \cup Treasuries
Slots == Accounts \X Tokens

Matches == [bidTrader : Traders, askTrader : Traders, baseToken : Tokens,
            quoteToken : Tokens, price : Nat, size : Nat]

ASSUME DarkPoolAssumption ==
    /\ MatchLists \subseteq Seq(Matches)
    /\ Scale \in [Tokens -> Nat]
    /\ ONE \in Nat \ {0} /\ WEI_TO_CIRCUIT_SCALE \in Nat \ {0}
    /\ BPS_DENOMINATOR \in Nat \ {0} /\ PROTOCOL_FEE_BPS \in 0..BPS_DENOMINATOR
    /\ MAX_BATCH_SIZE \in Nat /\ MAX_IVC_SETTLE_MATCHES \in Nat
    /\ UNRESERVE_DELAY \in Nat
    /\ Amounts \subseteq Nat \ {0}
    /\ Treasuries # {} /\ Policies # {} /\ IsFiniteSet(Accounts)
    /\ MaxHeld \in Nat /\ MaxTime \in Nat /\ MaxOwnerCalls \in Nat

VARIABLES
    ledger,            \* the per-account mappings, below
    held,              \* what the contract holds of each token (external)
    settledBatch, settledAuction, sessionSettled,
    sessionAcc,        \* submitted session -> its settlement chain zN[3]
    auctionToSession,  \* settled auction -> the session that settled it
    tx,                \* the settlement transaction in progress
    admin,             \* the owner's switches
    rounds,            \* history: settlements per auction
    sessionRounds,     \* history: settlements per session
    ownerCalls, now

funds   == <<ledger, held>>
guards  == <<settledBatch, settledAuction, sessionSettled, sessionAcc, auctionToSession>>
history == <<rounds, sessionRounds>>
vars == <<ledger, held, settledBatch, settledAuction, sessionSettled, sessionAcc,
          auctionToSession, tx, admin, rounds, sessionRounds, ownerCalls, now>>

NoTx == [arm |-> "none"]

(* The last two fields are history: when the latest unreserve was asked    *)
(* for, and the least that has been reserved since.                        *)
Ledgers ==
    [balances : [Slots -> Nat], reserved : [Slots -> Nat],
     pendingUnreserve : [Slots -> Nat], unreserveReadyAt : [Slots -> Nat],
     requestedAt : [Slots -> Nat], low : [Slots -> Nat]]

Least(a, b) == IF a <= b THEN a ELSE b

-----------------------------------------------------------------------------
(* Funds of one trader in one token; s is <<msg.sender, token>>.           *)

Callable == tx = NoTx /\ ~admin.paused

(* Defective: credits what was asked for, not what arrived.                *)
deposit_requested(s, amount, received) ==
    /\ Callable
    /\ s[2] \in admin.allowedTokens
    /\ held[s[2]] + received <= MaxHeld
    /\ ledger' = [ledger EXCEPT !.balances[s] = @ + amount]
    /\ held' = [held EXCEPT ![s[2]] = @ + received]
    /\ UNCHANGED <<guards, tx, admin, history, ownerCalls, now>>

(* The token may deliver less than `amount`: what arrived is credited.     *)
deposit(s, amount, received) ==
    /\ Callable
    /\ s[2] \in admin.allowedTokens
    /\ held[s[2]] + received <= MaxHeld
    /\ ledger' = [ledger EXCEPT !.balances[s] = @ + received]
    /\ held' = [held EXCEPT ![s[2]] = @ + received]
    /\ UNCHANGED <<guards, tx, admin, history, ownerCalls, now>>

withdraw(s, amount) ==
    /\ Callable
    /\ ledger.balances[s] >= amount
    /\ ledger' = [ledger EXCEPT !.balances[s] = @ - amount]
    /\ held' = [held EXCEPT ![s[2]] = @ - amount]
    /\ UNCHANGED <<guards, tx, admin, history, ownerCalls, now>>

reserve(s, amount) ==
    /\ Callable
    /\ ledger.balances[s] >= amount
    /\ ledger' = [ledger EXCEPT !.balances[s] = @ - amount,
                                !.reserved[s] = @ + amount]
    /\ UNCHANGED <<held, guards, tx, admin, history, ownerCalls, now>>

(* A further request moves the deadline of everything pending.             *)
requestUnreserve(s, amount) ==
    /\ Callable
    /\ amount <= ledger.reserved[s] - ledger.pendingUnreserve[s]
    /\ ledger' = [ledger EXCEPT !.pendingUnreserve[s] = @ + amount,
                                !.unreserveReadyAt[s] = now + UNRESERVE_DELAY,
                                !.requestedAt[s] = now,
                                !.low[s] = ledger.reserved[s]]
    /\ UNCHANGED <<held, guards, tx, admin, history, ownerCalls, now>>

(* Defective: the deadline is not looked at.                               *)
releaseUnreserve_early(s) ==
    /\ Callable
    /\ ledger.pendingUnreserve[s] > 0
    /\ LET amount == Least(ledger.pendingUnreserve[s], ledger.reserved[s])
       IN  ledger' = [ledger EXCEPT !.reserved[s] = @ - amount,
                                    !.balances[s] = @ + amount,
                                    !.pendingUnreserve[s] = 0,
                                    !.unreserveReadyAt[s] = 0,
                                    !.low[s] = Least(@, ledger.reserved[s] - amount)]
    /\ UNCHANGED <<held, guards, tx, admin, history, ownerCalls, now>>

releaseUnreserve(s) ==
    /\ Callable
    /\ ledger.pendingUnreserve[s] > 0
    /\ now >= ledger.unreserveReadyAt[s]
    /\ LET amount == Least(ledger.pendingUnreserve[s], ledger.reserved[s])
       IN  ledger' = [ledger EXCEPT !.reserved[s] = @ - amount,
                                    !.balances[s] = @ + amount,
                                    !.pendingUnreserve[s] = 0,
                                    !.unreserveReadyAt[s] = 0,
                                    !.low[s] = Least(@, ledger.reserved[s] - amount)]
    /\ UNCHANGED <<held, guards, tx, admin, history, ownerCalls, now>>

-----------------------------------------------------------------------------
(* Settling one match.                                                     *)

(* Defective: the pending request survives the funds it was for (#165).    *)
consumeReserved_only(l, s, amount) ==
    [l EXCEPT !.reserved[s] = @ - amount, !.low[s] = Least(@, l.reserved[s] - amount)]

(* Funds not asked back are spent first; a request is retired as far as    *)
(* the match reaches into it, and its timer with the last of it.           *)
consumeReserved(l, s, amount) ==
    LET r == l.reserved[s]
        p == l.pendingUnreserve[s]
        freeReserved == IF r > p THEN r - p ELSE 0
        reached == p # 0 /\ amount > freeReserved
        newPending == IF reached THEN p - (amount - freeReserved) ELSE p
    IN  [l EXCEPT !.reserved[s] = r - amount,
                  !.pendingUnreserve[s] = newPending,
                  !.unreserveReadyAt[s] = IF reached /\ newPending = 0 THEN 0 ELSE @,
                  !.low[s] = Least(@, r - amount)]

baseAmount(m) == (m.size * Scale[m.baseToken]) \div ONE

(* Rounds down twice: to 1e18ths, then to the quote token's units.         *)
notional(m) == (((m.price * m.size) \div ONE) * Scale[m.quoteToken]) \div ONE

fee(m) == (notional(m) * PROTOCOL_FEE_BPS) \div BPS_DENOMINATOR

Credit(l, s, amount) == [l EXCEPT !.balances[s] = @ + amount]

(* The escrow each leg pays from: the bid in quote, the ask in base.       *)
bidSlot(m) == <<m.bidTrader, m.quoteToken>>
askSlot(m) == <<m.askTrader, m.baseToken>>

AfterBid(l, m) ==
    Credit(consumeReserved(l, bidSlot(m), notional(m)),
           <<m.bidTrader, m.baseToken>>, baseAmount(m))

(* Defective: the ask's escrow is taken for granted.                       *)
Settleable_bid_only(l, m) == notional(m) <= l.reserved[bidSlot(m)]

(* Neither checked subtraction underflows.                                 *)
Settleable(l, m) ==
    /\ notional(m) <= l.reserved[bidSlot(m)]
    /\ baseAmount(m) <= AfterBid(l, m).reserved[askSlot(m)]

settleMatch(l, m) ==
    LET paid == Credit(consumeReserved(AfterBid(l, m), askSlot(m), baseAmount(m)),
                       <<m.askTrader, m.quoteToken>>, notional(m) - fee(m))
    IN  Credit(paid, <<admin.feeRecipient, m.quoteToken>>, fee(m))

-----------------------------------------------------------------------------
(* The settlement arms.                                                    *)

(* Defective: each arm only has its own replay guard (#214).               *)
submitBatch_own_guard(op, b, a, matches, policy) ==
    /\ Callable
    /\ op \in admin.operators
    /\ b \notin settledBatch
    /\ Len(matches) \in 1..MAX_BATCH_SIZE
    /\ policy = admin.policy
    /\ tx' = [arm |-> "batch", id |-> b, auction |-> a, left |-> matches, ledger |-> ledger]
    /\ UNCHANGED <<funds, guards, admin, history, ownerCalls, now>>

(* The Groth16 arm; the proof was made under `policy` and verifies.        *)
submitBatch(op, b, a, matches, policy) ==
    /\ Callable
    /\ op \in admin.operators
    /\ b \notin settledBatch
    /\ a \notin settledAuction
    /\ Len(matches) \in 1..MAX_BATCH_SIZE
    /\ policy = admin.policy
    /\ tx' = [arm |-> "batch", id |-> b, auction |-> a, left |-> matches, ledger |-> ledger]
    /\ UNCHANGED <<funds, guards, admin, history, ownerCalls, now>>

(* The settlement chain as what it binds: traders, price and size of each  *)
(* match, in order.                                                        *)
settlementChain(matches) ==
    [i \in 1..Len(matches) |->
        <<matches[i].bidTrader, matches[i].askTrader,
          matches[i].price \div WEI_TO_CIRCUIT_SCALE, matches[i].size \div WEI_TO_CIRCUIT_SCALE>>]

Precise(matches) ==
    \A i \in 1..Len(matches) : /\ matches[i].price % WEI_TO_CIRCUIT_SCALE = 0
                               /\ matches[i].size % WEI_TO_CIRCUIT_SCALE = 0

IvcCallable(op) == Callable /\ admin.ivcEnabled /\ op \in admin.operators

(* The IVC arm, first call: `proved` are the matches of the session whose  *)
(* proof verifies.                                                         *)
submitSession(op, s, proved) ==
    /\ IvcCallable(op)
    /\ s \notin DOMAIN sessionAcc
    /\ admin.ivcVerifier # "none"
    /\ sessionAcc' = [t \in DOMAIN sessionAcc \cup {s} |->
                        IF t = s THEN settlementChain(proved) ELSE sessionAcc[t]]
    /\ UNCHANGED <<funds, settledBatch, settledAuction, sessionSettled, auctionToSession,
                   tx, admin, history, ownerCalls, now>>

(* Defective: one proved session settles under any number of auction ids.  *)
settleAuction_any_session(op, s, a, matches) ==
    /\ IvcCallable(op)
    /\ s \in DOMAIN sessionAcc
    /\ a \notin settledAuction
    /\ Len(matches) \in 1..MAX_IVC_SETTLE_MATCHES
    /\ Precise(matches)
    /\ settlementChain(matches) = sessionAcc[s]
    /\ tx' = [arm |-> "session", id |-> s, auction |-> a, left |-> matches, ledger |-> ledger]
    /\ UNCHANGED <<funds, guards, admin, history, ownerCalls, now>>

settleAuction(op, s, a, matches) ==
    /\ IvcCallable(op)
    /\ s \in DOMAIN sessionAcc
    /\ a \notin settledAuction
    /\ s \notin sessionSettled
    /\ a \in DOMAIN auctionToSession => auctionToSession[a] = s
    /\ Len(matches) \in 1..MAX_IVC_SETTLE_MATCHES
    /\ Precise(matches)
    /\ settlementChain(matches) = sessionAcc[s]
    /\ tx' = [arm |-> "session", id |-> s, auction |-> a, left |-> matches, ledger |-> ledger]
    /\ UNCHANGED <<funds, guards, admin, history, ownerCalls, now>>

(* One round of the loop over matches.                                     *)
SettleNext ==
    /\ tx # NoTx /\ tx.left # <<>>
    /\ Settleable(tx.ledger, Head(tx.left))
    /\ tx' = [tx EXCEPT !.ledger = settleMatch(@, Head(tx.left)), !.left = Tail(@)]
    /\ UNCHANGED <<funds, guards, admin, history, ownerCalls, now>>

(* Checked arithmetic underflows: the whole transaction is undone.         *)
Revert ==
    /\ tx # NoTx /\ tx.left # <<>>
    /\ ~Settleable(tx.ledger, Head(tx.left))
    /\ tx' = NoTx
    /\ UNCHANGED <<funds, guards, admin, history, ownerCalls, now>>

(* The replay guards are written with the ledger.                          *)
Commit ==
    /\ tx # NoTx /\ tx.left = <<>>
    /\ ledger' = tx.ledger
    /\ settledAuction' = settledAuction \cup {tx.auction}
    /\ rounds' = [rounds EXCEPT ![tx.auction] = @ + 1]
    /\ \/ /\ tx.arm = "batch"
          /\ settledBatch' = settledBatch \cup {tx.id}
          /\ UNCHANGED <<sessionSettled, auctionToSession, sessionRounds>>
       \/ /\ tx.arm = "session"
          /\ sessionSettled' = sessionSettled \cup {tx.id}
          /\ auctionToSession' = [a \in DOMAIN auctionToSession \cup {tx.auction} |->
                                    IF a = tx.auction THEN tx.id ELSE auctionToSession[a]]
          /\ sessionRounds' = [sessionRounds EXCEPT ![tx.id] = @ + 1]
          /\ UNCHANGED settledBatch
    /\ tx' = NoTx
    /\ UNCHANGED <<held, sessionAcc, admin, ownerCalls, now>>

-----------------------------------------------------------------------------
(* The owner.                                                              *)

OwnerSets(new) ==
    /\ tx = NoTx
    /\ ownerCalls < MaxOwnerCalls
    /\ ownerCalls' = ownerCalls + 1
    /\ admin' = new
    /\ UNCHANGED <<funds, guards, tx, history, now>>

setTokenAllowed(k, allowed) ==
    OwnerSets([admin EXCEPT !.allowedTokens = IF allowed THEN @ \cup {k} ELSE @ \ {k}])
addOperator(op) == OwnerSets([admin EXCEPT !.operators = @ \cup {op}])
removeOperator(op) == OwnerSets([admin EXCEPT !.operators = @ \ {op}])
setPolicy(policy) == OwnerSets([admin EXCEPT !.policy = policy])
setFeeRecipient(u) == OwnerSets([admin EXCEPT !.feeRecipient = u])
setIvcVerifier == OwnerSets([admin EXCEPT !.ivcVerifier = "set"])
setIvcEnabled(enabled) == OwnerSets([admin EXCEPT !.ivcEnabled = enabled])
pause == ~admin.paused /\ OwnerSets([admin EXCEPT !.paused = TRUE])
unpause == admin.paused /\ OwnerSets([admin EXCEPT !.paused = FALSE])

Tick ==
    /\ tx = NoTx
    /\ now < MaxTime
    /\ now' = now + 1
    /\ UNCHANGED <<funds, guards, tx, admin, history, ownerCalls>>

-----------------------------------------------------------------------------
Zero == [s \in Slots |-> 0]

EmptyLedger ==
    [balances |-> Zero, reserved |-> Zero, pendingUnreserve |-> Zero,
     unreserveReadyAt |-> Zero, requestedAt |-> Zero, low |-> Zero]

(* What Deploy.s.sol leaves: the pair's tokens allowed, the verifier set,  *)
(* the IVC path armed or not, no operator yet.                             *)
Init ==
    /\ ledger = EmptyLedger
    /\ held = [k \in Tokens |-> 0]
    /\ settledBatch = {} /\ settledAuction = {} /\ sessionSettled = {}
    /\ sessionAcc = <<>> /\ auctionToSession = <<>>
    /\ tx = NoTx
    /\ \E armed \in BOOLEAN, recipient \in Treasuries, policy \in Policies :
            admin = [paused |-> FALSE, ivcEnabled |-> armed, ivcVerifier |-> "set",
                     operators |-> {}, allowedTokens |-> Tokens,
                     feeRecipient |-> recipient, policy |-> policy]
    /\ rounds = [a \in AuctionIds |-> 0] /\ sessionRounds = [s \in SessionIds |-> 0]
    /\ ownerCalls = 0 /\ now = 0

Trade ==
    \E s \in Traders \X Tokens :
        \/ \E amount \in Amounts :
            \/ \E received \in 1..amount : deposit(s, amount, received)
            \/ withdraw(s, amount)
            \/ reserve(s, amount)
            \/ requestUnreserve(s, amount)
        \/ releaseUnreserve(s)

Operate ==
    \E op \in Operators, matches \in MatchLists :
        \/ \E b \in BatchIds, a \in AuctionIds, policy \in Policies :
                submitBatch(op, b, a, matches, policy)
        \/ \E s \in SessionIds : submitSession(op, s, matches)
        \/ \E s \in SessionIds, a \in AuctionIds : settleAuction(op, s, a, matches)

Own ==
    \/ \E k \in Tokens, allowed \in BOOLEAN : setTokenAllowed(k, allowed)
    \/ \E op \in Operators : addOperator(op) \/ removeOperator(op)
    \/ \E policy \in Policies : setPolicy(policy)
    \/ \E u \in Treasuries : setFeeRecipient(u)
    \/ setIvcVerifier
    \/ \E enabled \in BOOLEAN : setIvcEnabled(enabled)
    \/ pause
    \/ unpause

Next == Trade \/ Operate \/ SettleNext \/ Revert \/ Commit \/ Own \/ Tick

Spec == Init /\ [][Next]_vars

-----------------------------------------------------------------------------
Txs == {NoTx} \cup
       [arm : {"batch"}, id : BatchIds, auction : AuctionIds, left : Seq(Matches), ledger : Ledgers]
       \cup
       [arm : {"session"}, id : SessionIds, auction : AuctionIds, left : Seq(Matches), ledger : Ledgers]

Admins == [paused : BOOLEAN, ivcEnabled : BOOLEAN, ivcVerifier : {"none", "set"},
           operators : SUBSET Operators, allowedTokens : SUBSET Tokens,
           feeRecipient : Treasuries, policy : Policies]

(* The type of the state.  No amount ever goes below zero: every           *)
(* subtraction of the contract, inside a transaction too, is covered.      *)
TypeOK ==
    /\ ledger \in Ledgers
    /\ held \in [Tokens -> Int]
    /\ settledBatch \subseteq BatchIds /\ settledAuction \subseteq AuctionIds
    /\ sessionSettled \subseteq SessionIds
    /\ DOMAIN sessionAcc \subseteq SessionIds /\ DOMAIN auctionToSession \subseteq AuctionIds
    /\ tx \in Txs
    /\ admin \in Admins
    /\ rounds \in [AuctionIds -> Nat] /\ sessionRounds \in [SessionIds -> Nat]
    /\ ownerCalls \in Nat /\ now \in Nat

(* A request to unreserve covers escrow that has been there ever since the *)
(* request was made: never more than the least that was reserved since.    *)
(* The timer runs exactly while something is pending.                      *)
Seasoned(l) ==
    \A s \in Slots :
        /\ l.pendingUnreserve[s] <= l.low[s]
        /\ l.low[s] <= l.reserved[s]
        /\ l.unreserveReadyAt[s] =
                IF l.pendingUnreserve[s] = 0 THEN 0 ELSE l.requestedAt[s] + UNRESERVE_DELAY

(* _consumeReserved: settlement retires the request it reaches into, so    *)
(* funds reserved after it never inherit a matured timer (#165).           *)
EscrowSeasoned == Seasoned(ledger) /\ (tx # NoTx => Seasoned(tx.ledger))

(* Escrow leaves `reserved` in two ways only: to a committed settlement,   *)
(* or after a full cooldown since the trader's latest request, and then no *)
(* more than was reserved during all of it.                                *)
EscrowHeld ==
    [][\A s \in Slots :
            ledger'.reserved[s] < ledger.reserved[s] =>
                \/ tx # NoTx /\ tx.left = <<>> /\ tx' = NoTx
                \/ /\ now >= ledger.requestedAt[s] + UNRESERVE_DELAY
                   /\ ledger.reserved[s] - ledger'.reserved[s] <= ledger.low[s]]_vars

(* #214: an auction round settles at most once, by whichever arm, and a    *)
(* proved session settles at most one auction.                             *)
SettledOnce ==
    /\ \A a \in AuctionIds : rounds[a] <= 1
    /\ \A s \in SessionIds : sessionRounds[s] <= 1

(* The sum of a mapping over all accounts.                                 *)
Total(f, k) == MapThenSumSet(LAMBDA u : f[<<u, k>>], Accounts)

(* deposit and _settleMatch: the internal accounts of a token add up to    *)
(* what the contract holds of it, through short deliveries, rounding of    *)
(* notional and fee, and in the middle of a settlement.                    *)
LedgerBacked ==
    \A k \in Tokens :
        /\ Total(ledger.balances, k) + Total(ledger.reserved, k) = held[k]
        /\ tx # NoTx => Total(tx.ledger.balances, k) + Total(tx.ledger.reserved, k) = held[k]
=============================================================================
