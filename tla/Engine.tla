------------------------------- MODULE Engine --------------------------------
(***************************************************************************)
(* The matching engine of dp-engine: admission of encrypted orders, the    *)
(* order book as a projection of the event log, cancellation, the pair     *)
(* registry, the auction tick and the in-memory ZK secrets a match is      *)
(* proved from (engine.rs, tick.rs, state.rs, recover.rs, dp-book).        *)
(*                                                                         *)
(* Every critical section of the engine's state mutex is one action; the   *)
(* tick holds the mutex over several (lock = "tick").  Between the         *)
(* sections, and at every await, other tasks run.                          *)
(*                                                                         *)
(* An order id is the sequence number of its OrderPlaced event, which the  *)
(* store makes as unique as the UUID of the code.                          *)
(***************************************************************************)
EXTENDS Auction

CONSTANTS Ciphertexts,     \* submissions, as the bytes a client sends
          Plain,           \* what each ciphertext decrypts to
          Pairs, Config,   \* trading pairs and the config of each
          Tasks,           \* concurrent place_encrypted_order calls
          MAX_ACTIVE_ORDERS, MAX_ACTIVE_ORDERS_PER_TRADER, MAX_ORDER_TTL,
          batch_size,      \* matches one fold step proves
          MaxSeq,          \* bound: sequence numbers given out
          MaxTime,         \* bound: the clock
          TornAppends,     \* whether a failed append may yet become durable
          MaxFailures,     \* bound: failed appends
          MaxRestarts      \* bound: crashes of the process

Traders == {Plain[c].trader : c \in Ciphertexts}

Plaintexts ==
    [trader : Traders, pair : Pairs, side : {"Buy", "Sell"}, price : Nat, size : Nat,
     nullifier : {Plain[c].nullifier : c \in Ciphertexts},
     nonce : {Plain[c].nonce : c \in Ciphertexts}, expires_at : Nat]

ASSUME EngineAssumption ==
    /\ Plain \in [Ciphertexts -> Plaintexts]
    /\ Config \in [Pairs -> [min_order_size : Nat, tick_size : Nat]]
    /\ MAX_ACTIVE_ORDERS \in Nat /\ MAX_ACTIVE_ORDERS_PER_TRADER \in Nat
    /\ MAX_ORDER_TTL \in Nat /\ batch_size \in Nat \ {0}
    /\ TornAppends \in BOOLEAN
    /\ MaxSeq \in Nat /\ MaxTime \in Nat /\ MaxFailures \in Nat /\ MaxRestarts \in Nat

VARIABLES
    log,        \* the durable events, by sequence number
    last_seq,   \* the last sequence number the store gave out
    book,       \* order id -> [c, seq, remaining] of the resting orders
    status,     \* pair -> "Active" | "Suspended" | "Delisted" of the known pairs
    seen_ciphertexts, spent_nullifiers, spent_order_nonces,
    secrets,    \* ids of the orders whose ZK witness secrets are in memory
    dropping,   \* ids whose drop_secret call is still to come
    placing,    \* task -> the placement it is in the middle of
    lock,       \* "free", or "tick" while tick_under_lock holds the mutex
    tick,       \* progress of run_auction_tick
    unacked,    \* history: durable events whose append reported an error
    unproved,   \* OrderMatched events whose witness could not be built
    boot_seq,   \* history: last_seq when this process started
    now, failures, restarts

store    == <<log, last_seq, failures, unacked>>
spent    == <<seen_ciphertexts, spent_nullifiers, spent_order_nonces>>
registry == <<status>>
process  == <<boot_seq, restarts>>
vars == <<log, last_seq, book, status, seen_ciphertexts, spent_nullifiers,
          spent_order_nonces, secrets, dropping, placing, lock, tick, unproved,
          boot_seq, now, failures, restarts, unacked>>

Idle == [pc |-> "idle"]
TickIdle == [pc |-> "idle", now |-> 0, queue |-> {}, chunks |-> <<>>, expiry_failed |-> FALSE]

-----------------------------------------------------------------------------
(* The event store.                                                        *)

(* The log with the first k of the events behind last_seq.                 *)
LogWith(events, k) ==
    [n \in DOMAIN log \cup (last_seq + 1)..(last_seq + k) |->
        IF n > last_seq THEN events[n - last_seq] ELSE log[n]]

Append_(events) ==
    /\ last_seq + Len(events) <= MaxSeq
    /\ log' = LogWith(events, Len(events))
    /\ last_seq' = last_seq + Len(events)
    /\ UNCHANGED <<failures, unacked>>

(* FileStore numbers the events before it writes them, so an append that   *)
(* fails has consumed their numbers.  What of it is durable is open: a     *)
(* flush or sync that failed leaves bytes in the buffer that the next      *)
(* flush may still write, and a write may stop half way (TornAppends).     *)
AppendFails(events) ==
    /\ failures < MaxFailures
    /\ last_seq + Len(events) <= MaxSeq
    /\ failures' = failures + 1
    /\ last_seq' = last_seq + Len(events)
    /\ \E k \in 0..Len(events) : /\ k > 0 => TornAppends
                                 /\ log' = LogWith(events, k)
                                 /\ unacked' = unacked \cup (last_seq + 1)..(last_seq + k)

-----------------------------------------------------------------------------
(* The order book.                                                         *)

Order(id) == Plain[book[id].c]

OrdersOf(pair, side) ==
    {[id |-> id, trader |-> Order(id).trader, price |-> Order(id).price,
      seq |-> book[id].seq, remaining |-> book[id].remaining] :
        id \in {i \in DOMAIN book : Order(i).pair = pair /\ Order(i).side = side}}

order_ids_for(pair) == {id \in DOMAIN book : Order(id).pair = pair}

(* Defective: an order is still live in the instant it expires.            *)
collect_expired_late(at) == {id \in DOMAIN book : Order(id).expires_at < at}

collect_expired(at) == {id \in DOMAIN book : Order(id).expires_at <= at}

remove_orders(bk, ids) == [i \in DOMAIN bk \ ids |-> bk[i]]

(* apply_fill on one leg: a fill larger than what is left is skipped.      *)
apply_fill(bk, id, size) ==
    IF id \in DOMAIN bk /\ size <= bk[id].remaining
    THEN [bk EXCEPT ![id].remaining = @ - size]
    ELSE bk

(* Defective: only the bid's leg of a match is taken from the book.        *)
apply_bid_legs(bk, matches) ==
    LET after == FoldLeft(LAMBDA b, m : apply_fill(b, m.bid, m.size), bk, matches)
    IN  [i \in {j \in DOMAIN bk : after[j].remaining > 0} |-> after[i]]

(* Both legs of every match in turn; an order with nothing left goes.      *)
apply_matches(bk, matches) ==
    LET after == FoldLeft(LAMBDA b, m : apply_fill(apply_fill(b, m.bid, m.size), m.ask, m.size),
                          bk, matches)
    IN  [i \in {j \in DOMAIN bk : after[j].remaining > 0} |-> after[i]]

active_order_count_for_trader(trader) ==
    Cardinality({id \in DOMAIN book : Order(id).trader = trader})

(* Defective: one order too many.                                          *)
ensure_order_capacity_off_by_one(trader) ==
    /\ Cardinality(DOMAIN book) <= MAX_ACTIVE_ORDERS
    /\ active_order_count_for_trader(trader) <= MAX_ACTIVE_ORDERS_PER_TRADER

ensure_order_capacity(trader) ==
    /\ Cardinality(DOMAIN book) < MAX_ACTIVE_ORDERS
    /\ active_order_count_for_trader(trader) < MAX_ACTIVE_ORDERS_PER_TRADER

-----------------------------------------------------------------------------
(* Placing an order: three lock scopes with awaits between them.           *)

(* The cheap replay shed: advisory, under its own lock scope.              *)
SubmitOrder(t, c) ==
    /\ placing[t] = Idle
    /\ lock = "free"
    /\ c \notin seen_ciphertexts
    /\ placing' = [placing EXCEPT ![t] = [pc |-> "decrypting", c |-> c]]
    /\ UNCHANGED <<store, book, registry, spent, secrets, dropping, lock, tick, unproved, now, process>>

(* Decrypted: the plaintext checks, the registry lookup and the freshness  *)
(* window.  The lock is released before the balance oracle is asked.       *)
ValidateOrder(t) ==
    /\ placing[t].pc = "decrypting"
    /\ lock = "free"
    /\ LET p == Plain[placing[t].c]
       IN  /\ p.price > 0 /\ p.size > 0
           /\ p.pair \in DOMAIN status /\ status[p.pair] = "Active"
           /\ p.size >= Config[p.pair].min_order_size
           /\ Config[p.pair].tick_size > 0 => p.price % Config[p.pair].tick_size = 0
           /\ now < p.expires_at /\ p.expires_at <= now + MAX_ORDER_TTL
    /\ placing' = [placing EXCEPT ![t].pc = "looking_up"]
    /\ UNCHANGED <<store, book, registry, spent, secrets, dropping, lock, tick, unproved, now, process>>

(* Any error before the append: decryption, a caller that is not the       *)
(* trader, a failed check, the oracle, the proof, a replay, no capacity.   *)
RejectOrder(t) ==
    /\ placing[t] # Idle
    /\ placing' = [placing EXCEPT ![t] = Idle]
    /\ UNCHANGED <<store, book, registry, spent, secrets, dropping, lock, tick, unproved, now, process>>

PlacedEvent(c) == [type |-> "OrderPlaced", id |-> last_seq + 1, c |-> c]

(* Defective: the pair's status is not looked at again (#162).             *)
AdmissibleStaleStatus(c) ==
    LET p == Plain[c]
    IN  /\ c \notin seen_ciphertexts
        /\ p.nullifier \notin spent_nullifiers
        /\ <<p.trader, p.nonce>> \notin spent_order_nonces
        /\ ensure_order_capacity(p.trader)

(* Defective: the ciphertext test of SubmitOrder is trusted (#233).        *)
AdmissibleSeenEarlier(c) ==
    LET p == Plain[c]
    IN  /\ p.pair \in DOMAIN status /\ status[p.pair] = "Active"
        /\ ensure_order_capacity(p.trader)

(* What the last lock scope checks again before it appends.                *)
Admissible(c) ==
    LET p == Plain[c]
    IN  /\ p.pair \in DOMAIN status /\ status[p.pair] = "Active"
        /\ c \notin seen_ciphertexts
        /\ p.nullifier \notin spent_nullifiers
        /\ <<p.trader, p.nonce>> \notin spent_order_nonces
        /\ ensure_order_capacity(p.trader)

(* Defective: the order keeps the placeholder seq it was built with.       *)
AdmitUnstamped(c, id, seq) ==
    /\ book' = [i \in DOMAIN book \cup {id} |->
                    IF i = id THEN [c |-> c, seq |-> 0, remaining |-> Plain[c].size]
                    ELSE book[i]]
    /\ secrets' = secrets \cup {id}
    /\ seen_ciphertexts' = seen_ciphertexts \cup {c}
    /\ spent_nullifiers' = spent_nullifiers \cup {Plain[c].nullifier}
    /\ spent_order_nonces' = spent_order_nonces \cup {<<Plain[c].trader, Plain[c].nonce>>}

(* The order enters the book, its secret the secrets map and its keys the  *)
(* spent sets, all under the secrets and the state lock.                   *)
Admit(c, id, seq) ==
    /\ book' = [i \in DOMAIN book \cup {id} |->
                    IF i = id THEN [c |-> c, seq |-> seq, remaining |-> Plain[c].size]
                    ELSE book[i]]
    /\ secrets' = secrets \cup {id}
    /\ seen_ciphertexts' = seen_ciphertexts \cup {c}
    /\ spent_nullifiers' = spent_nullifiers \cup {Plain[c].nullifier}
    /\ spent_order_nonces' = spent_order_nonces \cup {<<Plain[c].trader, Plain[c].nonce>>}

persist_order_placed(t) ==
    /\ placing[t].pc = "looking_up"
    /\ lock = "free"
    /\ LET c == placing[t].c
       IN  /\ Admissible(c)
           /\ \/ /\ Append_(<<PlacedEvent(c)>>)
                 /\ Admit(c, last_seq + 1, last_seq + 1)
              \/ /\ AppendFails(<<PlacedEvent(c)>>)
                 /\ UNCHANGED <<book, secrets, spent>>
    /\ placing' = [placing EXCEPT ![t] = Idle]
    /\ UNCHANGED <<registry, dropping, lock, tick, unproved, now, process>>

-----------------------------------------------------------------------------
(* Cancellation and the pair registry.                                     *)

cancel_order(id) ==
    /\ lock = "free"
    /\ id \in DOMAIN book
    /\ LET events == <<[type |-> "OrderCancelled", id |-> id]>>
       IN  \/ /\ Append_(events)
              /\ book' = remove_orders(book, {id})
              /\ dropping' = dropping \cup {id}
           \/ AppendFails(events) /\ UNCHANGED <<book, dropping>>
    /\ UNCHANGED <<registry, spent, secrets, placing, lock, tick, unproved, now, process>>

(* The secrets lock is taken after the state lock was released.            *)
drop_secret(id) ==
    /\ id \in dropping
    /\ dropping' = dropping \ {id}
    /\ secrets' = secrets \ {id}
    /\ UNCHANGED <<store, book, registry, spent, placing, lock, tick, unproved, now, process>>

SetStatus(pair, s) == status' = [p \in DOMAIN status \cup {pair} |-> IF p = pair THEN s ELSE status[p]]

register_pair_with_event(pair) ==
    /\ lock = "free"
    /\ pair \notin DOMAIN status
    /\ LET events == <<[type |-> "PairRegistered", pair |-> pair]>>
       IN  \/ Append_(events) /\ SetStatus(pair, "Active")
           \/ AppendFails(events) /\ UNCHANGED status
    /\ UNCHANGED <<book, spent, secrets, dropping, placing, lock, tick, unproved, now, process>>

suspend_pair(pair) ==
    /\ lock = "free"
    /\ pair \in DOMAIN status /\ status[pair] = "Active"
    /\ LET events == <<[type |-> "PairSuspended", pair |-> pair]>>
       IN  \/ Append_(events) /\ SetStatus(pair, "Suspended")
           \/ AppendFails(events) /\ UNCHANGED status
    /\ UNCHANGED <<book, spent, secrets, dropping, placing, lock, tick, unproved, now, process>>

(* One cancel per open order, in the order the map iteration leaves open,  *)
(* and the delisting itself, in one append.                                *)
delist_pair(pair) ==
    /\ lock = "free"
    /\ pair \in DOMAIN status /\ status[pair] # "Delisted"
    /\ LET open == order_ids_for(pair)
           cancels == [i \in 1..Cardinality(open) |->
                        [type |-> "OrderCancelled", id |-> SetToSeq(open)[i]]]
           events == Append(cancels, [type |-> "PairDelisted", pair |-> pair])
       IN  \/ /\ Append_(events)
              /\ book' = remove_orders(book, open)
              /\ SetStatus(pair, "Delisted")
              /\ dropping' = dropping \cup open
           \/ /\ AppendFails(events)
              /\ UNCHANGED <<book, status, dropping>>
    /\ UNCHANGED <<spent, secrets, placing, lock, tick, unproved, now, process>>

-----------------------------------------------------------------------------
(* The auction tick.                                                       *)

(* Defective: suspended pairs are matched as well.                         *)
AllKnownPairs == DOMAIN status

ActivePairs == {p \in DOMAIN status : status[p] = "Active"}

(* tick_under_lock reads the clock, then waits for the mutex.              *)
StartTick ==
    /\ tick.pc = "idle"
    /\ tick' = [tick EXCEPT !.pc = "locking", !.now = now]
    /\ UNCHANGED <<store, book, registry, spent, secrets, dropping, placing, lock, unproved, now, process>>

(* With the mutex it expires first.  When the expiry events cannot be      *)
(* persisted the tick warns and carries on, the expired orders still in    *)
(* the book.                                                               *)
ExpireOrders ==
    /\ tick.pc = "locking"
    /\ lock = "free"
    /\ lock' = "tick"
    /\ LET expired == collect_expired(tick.now)
           events == [i \in 1..Cardinality(expired) |->
                        [type |-> "OrderExpired", id |-> SetToSeq(expired)[i]]]
           Continue(failed) == tick' = [tick EXCEPT !.pc = "matching", !.queue = ActivePairs,
                                                    !.expiry_failed = failed]
       IN  \/ /\ Append_(events)
              /\ book' = remove_orders(book, expired)
              /\ Continue(FALSE)
           \/ /\ expired # {}
              /\ AppendFails(events)
              /\ Continue(TRUE)
              /\ UNCHANGED book
    /\ UNCHANGED <<registry, spent, secrets, dropping, placing, unproved, now, process>>

(* The events of a round: the auction, then one event per match.           *)
RoundEvents(pair, result) ==
    <<[type |-> "AuctionExecuted", pair |-> pair, price |-> result.price]>> \o
    [k \in 1..Len(result.matches) |->
        [type |-> "OrderMatched", bid |-> result.matches[k].bid, ask |-> result.matches[k].ask,
         price |-> result.matches[k].price, size |-> result.matches[k].size]]

(* The OrderMatched events of a round of n matches that follow event       *)
(* `base`, split into chunks of at most batch_size.                        *)
ChunksOf(base, n) ==
    [k \in 1..((n + batch_size - 1) \div batch_size) |->
        (base + (k - 1) * batch_size + 1)..(base + Lesser(k * batch_size, n))]

(* One Active pair.  A round whose events cannot be persisted is dropped   *)
(* and its orders stay for the next tick.                                  *)
MatchPair ==
    /\ tick.pc = "matching" /\ tick.queue # {}
    /\ LET pair == CHOOSE p \in tick.queue : TRUE
           result == run(OrdersOf(pair, "Buy"), OrdersOf(pair, "Sell"))
           n == Len(result.matches)
           rest == [tick EXCEPT !.queue = @ \ {pair}]
       IN  \/ result = NoAuction /\ tick' = rest /\ UNCHANGED <<store, book>>
           \/ /\ result # NoAuction
              /\ Append_(RoundEvents(pair, result))
              /\ book' = apply_matches(book, result.matches)
              /\ tick' = [rest EXCEPT !.chunks = @ \o ChunksOf(last_seq + 1, n)]
           \/ /\ result # NoAuction
              /\ AppendFails(RoundEvents(pair, result))
              /\ tick' = rest
              /\ UNCHANGED book
    /\ UNCHANGED <<registry, spent, secrets, dropping, placing, lock, unproved, now, process>>

(* tick_under_lock returns: the mutex is released before anything is       *)
(* proved.                                                                 *)
ReleaseLock ==
    /\ tick.pc = "matching" /\ tick.queue = {}
    /\ lock' = "free"
    /\ tick' = [tick EXCEPT !.pc = "proving"]
    /\ UNCHANGED <<store, book, registry, spent, secrets, dropping, placing, unproved, now, process>>

(* build_batch_witness for the next chunk: every leg of it needs its       *)
(* secret, or the chunk is logged and skipped.  A fold follows, during     *)
(* which anything else may run.                                            *)
build_batch_witness ==
    /\ tick.pc = "proving" /\ tick.chunks # <<>>
    /\ LET chunk == Head(tick.chunks)
           legs == UNION {{log[n].bid, log[n].ask} : n \in chunk}
       IN  unproved' = IF legs \subseteq secrets THEN unproved ELSE unproved \cup chunk
    /\ tick' = [tick EXCEPT !.chunks = Tail(@)]
    /\ UNCHANGED <<store, book, registry, spent, secrets, dropping, placing, lock, now, process>>

(* Defective: a partly filled order loses its secret with its first fill.  *)
prune_matched_secrets ==
    /\ tick.pc = "proving" /\ tick.chunks = <<>>
    /\ lock = "free"
    /\ secrets' = secrets \ UNION {{log[n].bid, log[n].ask} :
                        n \in {m \in DOMAIN log : log[m].type = "OrderMatched"}}
    /\ tick' = TickIdle
    /\ UNCHANGED <<store, book, registry, spent, dropping, placing, lock, unproved, now, process>>

(* The end of run_auction_tick.                                            *)
prune_dead_secrets ==
    /\ tick.pc = "proving" /\ tick.chunks = <<>>
    /\ lock = "free"
    /\ secrets' = secrets \cap DOMAIN book
    /\ tick' = TickIdle
    /\ UNCHANGED <<store, book, registry, spent, dropping, placing, lock, unproved, now, process>>

-----------------------------------------------------------------------------
(* Recovery by full replay of the log (snapshots: module Recovery).        *)

EmptyProjection ==
    [book |-> <<>>, status |-> <<>>, seen |-> {}, nullifiers |-> {}, nonces |-> {}]

WithStatus(st, pair, s) ==
    [p \in DOMAIN st.status \cup {pair} |-> IF p = pair THEN s ELSE st.status[p]]

(* A status change of a pair replay does not know is ignored.              *)
ChangedStatus(st, pair, s) ==
    IF pair \in DOMAIN st.status THEN WithStatus(st, pair, s) ELSE st.status

(* The projection after OrderPlaced, the order's priority key the event's  *)
(* own sequence number.                                                    *)
ReplayPlaced(st, n, ev) ==
    LET p == Plain[ev.c]
    IN  [book |-> [i \in DOMAIN st.book \cup {ev.id} |->
                    IF i = ev.id THEN [c |-> ev.c, seq |-> n, remaining |-> p.size]
                    ELSE st.book[i]],
         status |-> IF p.pair \in DOMAIN st.status THEN st.status
                    ELSE WithStatus(st, p.pair, "Active"),
         seen |-> st.seen \cup {ev.c},
         nullifiers |-> st.nullifiers \cup {p.nullifier},
         nonces |-> st.nonces \cup {<<p.trader, p.nonce>>}]

(* Defective: expiries are not replayed.                                   *)
replay_event_no_expiry(st, n, ev) ==
    CASE ev.type = "OrderPlaced" -> ReplayPlaced(st, n, ev)
      [] ev.type = "OrderCancelled" -> [st EXCEPT !.book = remove_orders(@, {ev.id})]
      [] ev.type = "OrderMatched" -> [st EXCEPT !.book = apply_matches(@, <<ev>>)]
      [] ev.type = "PairRegistered" -> [st EXCEPT !.status = WithStatus(st, ev.pair, "Active")]
      [] ev.type = "PairSuspended" -> [st EXCEPT !.status = ChangedStatus(st, ev.pair, "Suspended")]
      [] ev.type = "PairDelisted" -> [st EXCEPT !.status = ChangedStatus(st, ev.pair, "Delisted")]
      [] OTHER -> st

replay_event(st, n, ev) ==
    CASE ev.type = "OrderPlaced" -> ReplayPlaced(st, n, ev)
      [] ev.type \in {"OrderCancelled", "OrderExpired"} ->
            [st EXCEPT !.book = remove_orders(@, {ev.id})]
      [] ev.type = "OrderMatched" -> [st EXCEPT !.book = apply_matches(@, <<ev>>)]
      [] ev.type = "AuctionExecuted" -> st
      [] ev.type = "PairRegistered" -> [st EXCEPT !.status = WithStatus(st, ev.pair, "Active")]
      [] ev.type = "PairSuspended" -> [st EXCEPT !.status = ChangedStatus(st, ev.pair, "Suspended")]
      [] ev.type = "PairDelisted" -> [st EXCEPT !.status = ChangedStatus(st, ev.pair, "Delisted")]

Replayed ==
    FoldLeft(LAMBDA st, n : IF n \in DOMAIN log THEN replay_event(st, n, log[n]) ELSE st,
             EmptyProjection, [n \in 1..last_seq |-> n])

(* A crash and the boot that follows it.  The secrets are not persisted;   *)
(* FileStore numbers on from the last durable event.                       *)
Restart ==
    /\ restarts < MaxRestarts
    /\ restarts' = restarts + 1
    /\ last_seq' = Max(DOMAIN log \cup {0})
    /\ boot_seq' = last_seq'
    /\ book' = Replayed.book
    /\ status' = Replayed.status
    /\ seen_ciphertexts' = Replayed.seen
    /\ spent_nullifiers' = Replayed.nullifiers
    /\ spent_order_nonces' = Replayed.nonces
    /\ secrets' = {} /\ dropping' = {}
    /\ placing' = [t \in Tasks |-> Idle]
    /\ lock' = "free"
    /\ tick' = TickIdle
    /\ unproved' = unproved \cup UNION {tick.chunks[k] : k \in DOMAIN tick.chunks}
    /\ UNCHANGED <<log, failures, unacked, now>>

ClockTick ==
    /\ now < MaxTime
    /\ now' = now + 1
    /\ UNCHANGED <<store, book, registry, spent, secrets, dropping, placing, lock, tick, unproved, process>>

-----------------------------------------------------------------------------
Init ==
    /\ log = <<>> /\ last_seq = 0
    /\ book = <<>> /\ status = <<>>
    /\ seen_ciphertexts = {} /\ spent_nullifiers = {} /\ spent_order_nonces = {}
    /\ secrets = {} /\ dropping = {}
    /\ placing = [t \in Tasks |-> Idle]
    /\ lock = "free"
    /\ tick = TickIdle
    /\ unproved = {} /\ unacked = {}
    /\ boot_seq = 0
    /\ now = 0 /\ failures = 0 /\ restarts = 0

Next ==
    \/ \E t \in Tasks :
        \/ \E c \in Ciphertexts : SubmitOrder(t, c)
        \/ ValidateOrder(t)
        \/ RejectOrder(t)
        \/ persist_order_placed(t)
    \/ \E id \in DOMAIN book : cancel_order(id)
    \/ \E id \in dropping : drop_secret(id)
    \/ \E pair \in Pairs :
        \/ register_pair_with_event(pair)
        \/ suspend_pair(pair)
        \/ delist_pair(pair)
    \/ StartTick
    \/ ExpireOrders
    \/ MatchPair
    \/ ReleaseLock
    \/ build_batch_witness
    \/ prune_dead_secrets
    \/ Restart
    \/ ClockTick

Spec == Init /\ [][Next]_vars

-----------------------------------------------------------------------------
(* What the log says of an order.                                          *)

EventsOf(type) == {n \in DOMAIN log : log[n].type = type}

(* The matches in the log that fill order id, added up.                    *)
FilledSize(id) ==
    MapThenSumSet(LAMBDA n : log[n].size,
                  {n \in EventsOf("OrderMatched") : id \in {log[n].bid, log[n].ask}})

(* overview.md 3.3: the book is a projection of the log.  In every state,  *)
(* whatever appends failed without trace and whatever tasks are half way,  *)
(* replaying the log gives the live book (sizes left and priority keys),   *)
(* the registry and the three replay-protection sets.                      *)
LiveIsReplay ==
    unacked = {} =>
        Replayed = [book |-> book, status |-> status, seen |-> seen_ciphertexts,
                    nullifiers |-> spent_nullifiers, nonces |-> spent_order_nonces]

(* persist_order_placed and delist_pair (#162): a delisted pair has no     *)
(* resting order, however a placement that had already passed its first    *)
(* status check interleaves with the delisting.                            *)
DelistedPairIsEmpty ==
    \A p \in DOMAIN status : status[p] = "Delisted" => order_ids_for(p) = {}

(* persist_order_placed (#233): no two admitted orders share a ciphertext, *)
(* a nullifier or a trader's nonce, however many identical submissions are *)
(* in flight and whatever restarts come between them.                      *)
ReplayKeysSpentOnce ==
    \A m, n \in EventsOf("OrderPlaced") \ unacked :
        LET p == Plain[log[m].c]
            q == Plain[log[n].c]
        IN  m # n => /\ log[m].c # log[n].c
                     /\ p.nullifier # q.nullifier
                     /\ <<p.trader, p.nonce>> # <<q.trader, q.nonce>>

(* place_encrypted_order: "a racing tick can never observe a booked order  *)
(* without its in-memory ZK witness".  Every resting order that this       *)
(* process admitted has its secret; between ticks a secret outlives its    *)
(* order only while the cancel that removed the order is still running     *)
(* (prune_dead_secrets, drop_secret); and a recorded match is left without *)
(* a proof only when an order of its chunk was withdrawn before the tick   *)
(* came to it, or is older than the process.                               *)
SecretsFollowOrders ==
    /\ \A id \in DOMAIN book : id > boot_seq => id \in secrets
    /\ tick.pc = "idle" => secrets \subseteq DOMAIN book \cup dropping
    /\ \A n \in unproved : \E k \in unproved \cap (n - batch_size + 1)..(n + batch_size - 1) :
           \E id \in {log[k].bid, log[k].ask} :
               \/ id <= boot_seq
               \/ \E c \in EventsOf("OrderCancelled") : log[c].id = id /\ c > k

(* ensure_order_capacity, tested under the lock that inserts: concurrent   *)
(* placements never push the book or one trader over the limit.            *)
CapacityHeld ==
    /\ Cardinality(DOMAIN book) <= MAX_ACTIVE_ORDERS
    /\ \A t \in Traders : active_order_count_for_trader(t) <= MAX_ACTIVE_ORDERS_PER_TRADER

(* The fills of the log and the book agree: a resting order has its size   *)
(* less every fill ever recorded for it, and no order is filled beyond its *)
(* size.                                                                   *)
FillsConserved ==
    \A id \in EventsOf("OrderPlaced") :
        /\ FilledSize(id) <= Plain[log[id].c].size
        /\ id \in DOMAIN book => book[id].remaining = Plain[log[id].c].size - FilledSize(id)

(* tick_under_lock: a match is only recorded for two resting orders of an  *)
(* Active pair, of different traders and on opposite sides, at a price     *)
(* both accept.                                                            *)
MatchesAreLegal ==
    [][\A n \in DOMAIN log' \ DOMAIN log :
            log'[n].type = "OrderMatched" =>
                LET b == log'[n].bid
                    a == log'[n].ask
                IN  /\ {a, b} \subseteq DOMAIN book
                    /\ Order(b).pair = Order(a).pair /\ status[Order(b).pair] = "Active"
                    /\ Order(b).side = "Buy" /\ Order(a).side = "Sell"
                    /\ Order(b).trader # Order(a).trader
                    /\ Order(b).price >= log'[n].price /\ log'[n].price >= Order(a).price]_vars

(* tick_under_lock: an order whose expiry has passed by the tick's clock   *)
(* is matched in that tick only when persisting its expiry failed.         *)
ExpiredNotMatched ==
    [][\A n \in DOMAIN log' \ DOMAIN log :
            log'[n].type = "OrderMatched" /\ ~tick.expiry_failed =>
                /\ tick.now < Order(log'[n].bid).expires_at
                /\ tick.now < Order(log'[n].ask).expires_at]_vars

(* An order that has left the book by a fill, a cancel, an expiry or a     *)
(* delisting never rests again, not after a restart either.                *)
NoResurrection ==
    [][\A id \in EventsOf("OrderPlaced") :
            id \notin DOMAIN book => id \notin DOMAIN book']_vars
=============================================================================
