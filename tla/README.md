# A TLA+ model of DarkPool-Exchange

DarkPool-Exchange is a dark pool: traders submit encrypted limit orders, an
operator's engine matches them in periodic batch auctions at one clearing price,
proves the matches in zero knowledge and settles them on a contract that holds
the traders' escrow. This directory models the parts that decide who trades what
and who is paid: the auction, the engine with its event log, recovery from
snapshots, the proofs and the constraints behind them, the way of a batch to the
chain, the settlement contract, and the server in front of it all: sessions, limits,
boot, keys and certificates.

## The system and its parts

| Part | State | Operations |
|---|---|---|
| `dp-auction` | none | `run`: clearing price, matching |
| `dp-book` | orders by pair and side | insert, apply an event, collect expired, counts |
| `dp-engine` admission | spent ciphertexts, nullifiers, nonces; ZK secrets | `place_encrypted_order`, `cancel_order` |
| `dp-engine` registry | status and config of each pair | register, suspend, delist |
| `dp-engine` tick | matches waiting for their proof, pending batches | expire, match, fold, finalize, submit, retry |
| `dp-event` | the log, its sequence counter; snapshot envelopes | append, read, compact; write, list, prune |
| `dp-engine` recovery | the projection it rebuilds | restore a snapshot, replay, re-aggregate |
| `dp-aggregator` | a folding accumulator per pair | fold a step, finalize |
| `dp-settlement` | none durable | submit a batch or session, watch events, read escrow |
| `DarkPool.sol` | balances, escrow, unreserve requests, replay guards, switches | deposit ... settle ... pause |
| `dp-zk` | the folded state `z` of an accumulator | order and step constraints, admitted set, fold, finalize, verify |
| `dp-client`, `dp-zk-wasm` | none | encode, commit to and prove an order |
| `dp-api` sessions | nonces and their count per client, tokens | issue, verify, place, cancel, read, administer a pair |
| `dp-api` limits | token buckets, stream semaphores | admit, refuse, evict; open and close a stream |
| `dp-api` process, `dp-crypto` | configuration, key ring, certificates | boot stage by stage, rotate keys, reload, drain |
| verifiers, front end, deployment | | not modelled, below |

The API calls the engine; the engine holds one state mutex and one mutex for the
secrets, and releases both at every await (decryption, balance oracle, proving,
submission). Everything durable goes through `Store::append`; the in-memory book
is a projection of that log, extended in the critical section that appends -
except the confirmations of batches, which are appended without the lock and
applied afterwards. A snapshotter task captures the projection, compacts the log
behind it and prunes old envelopes while all this goes on. The engine reads a
trader's escrow from the contract when an order is admitted, and pays from it
when a batch settles, minutes later.

What is hard here: state checked before an await and used after it; two locks
with a window between them; an append that fails after it spent its sequence
numbers, or that fails and is durable all the same; crashes between writing a
snapshot, compacting and pruning; replay as a second implementation of every
state change; a settlement of two transactions whose timeout may fire while either
is out, retried beside what recovery and the operator do for the same matches;
escrow whose cooldown races the settlement; two settlement arms for one auction;
comparisons of integers in a field that wraps; one order encoded at four places that
must agree; nonces, permits and ownership checked in one critical section and used in
another; a boot of many stages that must refuse before it acts, over files, keys and
logs that other processes left. `PROJECT.json` lists these hazards at their lines.

## Modules

| Module | Models | State and actions |
|---|---|---|
| `Auction` | `dp-auction/src/lib.rs` | operators only: `compute_clearing_price`, `match_orders`, `run` |
| `AuctionRounds` | a book that grows and clears | `insert_order`, `RunRound` |
| `Engine` | `engine.rs`, `tick.rs`, `state.rs`, `book.rs`, replay in `recover.rs` | one action per critical section |
| `Recovery` | `snapshot.rs`, `recover.rs`, `file_store.rs`, `file_snapshot.rs` | appends, the snapshotter's steps, damage, `Restart` |
| `Settlement` | `tick.rs` (proving), `inline.rs`, `batch.rs`, `eth_submitter.rs`, the session arm of `DarkPool.sol`, batches in `recover.rs` | steps of the tick, of `submit_session`, mining, `Restart` |
| `DarkPool` | `DarkPool.sol` | one action per external function, one step per settled match |
| `StepCircuit` | `step_circuit.rs`, `commitment_circuit.rs`, `merkle.rs`, `encoding.rs` | operators only: encodings and constraint families |
| `Proving` | admission's derivations, `build_batch_witness`, `inline.rs`, `folding.rs`, `dp-client`, `dp-zk-wasm` | `place_encrypted_order`, `FoldRound`, any step the constraints admit, `Verify` |
| `SingleUse` | what sign-in promises | `Issue`, `Login`, `Lapse` |
| `Sessions` | `siwe.rs`, `auth.rs`, `handler.rs`, `admin.rs`, the order and auth routes of `rest.rs` | one action per critical section of a handler; `ClockTick` |
| `TokenBuckets` | what the rate limiter promises | `Serve`, `Refill` |
| `Gateway` | `ratelimit.rs`, the stream limiter of `rest.rs` | requests, eviction, the steps of a stream task |
| `Node` | `main.rs`, `config.rs`, `tls.rs`, `dp-crypto` | boot stages, key administration, files, drain, `Kill` |
| `DarkPoolProofs`, `RecoveryProofs`, `SettlementProofs`, `SessionsProofs`, `GatewayProofs`, `NodeProofs`, `ProvingProofs`, `EngineProofs` | theorems about the module each is named after; `EngineProofs` also about `AuctionRounds` | |
| `MC*` | instances for TLC | |

### Auction and AuctionRounds

Prices and sizes are small integers in units of the last decimal place, so the
midpoint of two prices is halved and rounded half to even as `round_dp` does.
The greedy two-pointer loop is a fold over the pairs in its order. The properties
compare it with reference definitions that do not mention the algorithm: the most
volume any price can execute, who may be filled before whom, what may be left.
`AuctionRounds` (`RoundsSpec`) runs it on books that earlier rounds have partly filled.

### Engine

`log` maps sequence numbers to events; an order's id is the number of its
`OrderPlaced` event. `book`, `status` and the three spent sets are the
projection. A placement is three critical sections (`SubmitOrder`,
`ValidateOrder`, `persist_order_placed`), with `RejectOrder` for every error
between them. The tick holds the mutex from `ExpireOrders` to `ReleaseLock`
(`lock = "tick"`), one step per pair, and then proves chunk by chunk without it.
`dropping` holds the ids whose `drop_secret` is still to come: the window between
the two locks in `cancel_order` and `delist_pair`.

An append gives the events their numbers and makes them durable, or it fails
(`AppendFails`): the numbers are spent and, with `TornAppends`, a prefix of the
events may be durable although the caller is told otherwise. `FileStore` does this
when `flush` or `sync_all` fails and the buffer is written by a later append;
`PgStore` when its timeout fires during COMMIT (it never keeps a proper prefix).
Without `TornAppends` a failed append leaves no trace. `unacked` collects the
numbers of events that are durable although their append failed: the replay of the
log then holds more than the live state, so `LiveIsReplay` is claimed only while
`unacked` is empty, and `ReplayKeysSpentOnce` counts acknowledged events only.

`Restart` is a crash and a full replay with `replay_event`; the secrets are gone
and `boot_seq` remembers which orders are older than the process. Ciphertexts are
model values with a fixed plaintext, so decryption, proofs and the balance answer
are only ever a reason to reject.

### Recovery

The projection is abstracted to the set of events applied to it: what the events
do is Engine's business, which of them survive is this module's. The snapshotter
reads its trigger, captures under the lock, writes, compacts and prunes in
separate steps, each of which may fail as in the code, and a crash may come
between any two. An envelope, or the listing of the store, may become unreadable.
`Restart` follows `recover`: the newest readable envelope and the events behind
it, with the two checks that make it refuse.

### Settlement

The way of a match from the log to the chain. The matches of a chunk are one row,
and the chunk doubles as the id of its batch; a settlement chain `zN[3]` is the
sequence of the rows hashed into it, so that the contract's binding check is
equality of sequences. The engine's task is sequential (`tick`, and `sub` for the
submission it awaits), one step per critical section, await and transaction. The
accumulator of a pair keeps every row it has folded. A batch has its rows, its
payload (the proof's chain, or none), the `submitting` flag, and `ready`, which is
false while the backoff runs.

Faults are counted against one bound: a witness, fold or proof that fails, an append
that fails, a timeout or RPC error with the transaction mined later or dropped, a
transaction that reverts for a reason outside the module. A batch that the poison
gate stops may be replayed by the operator through `submitBatch` (`ManualReplay`,
from the error message "manual replay required"), whose event the watcher delivers, or
loses when its subscription is made anew (`run_once`).
`Restart` loses accumulators and subscriptions, replays the log behind the snapshot
and re-aggregates orphaned matches, as far as the aggregator accepts them. The
snapshot here is the latest and readable; the rest is Recovery's business, as is the
window between the watcher's append and its application, which is one step here.

### DarkPool

A slot is an account and a token; the ledger holds what Solidity's mappings hold
for it and, as history, when the latest unreserve was requested and the least that
has been reserved since. A settlement works on a copy of the ledger, one match per
step, and `Commit` writes it back with the replay guards; `Revert` is the checked
subtraction that underflows. No other call runs in between, and only EOAs and
standard tokens are assumed, so the guards that the code sets before the loop are
set at `Commit`. Ids stand for their domain-separated hashes. `held` is the token
contracts' side, external to the code; a deposit may deliver less than asked.

### StepCircuit and Proving

A field element is an integer modulo a small prime, and prices, sizes, balances and
the differences the circuit ranges over keep their relative widths: the real sizes
(60 and 120 bits against 254) satisfy `CircuitAssumption`, which is all the argument
uses. Poseidon is collision free, so a commitment is the record of its inputs, a
chain the sequence it folds, a root the set of its leaves. Each family of constraints
is one operator, gated by `is_active` exactly where the circuit multiplies by it.

`Proving` runs them from two sides. `FoldRound` is this engine's step: the rows that
`build_rows` makes of the tick's matches from its own secrets, the admitted set of its
book, the default policy. `BeginStep`, `AssignRow` and `CloseStep` are a prover bound
by the constraints alone, who may assign any witness of `Rows`, name another policy or
admit a commitment nobody published. `row`, `accepted` and `skipped` are set by the
step that produced them and cleared by the next. Admission takes two payloads: the
one its trader proved and the one that arrives in the ciphertext. The client's
encoders are written down beside the engine's, and a decimal may have more digits
than the scale. A payload whose side is neither 0 nor 1 does not deserialize
(side.rs:5-10) and is refused; a chunk never has more matches than the engine's batch
size (tick.rs:448).

Of sides and funds the circuit asks only that the two legs be opposite, that each row be covered
by the balance it names and that positions stay within the limit. Balances and
positions are the prover's own witnesses (the engine's positions are always zero), and
no debit is carried from row to row: that funds suffice for a batch is the contract's
business, not the proof's. `verify_final` compares every copy except `n_steps`.

### Sessions and SingleUse

The nonce store is a map and a count per client, kept together. `CheckMessage` is
what a verify call does before the store's lock, `consume` what it does under it, so
two calls of one message can be between the two. A cancellation is `CheckCancel`, the
lookup of the owner, and `cancel_order`, by id alone. `Headers` are all a request can
carry: any token issued, a forged one, none, and any configured key. Times are
relative (a nonce has an age, a message and a token the time left), so the clock runs
for ever in a finite state space. The order remembers why it left the book.

`SingleUse` is the promise: a challenge is issued once and opens at most one session
while it is outstanding. `LoginPromise` maps its `outstanding` to the nonces of the
store that have not expired and its `opened` to the sessions of each nonce.

### Gateway and TokenBuckets

A request has a principal that really made it, the hops it came over and the headers
its client made up; `client_key` resolves the key from what the code sees. Buckets
saturate in age, so time is unbounded here too. A stream task passes through the
phases of `try_acquire` and of the guard's `Drop`, and `strong_count` is computed from
who holds a reference, as `Arc` counts it. `TokenBuckets` is one bucket per principal
that is never forgotten; `BucketPromise` maps its `level` to `Level`, that of an absent
bucket included. It rests on `StaleAfter * Rate >= Capacity`, which the defaults
satisfy with much to spare and which `Config` does not enforce.

### Node

One process after another over the same durable state. `BootOrder` is the order of
`main.rs`; each stage proceeds or refuses, and `Kill` may come anywhere. An option is
a flag; those whose value matters have a second one (`session_secret_short`). The key
ring is the sequence that `MultiKeyDecrypter` keeps, in insertion order, seeded by the
configuration and changed by the operator's routes. Clients keep the published key for
its cache time. Certificate and key are two files with a version each, read by the two
listeners at different stages and by `SIGHUP` for the REST listener only.

The operator is assumed to keep a key configured, and not to delete it, while a client
may hold it (`quiet`): the runbook's order of steps. Keys registered at run time are
not persisted, so a restart needs them in the configuration. If the gRPC server cannot
start (files that do not match), its task ends and nothing looks at it until shutdown
(main.rs:492-529); `ListenGrpc` models this, and no property claims otherwise.

## Runs

| Run | Question | Result |
|---|---|---|
| `auction_rounds` | does matching maximise volume, respect limits, priority and sizes, and leave nothing tradable? | holds |
| `engine_races` | do admission, cancel, delist and tick keep the live state consistent and spend each ciphertext, nullifier and nonce once, interleaved and with an append that fails, durable or not? | holds |
| `engine_failures` | is the live state the replay of the log after clean failures and a restart, are fills conserved, expired orders never matched, and does nothing that left the book return? | holds |
| `recovery_boot` | is a boot exact or rightly refused, and is nothing replayed twice? | holds |
| `recovery_loss` | no "wrong state on restart" (recover.rs) | violated by a snapshot keyed at a spent number |
| `settlement_retries` | are rows paid once, confirmations true and no submitted batch forgotten, and do retries settle what can still be settled? | holds |
| `settlement_chunks` | "every chunk stays settleable" (tick.rs) | violated by an auction of two chunks |
| `darkpool` | does escrow obey its cooldown, do the books balance in mid-settlement, and does an auction settle once, whichever arm? | holds |
| `proving` | does the circuit accept only trades between integers, does a verified proof bind its batch, and can what was admitted be proved? | holds, but for the reasons `Excused` names |
| `sessions` | does a nonce open one session, does every act trace back to a signed message or an operator key, and do nonce slots come back? | holds |
| `gateway` | is every request charged to who made it, is the stream cap kept, and does a refused client get in again? | holds |
| `node` | is the log read or the boot refused, do published keys work, do refusals leave no trace, are listeners safe, does shutdown end? | holds |

A violated run is a disagreement between the code and what a comment or document
says of it; `findings` in `PROJECT.json` quotes the line. The counterexamples are
short: TLC prints them in a second.

More disagreements are known and have no run. An order cancelled after its match and
before its proof leaves a match that is never proved, although a gate is to guarantee
that "no unsettleable" match "is ever persisted" (tick.rs:334-335): `cancel_order` drops
the secret (engine.rs:912-913) that the proof needs; `SecretsFollowOrders` says that a
withdrawal is the only way to such a match. The watermark of a snapshot need not match
"exactly what was serialised" (engine.rs:232), since confirmations are appended without
the lock (batch.rs:225); `NoDoubleReplay` holds because replaying one changes nothing.
A pending request does let "a matched trader escape settlement" (DarkPool.sol:104-105)
when it is older than the match: the oracle reads `reserved`, which includes what is
about to be released (balance_oracle.rs:105). A failed but durable append
breaks the "lockstep" of live spent sets and replay that `engine.rs` (888-889)
describes; this is the condition on `LiveIsReplay` above. And the clearing price
counts volume that self-trade prevention then refuses to execute, so it need not be
"the price that maximizes matched volume" (overview.md:66) when a trader
crosses itself. A failed append just behind the latest snapshot makes the next boot
refuse although "a gap means compaction removed events" (recover.rs:176), and with
the latest snapshot unreadable the older ones are useless once the log is compacted
behind the latest, although they are kept so that "a corrupt latest does not strand
recovery" (snapshot.rs:63). `ivc_round` is not part of a snapshot, so that after a
restart from one the finalization boundary need not fire "at the right offset"
(recover.rs:671). A failure between `submitSession` and `settleAuction` leaves a
batch whose every retry reverts with "session already submitted"; `RetriesSettle`
names this case (`Spoilt`). `main.rs` wires a `SubprocessAggregator`, whose
`fold_step` always fails, and no watcher: what `Settlement` shows is about the
engine with the aggregator and the watcher it is written for.

Of the parts added around the engine: the encode check at admission is said to make the
clearing price "the one value this gate must guard" (tick.rs:51), but the oracle's
balance is encoded too, and one with more than eight decimals, of a token that has
them, makes every round of its order fail; so does a book of more than 256 orders, the
leaves of the admitted set. `AdmittedProves` names both cases. `dp-client` draws an
order's salt as thirty-two random bytes, most of which are not below the field's order,
and the engine refuses those. It also sends a placeholder for the order proof, which a
node that verifies order proofs refuses. A pair seed is "only applied when the event
log is empty" (config.rs:85-86) while `main.rs` asks whether the registry is; a seed
list cut short by a crash or a bad entry is not taken up again, since its first pairs
are registered. A key URI without a status
"defaults to `@active`" (config.rs:208-209) if it is the first one only; the others are
rotating. The runbook deletes a key once it is drained (key-rotation.md, step 5), and
the next boot refuses if an order of that key is behind no snapshot that opens: replay
decrypts it (`BootReadsLog`).

Bounds. The auction is checked on every book of up to four orders of three
traders, three prices with a gap (so that the midpoint lies between orders) and
two sizes; traders are symmetric. The engine's submissions are chosen so that
orders cross, fill partly, expire while resting, and repeat each other's
ciphertext, nonce or nullifier; six or seven sequence numbers are enough to
register a pair, place two orders, match them partly, cancel the rest and delist.
`engine_races` keeps the clock still and has two placements at once, four submissions
and one failed append; `engine_failures` has one placement at a time, but lets time
pass, so that orders expire, and restarts the process.
Two concurrent placements exhaust the interleavings of interest, since a
placement only conflicts with one other. Recovery has five numbers, two retained
snapshots and one retained event, so that compaction overtakes the older snapshot;
two crashes are needed for a number to be given out again. The contract's
quantities are scaled so that base units, the circuit's precision and the fee all
round; two matches let the second revert after the first moved funds. Two auctions,
one session and one batch id are enough for the two arms to meet over an auction and
for a session to be presented twice; one period of the clock and two calls of the owner
let a cooldown pass and a switch be turned and turned back. The proofs need none of
these bounds.

Settlement has two chunks, of one auction or of two, one fault, one snapshot and one
crash: the fault or the crash can fall between any two steps of a submission, and a
second row is what another batch, a late transaction or an auction id shared by two
chunks can conflict with.

Proving takes the field of 37 elements with two-bit quantities and four-bit solvency
differences, the smallest in which nothing wraps and everything could: the mutant that
ranges over one end of the position only is caught. Two rows to a step, two steps, a
tree of two leaves and three orders let a chunk be padded, an accumulator carry on past
a proof, and the book outgrow the tree. Sessions has two nonces, one per client and one
of the shared anonymous budget, two calls in flight, two wallets and one order: every
check can be overtaken by another call, by expiry and by eviction. Gateway has two
principals, one trusted proxy and one address nobody uses, buckets whose refill takes
two ticks and is cut off at the capacity, and two stream tasks for one permit, enough
for one to open while the other closes. Node boots three times, since a key has to be
rotated in one process and its orders replayed by a later one, with a log of two events,
two keys, two snapshot keys, and configurations that differ in what each check looks at.

Deadlock checking is off where the bounds end the behaviour.

Fairness is always weak. In `Settlement`: of the engine's task (its
loop ticks for ever, `submit_timeout` ends a submission that hangs, and a proof is
taken to end), of mining (a transaction
that stays in the mempool is mined) and of each batch's backoff (time passes).
Nothing obliges the operator, the watcher or the snapshotter to act, and faults and
crashes may stop or go on within the bound: `RetriesSettle` allows a failure to spoil
a batch in the middle of a submission, and demands a confirmation otherwise. In
`Sessions`: of the clean-up task, an interval loop without a condition, and of the
clock; no client has to use or return a nonce. In `Gateway`: of the clock only; clients
may ask without end and eviction need never run. In `Node`: of the timeout that ends an
open stream and of the exit of a process whose tasks have ended; `ShutdownCompletes`
uses nothing else. Every other property is a safety property, the two refinements
included (the abstract specifications state no fairness).

## Proofs

Eight modules hold theorems. Each is proved for every value of the constants that
satisfies the assumption named in the module it is about; no bound of the runs
(`Max...`) is used, except as the natural number it is.

| Module | Theorem | States |
|---|---|---|
| `EngineProofs` | `ReplayIsLive` | `LiveIsReplay` |
| | `RecordedMatchesAreLegal`, `ExpiredOrdersAreNotMatched` | the action properties `MatchesAreLegal`, `ExpiredNotMatched` |
| | `KeysAreSpentOnce`, `SecretsAreKept` | `ReplayKeysSpentOnce`, `SecretsFollowOrders` |
| | `CapacityIsHeld`, `DelistedPairsAreEmpty` | `CapacityHeld`, `DelistedPairIsEmpty`, while `Clean` |
| | `FillsAreConserved` | `FillsConserved`, while `AllAcked` |
| | `OrdersStayAway` | the action property `NoResurrection`, without torn appends |
| | `RoundsFillAcceptably`, `RoundsMaximiseVolume`, `RoundsKeepPriority`, `RoundsLeaveNothingEligible` | `FillsAcceptable`, `RoundMaximisesVolume`, `PriceTimePriority`, `NothingEligibleLeft` of `AuctionRounds` |
| | `EngineRoundsClear` | `TicksClear`: the same of every round the engine can run |
| `DarkPoolProofs` | `TypeCorrect`, `EscrowIsSeasoned`, `RoundsSettleOnce`, `LedgerIsBacked` | `TypeOK`, `EscrowSeasoned`, `SettledOnce`, `LedgerBacked` always hold |
| | `EscrowIsHeld` | the action property `EscrowHeld` |
| `RecoveryProofs` | `NothingReplayedTwice`, `BootsAreExact`, `RefusalsAreNeeded` | `NoDoubleReplay`, `BootIsExact`, `RefusalNeeded` |
| `SettlementProofs` | `NoRowIsPaidTwice`, `ConfirmedBatchesAreSettled`, `NoBatchIsForgotten` | `RowsPaidOnce`, `ConfirmedIsSettled`, `NoBatchForgotten` |
| `SessionsProofs` | `RequestsAuthorised`, `NoncesAccounted` | `ActsAuthorised`, `NonceAccounting` |
| | `SignInIsSingleUse` | `Sessions` implements `SingleUse` |
| `GatewayProofs` | `StreamsAreBounded` | `StreamsBounded` |
| | `OneBucketEach` | `Gateway` implements `TokenBuckets` |
| `NodeProofs` | `RefusedBootWritesNothing`, `ListenersAreSafe`, `BootReadsWholeLog`, `PublishedKeysWork` | `RefusalWritesNothing`, `ListenersSafe`, `BootReadsLog`, `PublishedKeyWorks` |
| `ProvingProofs` | `RowsAreTrades`, `ProofsBindBatches`, `AdmittedOrdersProve` | `RowsMeanTrades`, `ProofBindsBatch`, `AdmittedProves` |

Each module states its inductive invariant first, then one lemma per action that it
keeps it, and the theorems last.

* `EngineProofs`. `Inv` types the log, the book and the tasks, and says that acknowledged
  placements have spent their keys and that the tick, which holds the lock, matches
  Active pairs only; it holds with torn appends and restarts. Four results rest on it:
  - the auction: `SortedSide` lists a side by rank, and the greedy loop is followed fill
    by fill (`Legal`, `Trace`): each fill is of two orders that have it left;
  - `LiveIsReplay`: each action applies to the book what `replay_event` makes of the events
    it appends. For a round this needs that its fills applied together, with the empty
    orders removed at the end, are the fills applied one at a time
    (`RoundIsItsMatches`); for a delisting, that its cancels come in any order;
  - `CapacityHeld`, `DelistedPairIsEmpty`, `NoResurrection`: every step only removes
    orders (`Shrinks`), places one that passed the checks (`Places`), or is a restart, which
    by `LiveIsReplay` changes nothing;
  - `FillsConserved`: `NoLegSkipped` shows that what the allocation has left and what the
    book has left agree, so no leg is skipped, and a match adds to the sum over the log
    (`SumAdds`) what it takes from the book.

  `SecretsFollowOrders` has an invariant of its own, `SecretInv`: the legs of a chunk still
  to be proved have their secrets or were withdrawn after the match (`ChunkOK`), and a
  secret about to be dropped belongs to a cancel after all of those (`DroppingOK`).

  The rounds of `AuctionRounds` are proved here too, because they need the same facts of
  the allocation. `RoundsInv` says only that a book is well formed and that the book after
  a round is what its fills left of a well-formed one; the rest is about one round, for
  any two sides (`Standing`) and without a state:
  - `Served` holds after every pair the greedy loop has looked at: of the pairs so far that
    may trade, one order is filled to the end, and an order behind another is filled only
    if that one is, or was kept back by self-trade prevention. At the end of the loop this
    is priority, and that nothing eligible is left;
  - the volume a price executes is a minimum of two sums (`Total`), one falling and one
    rising with the price, so the prices that execute the most form an interval: between
    the lowest and the highest tied limit, where the rounded midpoint is, nothing is lost,
    and a price between two limits executes no more than one of them;
  - with no trader on both sides, nothing eligible left means that one side is filled to
    the end, so the volume executed is the volume of the price; and a bid and an ask that
    crossed after the round would have made another price execute more
    (`LowBidDoesNotCross`, `HighAskDoesNotCross`).

  `RunClears` puts this together for any two sides, and `EngineRoundsClear` applies it to
  every book of `Engine`: by `Inv` what rests in a pair is well formed (`BookStands`).
* `DarkPoolProofs`. `IndInv == TypeOK /\ EscrowSeasoned /\ GuardsCount`. That a
  settlement keeps amounts natural rests on `Settleable` and on
  `pendingUnreserve <= low <= reserved`; `GuardsCount` says that the replay guards are
  exactly the auctions and sessions with one settlement and that those of a transaction
  in progress have none, which is why `Commit` cannot count twice. `LedgerIsBacked` adds
  that a match moves what it takes: the two debits are the three credits, whatever is
  rounded. The sum over the accounts is unfolded once (`TotalUnfolds`) and a change of
  one slot shown to change it by as much (`TotalAdds`), both by induction on the number
  of accounts, which is assumed finite.
* `RecoveryProofs`. `Disjoint`: no snapshot, written or in the making, holds an event of
  the log behind it. `Dense`, as long as no append has failed: the log is a suffix of the
  events and each snapshot is exactly what lies before it. The condition is necessary: a
  failed append spends a number, and `recovery_loss` shows what that can do.
* `SettlementProofs`. `RowsPaidOnce` needs all of it: what is in flight, pending, in the
  snapshot or in the log for a row agrees with what the contract has recorded (`Carried`,
  `Guarded`), a receipt belongs to the transaction the submission awaits (`Answered`), and
  a batch the log has open is pending or about to be rebuilt (`Remembered`). `Restart` is
  a loop over the log; `ReplayStep` shows one event of it and `ReplayedIsSound` all.
* `SessionsProofs`. `AuthInv` carries a check over the gap to the act: a call past its
  check is for a message signed for this site, or for an order of its caller. For
  `NonceAccounting` a count per client is shown equal to the cardinality it stands for
  through every insert, removal and sweep. The refinement maps each step to a step of
  `SingleUse` or a stutter.
* `GatewayProofs`. `Held` and `Own`: the semaphore a task holds is the one in the map, and
  is nobody else's, so an entry is dropped only when no one can come back to it. For the
  buckets, `client_key` is shown to be the principal behind any chain of trusted proxies
  and forged headers, and eviction to forget only buckets that are full again.
* `NodeProofs`. `Stages` says what is loaded, written and checked at each stage of the
  boot, `KeysKept` that a key a client may still hold is configured and in the ring;
  `RingFromIds` follows the loop that builds the ring.
* `ProvingProofs`. The circuit first, without a state: a gated range check over a
  difference of two field elements orders them as integers (`GatedOrder`), a product of
  two ranged values does not wrap, a position within its limit in the field is within it
  as a signed integer (`PositionHeld`). Then `ProvingInv`: an accumulator's chain is that
  of the rows folded into it, each attested by the circuit and with both legs in the
  admitted set of one of the steps; the open step extends it; what was accepted is a copy.
  `AdmittedProves` has an invariant of its own, `AdmitInv`: a resting order has the
  commitment of its payload and encodes, its secrets are those the commitment opens to,
  and a skipped round is excused. Commitments are injective, so what was proved is what
  was placed (`ProvedIsPlaced`); a match of two such orders that nothing excuses is a
  `Trade`, and a `Trade` satisfies each family of constraints in turn
  (`TradeSatisfies`, `TradeSatisfiesRound`), also beside other matches and padding.

The assumptions, beyond the types of the constants, and where they come from:

* `EngineAssumption`: types only. The conditions are in the theorems. `AllAcked`: no refused
  append has left an event in the log; always so without `TornAppends` (`AcksKept`).
  `Clean`: the same, or no restart so far. They are necessary: a boot turns a refused
  placement in the log into a resting order past every check, and a round that was refused
  but written is in the log and not in the book.
* `RoundsAssumption`: prices and sizes are positive, and the prices orders may name are
  finitely many, at least one; `PricesAround` is the set up to the greatest of them.
* `DarkPoolAssumption`: finitely many accounts; the fee is at most the whole.
* `SessionsAssumption`: challenges are numbered as they are issued (a random nonce is
  never drawn twice); no wallet is called like an order's state.
* `GatewayAssumption`: a bucket that is evicted is full (`StaleAfter * Rate >= Capacity`);
  a request's client is not a trusted proxy, and all hops before it are.
* `NodeAssumption`: `NoKey` is not a key; the cache time is not zero.
* `CircuitAssumption`: the widths leave room in the field
  (`SCALE_FACTOR * 2^SIZE_BITS <= 2^SOLVENCY_DIFF_BITS` and
  `2^SOLVENCY_DIFF_BITS + 2^SIZE_BITS * 2^SIZE_BITS <= P`; in the code 10^8 and 60, 120
  and 254 bits). `FieldAssumption`: the field has no zero divisors.
* `ProvingAssumption`: witnesses are field elements; a policy's values are encoded
  decimals (step_circuit.rs:163), and the position limit is not negative and less than half of
  the range (2^58 of 2^60 by default, witness.rs:74). For `AdmittedProves`: an order is a
  record of the fields the ciphertext has, prices, sizes and balances are integers in
  halves of the last encoded digit, the default policy's minima are at most one encoded
  unit (1e-8, witness.rs:70-71), and a chunk fits the rows of a step.

Induction. The library's induction theorems cannot be instantiated here, so the modules
that need one prove it for sets of numbers (`SetInduction`, from the least element of the
complement). A recursive function or a fold is unfolded by showing, by that induction,
that the function it chooses exists.

Checked by TLC only: `RetriesSettle`, `NoncesComeBack`, `RefillsUnderLoad` and
`ShutdownCompletes`, which are liveness and out of the prover's reach; and the properties
of the two violation runs, which are false. Every other property of a run is the
statement of a theorem, under the condition the table names.

## Not modelled

The cryptography itself: Poseidon, the folding scheme, the on-chain verifiers, ECIES and
AES-GCM are ideal; a proof or a ciphertext is valid or not. Operator key rotation and
ownership in the contract: no other state depends on them. Gas and block limits.
`PgStore`'s numbering across restarts and its concurrent writers. The subprocess
aggregator, the Groth16 branch of `submit_batch` (no live batch reaches it), fees and
the private relay, the watcher's backoff. Where key secrets are fetched from,
metrics, tracing and readiness probes. The network side of the client and the front end.
Read-only queries, except for who may see an order. Overflow of 256-bit amounts, which
the contract's checked arithmetic turns into a revert.

## Plan

Done: the modules above, and the theorems about the auction, the engine, the contract,
recovery, settlement, sessions, limits, boot and proofs. Left, in this order:

1. An abstract specification of a batch's life (matched, pending, settled, closed) that
   `Settlement` implements, and one of the engine (a log and the book as a function of it).
2. `Settlement` with `DarkPool` proper in place of its session arm, so that a revert for
   want of escrow is the contract's and not a fault.
