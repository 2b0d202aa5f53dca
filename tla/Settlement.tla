----------------------------- MODULE Settlement ------------------------------
(***************************************************************************)
(* From a recorded match to the chain: the proving half of                 *)
(* run_auction_tick (tick.rs), the folding accumulator (inline.rs),        *)
(* pending batches, submit_batch and its retries (batch.rs), the two       *)
(* transactions of submit_session (eth_submitter.rs), the contract's       *)
(* session arm, the watcher's sink, and what a restart makes of all this   *)
(* (recover.rs).                                                           *)
(*                                                                         *)
(* The matches of a chunk are one row.  A chunk is [auction, k]; it is     *)
(* also the id of the batch made of it, and k = 0 is the batch recovery    *)
(* makes of an auction's orphaned matches.  A settlement chain zN[3] is    *)
(* the sequence of the rows hashed into it.                                *)
(***************************************************************************)
EXTENDS Integers, Sequences, FiniteSets, SequencesExt

CONSTANTS Pairs, finalize_every,
          MaxChunks,       \* bound: chunks of all auctions together
          MaxFaults,       \* bound: failing proofs, appends, calls and transactions
          MaxSnapshots,    \* bound: snapshots taken
          MaxRestarts      \* bound: crashes of the process

ASSUME SettlementAssumption ==
    /\ finalize_every \in Nat \ {0}
    /\ MaxChunks \in Nat
    /\ MaxFaults \in Nat /\ MaxSnapshots \in Nat /\ MaxRestarts \in Nat

VARIABLES
    log,              \* the durable events that settlement depends on
    auctions,         \* history: the pair and number of chunks of each auction
    pending_batches,  \* batch id -> [rows, payload, submitting, ready]
    ivc,              \* pair -> the rows folded into its accumulator
    ivc_round,        \* pair -> rounds folded
    tick,             \* progress of run_auction_tick
    sub,              \* the submit_batch in progress
    mempool,          \* transactions sent and not mined, by nonce
    chain,            \* the contract, and the events its watcher has not seen
    snapshot,         \* the latest snapshot
    faults, snapshots, restarts

vars == <<log, auctions, pending_batches, ivc, ivc_round, tick, sub, mempool, chain,
          snapshot, faults, snapshots, restarts>>
bounds == <<faults, snapshots, restarts>>

AuctionIds == 1..MaxChunks
Chunks == [auction : AuctionIds, k : 1..MaxChunks]
BatchIds == [auction : AuctionIds, k : 0..MaxChunks]

Rows(a) == [k \in 1..auctions[a].chunks |-> [auction |-> a, k |-> k]]

NoPayload == <<>>     \* ivc_payload: None; a proof has folded one row at least
Idle == [pc |-> "idle"]
NoSubmit == [pc |-> "none"]

With(f, k, v) == [x \in DOMAIN f \cup {k} |-> IF x = k THEN v ELSE f[x]]
Without(f, k) == [x \in DOMAIN f \ {k} |-> f[x]]

Fault == faults < MaxFaults /\ faults' = faults + 1 /\ UNCHANGED <<snapshots, restarts>>

-----------------------------------------------------------------------------
(* The tick: matching, seen from here.                                     *)

StartTick ==
    /\ tick = Idle
    /\ tick' = [pc |-> "matching", pairs |-> Pairs, todo |-> <<>>, queue |-> <<>>]
    /\ UNCHANGED <<log, auctions, pending_batches, ivc, ivc_round, sub, mempool, chain, snapshot, bounds>>

(* An auction of pair p whose matches fill n chunks; none if nothing       *)
(* matches or its events cannot be persisted.                              *)
MatchPair(p, n) ==
    /\ tick.pc = "matching" /\ p \in tick.pairs
    /\ n + FoldSeq(LAMBDA au, sum : sum + au.chunks, 0, auctions) <= MaxChunks
    /\ LET a == Len(auctions) + 1
           more == [k \in 1..n |-> [auction |-> a, k |-> k]]
       IN  /\ auctions' = IF n = 0 THEN auctions ELSE Append(auctions, [pair |-> p, chunks |-> n])
           /\ log' = IF n = 0 THEN log ELSE Append(log, [type |-> "AuctionExecuted", auction |-> a])
           /\ tick' = [tick EXCEPT !.pairs = @ \ {p}, !.todo = @ \o more]
    /\ UNCHANGED <<pending_batches, ivc, ivc_round, sub, mempool, chain, snapshot, bounds>>

LockFree == tick.pc # "matching"     \* tick_under_lock holds the state mutex

EndMatching ==
    /\ tick.pc = "matching" /\ tick.pairs = {}
    /\ tick' = [pc |-> "proving", todo |-> tick.todo, queue |-> <<>>]
    /\ UNCHANGED <<log, auctions, pending_batches, ivc, ivc_round, sub, mempool, chain, snapshot, bounds>>

-----------------------------------------------------------------------------
(* The tick: folding and finalizing, chunk by chunk.                       *)

Chunk == Head(tick.todo)
PairOf(c) == auctions[c.auction].pair
NextChunk == [tick EXCEPT !.pc = "proving", !.todo = Tail(@)]

(* The aggregator: one accumulator a pair, which finalize leaves as it is. *)
fold_step(p, c) == [ivc EXCEPT ![p] = Append(@, c)]
finalize(p) == ivc[p]

(* The witness, the circuit's inputs or fold_step fails.                   *)
SkipChunk ==
    /\ tick.pc = "proving" /\ tick.todo # <<>>
    /\ tick' = NextChunk
    /\ Fault
    /\ UNCHANGED <<log, auctions, pending_batches, ivc, ivc_round, sub, mempool, chain, snapshot>>

(* A BatchFolded event that cannot be persisted is only logged.            *)
FoldChunk ==
    /\ tick.pc = "proving" /\ tick.todo # <<>>
    /\ LET p == PairOf(Chunk)
           round == ivc_round[p] + 1
       IN  /\ ivc' = fold_step(p, Chunk)
           /\ ivc_round' = [ivc_round EXCEPT ![p] = round]
           /\ \/ /\ log' = Append(log, [type |-> "BatchFolded", pair |-> p, round |-> round])
                 /\ UNCHANGED bounds
              \/ Fault /\ UNCHANGED log
           /\ tick' = IF round % finalize_every = 0 THEN [tick EXCEPT !.pc = "finalizing"]
                      ELSE NextChunk
    /\ UNCHANGED <<auctions, pending_batches, sub, mempool, chain, snapshot>>

(* BatchSubmitted and the pending batch, under the state lock; or the      *)
(* proof, its settlement rows or the append fails.                         *)
finalize_pending_batch ==
    /\ tick.pc = "finalizing"
    /\ \/ /\ log' = Append(log, [type |-> "BatchSubmitted", batch |-> Chunk])
          /\ pending_batches' = With(pending_batches, Chunk,
                [rows |-> <<Chunk>>, payload |-> NoPayload, submitting |-> FALSE, ready |-> TRUE])
          /\ tick' = [tick EXCEPT !.pc = "storing"]
          /\ UNCHANGED bounds
       \/ Fault /\ tick' = NextChunk /\ UNCHANGED <<log, pending_batches>>
    /\ UNCHANGED <<auctions, ivc, ivc_round, sub, mempool, chain, snapshot>>

(* The proof's state joins the batch in a second critical section.         *)
StorePayload ==
    /\ tick.pc = "storing"
    /\ pending_batches' = IF Chunk \in DOMAIN pending_batches
                          THEN [pending_batches EXCEPT ![Chunk].payload = finalize(PairOf(Chunk))]
                          ELSE pending_batches
    /\ tick' = [NextChunk EXCEPT !.queue = Append(@, Chunk)]
    /\ UNCHANGED <<log, auctions, ivc, ivc_round, sub, mempool, chain, snapshot, bounds>>

EndProving ==
    /\ tick.pc = "proving" /\ tick.todo = <<>>
    /\ tick' = [pc |-> "submitting", queue |-> tick.queue, skip |-> ToSet(tick.queue)]
    /\ UNCHANGED <<log, auctions, pending_batches, ivc, ivc_round, sub, mempool, chain, snapshot, bounds>>

-----------------------------------------------------------------------------
(* Submission.                                                             *)

(* The head of submit_batch: the submitting flag, a copy of the batch, and *)
(* the poison gate, which leaves the flag set.                             *)
submit_batch(b) ==
    IF b \notin DOMAIN pending_batches \/ pending_batches[b].submitting
    THEN UNCHANGED <<pending_batches, sub>>
    ELSE LET pb == pending_batches[b]
         IN  /\ pending_batches' = [pending_batches EXCEPT ![b].submitting = TRUE]
             /\ sub' = IF pb.payload = NoPayload THEN NoSubmit
                       ELSE [pc |-> "session", batch |-> b, rows |-> pb.rows,
                             payload |-> pb.payload, receipt |-> "none"]

SubmitQueued ==
    /\ tick.pc = "submitting" /\ sub = NoSubmit /\ tick.queue # <<>>
    /\ submit_batch(Head(tick.queue))
    /\ tick' = [tick EXCEPT !.queue = Tail(@)]
    /\ UNCHANGED <<log, auctions, ivc, ivc_round, mempool, chain, snapshot, bounds>>

(* The batches whose backoff is over, read under the lock.                 *)
resubmit_pending_except ==
    /\ tick.pc = "submitting" /\ sub = NoSubmit /\ tick.queue = <<>>
    /\ tick' = [pc |-> "retrying",
                ids |-> {b \in DOMAIN pending_batches \ tick.skip : pending_batches[b].ready}]
    /\ UNCHANGED <<log, auctions, pending_batches, ivc, ivc_round, sub, mempool, chain, snapshot, bounds>>

ResubmitOne ==
    /\ tick.pc = "retrying" /\ sub = NoSubmit
    /\ \E b \in tick.ids : submit_batch(b) /\ tick' = [tick EXCEPT !.ids = @ \ {b}]
    /\ UNCHANGED <<log, auctions, ivc, ivc_round, mempool, chain, snapshot, bounds>>

EndTick ==
    /\ tick.pc = "retrying" /\ sub = NoSubmit /\ tick.ids = {}
    /\ tick' = Idle
    /\ UNCHANGED <<log, auctions, pending_batches, ivc, ivc_round, sub, mempool, chain, snapshot, bounds>>

(* Defective: the batch stays marked as in flight.                         *)
note_submit_failure_in_flight(b) ==
    /\ pending_batches' = IF b \in DOMAIN pending_batches
                          THEN [pending_batches EXCEPT ![b].ready = FALSE]
                          ELSE pending_batches
    /\ sub' = NoSubmit

note_submit_failure(b) ==
    /\ pending_batches' = IF b \in DOMAIN pending_batches
                          THEN [pending_batches EXCEPT ![b].submitting = FALSE, ![b].ready = FALSE]
                          ELSE pending_batches
    /\ sub' = NoSubmit

(* compute_backoff has run out for b.                                      *)
BackoffElapses(b) ==
    /\ ~pending_batches[b].ready
    /\ pending_batches' = [pending_batches EXCEPT ![b].ready = TRUE]
    /\ UNCHANGED <<log, auctions, ivc, ivc_round, tick, sub, mempool, chain, snapshot, bounds>>

Send(kind, data) ==
    Append(mempool, [kind |-> kind, batch |-> sub.batch, data |-> data, awaited |-> TRUE])

SendSession ==
    /\ sub.pc = "session"
    /\ mempool' = Send("session", sub.payload)
    /\ sub' = [sub EXCEPT !.pc = "session sent"]
    /\ UNCHANGED <<log, auctions, pending_batches, ivc, ivc_round, tick, chain, snapshot, bounds>>

AwaitSession ==
    /\ sub.pc = "session sent"
    /\ \/ /\ sub.receipt = "ok"
          /\ sub' = [sub EXCEPT !.pc = "settle", !.receipt = "none"]
          /\ UNCHANGED pending_batches
       \/ sub.receipt = "reverted" /\ note_submit_failure(sub.batch)
    /\ UNCHANGED <<log, auctions, ivc, ivc_round, tick, mempool, chain, snapshot, bounds>>

SendSettle ==
    /\ sub.pc = "settle"
    /\ mempool' = Send("settle", sub.rows)
    /\ sub' = [sub EXCEPT !.pc = "settle sent"]
    /\ UNCHANGED <<log, auctions, pending_batches, ivc, ivc_round, tick, chain, snapshot, bounds>>

(* Defective: a receipt is taken for a success.                            *)
AwaitSettleUnchecked ==
    /\ sub.pc = "settle sent" /\ sub.receipt # "none"
    /\ sub' = [sub EXCEPT !.pc = "confirm"]
    /\ UNCHANGED <<log, auctions, pending_batches, ivc, ivc_round, tick, mempool, chain, snapshot, bounds>>

AwaitSettle ==
    /\ sub.pc = "settle sent"
    /\ \/ sub.receipt = "ok" /\ sub' = [sub EXCEPT !.pc = "confirm"] /\ UNCHANGED pending_batches
       \/ sub.receipt = "reverted" /\ note_submit_failure(sub.batch)
    /\ UNCHANGED <<log, auctions, ivc, ivc_round, tick, mempool, chain, snapshot, bounds>>

(* Nobody waits any more for the transaction that is out, the last one     *)
(* sent: it is mined later, or dropped.                                    *)
Unawaited == [i \in DOMAIN mempool |-> [mempool[i] EXCEPT !.awaited = FALSE]]
Dropped == IF mempool # <<>> /\ Last(mempool).awaited THEN Front(mempool) ELSE mempool

(* submit_timeout, or an RPC error, anywhere on the way.                   *)
SubmitFails ==
    /\ sub.pc \in {"session", "session sent", "settle", "settle sent"}
    /\ note_submit_failure(sub.batch)
    /\ mempool' \in {Unawaited, Dropped}
    /\ Fault
    /\ UNCHANGED <<log, auctions, ivc, ivc_round, tick, chain, snapshot>>

(* BatchConfirmed is appended without the state lock ...                   *)
PersistConfirmed ==
    /\ sub.pc = "confirm"
    /\ \/ /\ log' = Append(log, [type |-> "BatchConfirmed", batch |-> sub.batch])
          /\ sub' = [sub EXCEPT !.pc = "apply"]
          /\ UNCHANGED <<pending_batches, bounds>>
       \/ note_submit_failure(sub.batch) /\ Fault /\ UNCHANGED log
    /\ UNCHANGED <<auctions, ivc, ivc_round, tick, mempool, chain, snapshot>>

(* ... and applied under it.                                               *)
ApplyConfirmed ==
    /\ sub.pc = "apply"
    /\ pending_batches' = Without(pending_batches, sub.batch)
    /\ sub' = NoSubmit
    /\ UNCHANGED <<log, auctions, ivc, ivc_round, tick, mempool, chain, snapshot, bounds>>

-----------------------------------------------------------------------------
(* The chain: transactions of one sender, in the order of their nonces.    *)

(* The contract's conditions ...                                           *)
SessionAccepted(b) == b \notin DOMAIN chain.sessions

(* Defective: the guard shared with submitBatch is missing (#214).         *)
SettleAcceptedOneArm(b, rows) ==
    /\ b \in DOMAIN chain.sessions
    /\ b \notin chain.sessionSettled
    /\ chain.sessions[b] = rows

SettleAccepted(b, rows) ==
    /\ b \in DOMAIN chain.sessions
    /\ b.auction \notin chain.settledAuction
    /\ b \notin chain.sessionSettled
    /\ chain.sessions[b] = rows

(* ... and effects.                                                        *)
submitSession(b, zN) == [chain EXCEPT !.sessions = With(@, b, zN)]

settleAuction(b, rows) ==
    [chain EXCEPT !.settledAuction = @ \cup {b.auction}, !.sessionSettled = @ \cup {b},
                  !.paid = @ \o rows]

Accepted(tx) ==
    IF tx.kind = "session" THEN SessionAccepted(tx.batch) ELSE SettleAccepted(tx.batch, tx.data)

Executed(tx) ==
    IF tx.kind = "session" THEN submitSession(tx.batch, tx.data) ELSE settleAuction(tx.batch, tx.data)

Receive(tx, receipt) ==
    sub' = IF tx.awaited THEN [sub EXCEPT !.receipt = receipt] ELSE sub

(* A transaction reverts because the contract refuses it, or for a reason  *)
(* outside this module: the contract is paused, gas, a trader's escrow.    *)
Mine ==
    /\ mempool # <<>>
    /\ mempool' = Tail(mempool)
    /\ LET tx == Head(mempool)
       IN  \/ Accepted(tx) /\ chain' = Executed(tx) /\ Receive(tx, "ok") /\ UNCHANGED bounds
           \/ ~Accepted(tx) /\ Receive(tx, "reverted") /\ UNCHANGED <<chain, bounds>>
           \/ Accepted(tx) /\ Fault /\ Receive(tx, "reverted") /\ UNCHANGED chain
    /\ UNCHANGED <<log, auctions, pending_batches, ivc, ivc_round, tick, snapshot>>

(* "Manual replay required": the operator settles a batch the poison gate  *)
(* has stopped, with a proof of its own, through submitBatch.              *)
ManualReplay(b) ==
    /\ pending_batches[b].payload = NoPayload /\ pending_batches[b].submitting
    /\ pending_batches[b].rows # <<>>
    /\ b.auction \notin chain.settledAuction
    /\ chain' = [chain EXCEPT !.settledAuction = @ \cup {b.auction},
                              !.paid = @ \o pending_batches[b].rows,
                              !.logs = @ \cup {b}]
    /\ UNCHANGED <<log, auctions, pending_batches, ivc, ivc_round, tick, sub, mempool, snapshot, bounds>>

(* The watcher delivers a BatchSettled log.  (Recovery has the window      *)
(* between its append and its application.)                                *)
on_batch_settled(b) ==
    /\ LockFree
    /\ b \in chain.logs
    /\ chain' = [chain EXCEPT !.logs = @ \ {b}]
    /\ \/ /\ log' = Append(log, [type |-> "BatchSettled", batch |-> b])
          /\ pending_batches' = Without(pending_batches, b)
          /\ UNCHANGED bounds
       \/ Fault /\ UNCHANGED <<log, pending_batches>>
    /\ UNCHANGED <<auctions, ivc, ivc_round, tick, sub, mempool, snapshot>>

(* The watcher's subscription ends and is made anew: it has no backlog, so *)
(* the logs in between are never delivered, like one that does not decode. *)
run_once ==
    /\ chain.logs # {}
    /\ chain' = [chain EXCEPT !.logs = {}]
    /\ UNCHANGED <<log, auctions, pending_batches, ivc, ivc_round, tick, sub, mempool, snapshot, bounds>>

-----------------------------------------------------------------------------
(* Snapshots and restarts.                                                 *)

(* Defective: pending batches are left out.                                *)
to_serializable_no_batches == <<>>

(* next_attempt and submitting are not serialised.                         *)
to_serializable ==
    [b \in DOMAIN pending_batches |->
        [pending_batches[b] EXCEPT !.submitting = FALSE, !.ready = TRUE]]

TakeSnapshot ==
    /\ LockFree
    /\ snapshots < MaxSnapshots
    /\ snapshots' = snapshots + 1
    /\ snapshot' = [seq |-> Len(log), pending |-> to_serializable]
    /\ UNCHANGED <<log, auctions, pending_batches, ivc, ivc_round, tick, sub, mempool, chain,
                   faults, restarts>>

Recovered(rows) == [rows |-> rows, payload |-> NoPayload, submitting |-> FALSE, ready |-> TRUE]

(* st.orphans: the auctions whose matches no BatchSubmitted has taken yet. *)
(* The first batch of an auction takes them all.                           *)
ReplaySubmitted(st, b) ==
    [st EXCEPT !.orphans = @ \ {b.auction},
               !.pending = IF b \in DOMAIN @ THEN @
                           ELSE With(@, b, Recovered(IF b.auction \in st.orphans
                                                     THEN Rows(b.auction) ELSE <<>>))]

replay_event(st, ev) ==
    CASE ev.type = "AuctionExecuted" -> [st EXCEPT !.orphans = @ \cup {ev.auction}]
      [] ev.type = "BatchSubmitted" -> ReplaySubmitted(st, ev.batch)
      [] ev.type \in {"BatchConfirmed", "BatchSettled"} ->
            [st EXCEPT !.pending = Without(@, ev.batch)]
      [] ev.type = "BatchFolded" ->
            [st EXCEPT !.round[ev.pair] = IF ev.round > @ THEN ev.round ELSE @]

Restored == [pending |-> snapshot.pending, orphans |-> {}, round |-> [p \in Pairs |-> 0]]

Replayed ==
    LET st[n \in snapshot.seq..Len(log)] ==
            IF n = snapshot.seq THEN Restored ELSE replay_event(st[n - 1], log[n])
    IN  st[Len(log)]

(* The second pass of recover: a batch for each orphaned auction that the  *)
(* aggregator accepts without a witness.                                   *)
Reaggregated(S) == SetToSeq({[auction |-> a, k |-> 0] : a \in S})

(* A crash and the boot after it: the accumulators are gone, submissions   *)
(* and subscriptions too, and start() first submits what is pending.       *)
Restart ==
    /\ restarts < MaxRestarts /\ restarts' = restarts + 1
    /\ \E S \in SUBSET Replayed.orphans :
          /\ log' = log \o [i \in DOMAIN Reaggregated(S) |->
                              [type |-> "BatchSubmitted", batch |-> Reaggregated(S)[i]]]
          /\ pending_batches' = [b \in DOMAIN Replayed.pending \cup ToSet(Reaggregated(S)) |->
                                    IF b \in DOMAIN Replayed.pending THEN Replayed.pending[b]
                                    ELSE Recovered(Rows(b.auction))]
    /\ ivc_round' = Replayed.round
    /\ ivc' = [p \in Pairs |-> <<>>]
    /\ sub' = NoSubmit
    /\ mempool' = Unawaited
    /\ chain' = [chain EXCEPT !.logs = {}]
    /\ tick' = [pc |-> "retrying", ids |-> DOMAIN pending_batches']
    /\ UNCHANGED <<auctions, snapshot, faults, snapshots>>

-----------------------------------------------------------------------------
Init ==
    /\ log = <<>> /\ auctions = <<>>
    /\ pending_batches = <<>>
    /\ ivc = [p \in Pairs |-> <<>>] /\ ivc_round = [p \in Pairs |-> 0]
    /\ tick = Idle /\ sub = NoSubmit /\ mempool = <<>>
    /\ chain = [sessions |-> <<>>, sessionSettled |-> {}, settledAuction |-> {},
                paid |-> <<>>, logs |-> {}]
    /\ snapshot = [seq |-> 0, pending |-> <<>>]
    /\ faults = 0 /\ snapshots = 0 /\ restarts = 0

(* The steps of the engine's task, which awaits each one.                  *)
RunTask ==
    \/ StartTick
    \/ \E p \in Pairs, n \in 0..MaxChunks : MatchPair(p, n)
    \/ EndMatching
    \/ SkipChunk
    \/ FoldChunk
    \/ finalize_pending_batch
    \/ StorePayload
    \/ EndProving
    \/ SubmitQueued
    \/ resubmit_pending_except
    \/ ResubmitOne
    \/ EndTick
    \/ SendSession
    \/ AwaitSession
    \/ SendSettle
    \/ AwaitSettle
    \/ SubmitFails
    \/ PersistConfirmed
    \/ ApplyConfirmed

Next ==
    \/ RunTask
    \/ Mine
    \/ \E b \in DOMAIN pending_batches : BackoffElapses(b)
    \/ \E b \in DOMAIN pending_batches : ManualReplay(b)
    \/ \E b \in chain.logs : on_batch_settled(b)
    \/ run_once
    \/ TakeSnapshot
    \/ Restart

(* The engine's loop ticks for ever, the chain goes on, time passes.       *)
Fairness ==
    /\ WF_vars(RunTask)
    /\ WF_vars(Mine)
    /\ \A b \in BatchIds : WF_vars(b \in DOMAIN pending_batches /\ BackoffElapses(b))

Spec == Init /\ [][Next]_vars /\ Fairness

-----------------------------------------------------------------------------
Logged(types) == {log[i].batch : i \in {j \in DOMAIN log : log[j].type \in types}}

(* settleAuction, submitBatch (#214): no row is ever paid twice, whichever *)
(* arm settles it first and whatever was retried, left in the mempool,     *)
(* recovered under another id or replayed by hand in between.              *)
RowsPaidOnce == \A i, j \in DOMAIN chain.paid : chain.paid[i] = chain.paid[j] => i = j

(* submit_batch: a batch is confirmed in the log only when the contract    *)
(* has settled it and paid its row.                                        *)
ConfirmedIsSettled ==
    \A b \in Logged({"BatchConfirmed"}) : b \in chain.sessionSettled /\ b \in ToSet(chain.paid)

(* finalize_pending_batch and recover: a batch the log says is submitted   *)
(* and not closed is pending, across snapshots and restarts, so that it is *)
(* retried or its loss reported; it is never forgotten.                    *)
NoBatchForgotten ==
    Logged({"BatchSubmitted"}) \ Logged({"BatchConfirmed", "BatchSettled"})
        \subseteq DOMAIN pending_batches

(* A batch the chain would still settle in full: its proof binds its rows, *)
(* and neither its auction nor its session is on chain or on its way.      *)
Settleable(b) ==
    /\ b \in DOMAIN pending_batches
    /\ pending_batches[b].payload = <<b>>
    /\ b \notin DOMAIN chain.sessions /\ b.auction \notin chain.settledAuction
    /\ \A i \in DOMAIN mempool : mempool[i].batch # b \/ mempool[i].awaited

InFlight(b) == sub # NoSubmit /\ sub.batch = b

(* A timeout, a crash or a failed append has come between its steps: the   *)
(* session is on chain or on its way and nobody will send the settlement,  *)
(* or the proof is gone.                                                   *)
Spoilt(b) == faults + restarts > 0 /\ ~Settleable(b) /\ ~InFlight(b)

(* note_submit_failure, resubmit_pending_except: a batch that the chain    *)
(* would settle is retried until it is confirmed, another batch settles    *)
(* its auction, or a failure in the middle of a submission spoils it.      *)
RetriesSettle ==
    \A b \in Chunks :
        Settleable(b) ~>
            \/ b \in Logged({"BatchConfirmed"})
            \/ b \notin chain.sessionSettled /\ b.auction \in chain.settledAuction
            \/ Spoilt(b)

(* tick.rs:441: "Every chunk stays settleable".                            *)
ChunksStaySettleable ==
    \A b \in DOMAIN pending_batches :
        pending_batches[b].payload # NoPayload /\ b \notin chain.sessionSettled =>
            /\ pending_batches[b].payload = pending_batches[b].rows
            /\ b.auction \notin chain.settledAuction
=============================================================================
