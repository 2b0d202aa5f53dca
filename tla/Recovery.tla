------------------------------ MODULE Recovery -------------------------------
(***************************************************************************)
(* Snapshots, log compaction and boot: take_snapshot, run_snapshotter      *)
(* (snapshot.rs), recover (recover.rs), compact_before and open            *)
(* (file_store.rs), and the snapshot store.                                *)
(*                                                                         *)
(* An event is its identity and whether it was appended under the engine's *)
(* state lock; the in-memory projection is the set of the events applied   *)
(* to it.  What each event does to the book is module Engine.              *)
(***************************************************************************)
EXTENDS Integers, FiniteSetsExt

CONSTANTS retain_events, retain_count,
          MaxSeq,          \* bound: sequence numbers given out
          MaxFailures,     \* bound: failed appends
          MaxOffLock,      \* bound: events appended off the state lock
          MaxDamaged,      \* bound: envelopes, or listings of them, that cannot be read
          MaxRestarts      \* bound: crashes of the process

ASSUME RecoveryAssumption ==
    /\ retain_events \in Nat /\ retain_count \in Nat
    /\ MaxSeq \in Nat /\ MaxFailures \in Nat /\ MaxOffLock \in Nat
    /\ MaxDamaged \in Nat /\ MaxRestarts \in Nat

VARIABLES
    log,        \* sequence number -> event, of the durable events
    last_seq,   \* the last sequence number the store gave out
    applied,    \* the events in the in-memory projection
    acked,      \* history: the events whose append returned Ok
    snapshots,  \* key -> [state, readable]
    snapper,    \* progress of run_snapshotter
    last_snapshot_seq,
    boot,       \* "running", or "refused" or "unlisted" after recover failed
    failures, damaged, restarts

store == <<log, last_seq, acked, failures>>
vars == <<log, last_seq, applied, acked, snapshots, snapper, last_snapshot_seq, boot,
          failures, damaged, restarts>>

Resting == [pc |-> "resting"]

With(f, k, v) == [n \in DOMAIN f \cup {k} |-> IF n = k THEN v ELSE f[n]]
From(f, k) == [n \in {m \in DOMAIN f : m >= k} |-> f[n]]
Tail_(after) == {log[n] : n \in {m \in DOMAIN log : m > after}}

OffLockEvents == {e \in acked : ~e.locked}

-----------------------------------------------------------------------------
(* Appending.                                                              *)

Persist(locked) ==
    LET e == [id |-> Cardinality(acked) + 1, locked |-> locked]
    IN  /\ last_seq < MaxSeq
        /\ last_seq' = last_seq + 1
        /\ log' = With(log, last_seq + 1, e)
        /\ acked' = acked \cup {e}
        /\ applied' = IF locked THEN applied \cup {e} ELSE applied
        /\ UNCHANGED failures

(* Append and apply in one critical section: orders, cancels, ticks, pairs *)
(* and BatchSubmitted.                                                     *)
AppendLocked ==
    /\ boot = "running"
    /\ Persist(TRUE)
    /\ UNCHANGED <<snapshots, snapper, last_snapshot_seq, boot, damaged, restarts>>

(* submit_batch and on_batch_settled append BatchConfirmed and             *)
(* BatchSettled before they take the state lock ...                        *)
AppendOffLock ==
    /\ boot = "running"
    /\ Cardinality(OffLockEvents) < MaxOffLock
    /\ Persist(FALSE)
    /\ UNCHANGED <<snapshots, snapper, last_snapshot_seq, boot, damaged, restarts>>

(* ... and apply them under it.                                            *)
ApplyOffLock(e) ==
    /\ boot = "running"
    /\ e \in Tail_(0) \ applied
    /\ ~e.locked
    /\ applied' = applied \cup {e}
    /\ UNCHANGED <<store, snapshots, snapper, last_snapshot_seq, boot, damaged, restarts>>

(* The number is spent, nothing is durable (Engine has the other outcomes).*)
AppendFails ==
    /\ boot = "running"
    /\ failures < MaxFailures /\ last_seq < MaxSeq
    /\ failures' = failures + 1
    /\ last_seq' = last_seq + 1
    /\ UNCHANGED <<log, applied, acked, snapshots, snapper, last_snapshot_seq, boot, damaged, restarts>>

-----------------------------------------------------------------------------
(* The snapshotter.                                                        *)

(* A sub-tick whose event or time trigger fires.                           *)
TriggerSnapshot ==
    /\ boot = "running" /\ snapper = Resting
    /\ last_seq >= last_snapshot_seq
    /\ snapper' = [pc |-> "capturing", hint |-> last_seq]
    /\ UNCHANGED <<store, applied, snapshots, last_snapshot_seq, boot, damaged, restarts>>

(* Defective: keyed at the number read before the lock was taken.          *)
capture_at_hint ==
    /\ snapper.pc = "capturing"
    /\ snapper' = [pc |-> "writing", seq |-> snapper.hint, state |-> applied]
    /\ UNCHANGED <<store, applied, snapshots, last_snapshot_seq, boot, damaged, restarts>>

(* The projection and the watermark, read under the state lock.            *)
capture_snapshot_state ==
    /\ snapper.pc = "capturing"
    /\ snapper' = [pc |-> "writing", seq |-> last_seq, state |-> applied]
    /\ UNCHANGED <<store, applied, snapshots, last_snapshot_seq, boot, damaged, restarts>>

(* Sealed, written to a temporary file and renamed; or the write fails and *)
(* the next sub-tick tries again.                                          *)
WriteSnapshot ==
    /\ snapper.pc = "writing"
    /\ \/ /\ snapshots' = With(snapshots, snapper.seq, [state |-> snapper.state, readable |-> TRUE])
          /\ snapper' = [pc |-> "compacting", seq |-> snapper.seq]
       \/ snapper' = Resting /\ UNCHANGED snapshots
    /\ UNCHANGED <<store, applied, last_snapshot_seq, boot, damaged, restarts>>

(* A compaction that fails is only logged.                                 *)
CompactEvents ==
    /\ snapper.pc = "compacting"
    /\ \/ snapper.seq > retain_events /\ log' = From(log, snapper.seq - retain_events)
       \/ UNCHANGED log
    /\ snapper' = [snapper EXCEPT !.pc = "pruning"]
    /\ UNCHANGED <<last_seq, acked, failures, applied, snapshots, last_snapshot_seq, boot, damaged, restarts>>

(* The key from which on exactly retain_count snapshots are kept.          *)
cutoff_seq ==
    CHOOSE n \in DOMAIN snapshots : Cardinality({m \in DOMAIN snapshots : m >= n}) = retain_count

PruneSnapshots ==
    /\ snapper.pc = "pruning"
    /\ snapshots' = IF retain_count > 0 /\ Cardinality(DOMAIN snapshots) > retain_count
                    THEN From(snapshots, cutoff_seq) ELSE snapshots
    /\ last_snapshot_seq' = snapper.seq
    /\ snapper' = Resting
    /\ UNCHANGED <<store, applied, boot, damaged, restarts>>

(* An envelope that decode_envelope will refuse from now on.               *)
Damage(n) ==
    /\ boot = "running" /\ damaged < MaxDamaged
    /\ snapshots[n].readable
    /\ snapshots' = [snapshots EXCEPT ![n].readable = FALSE]
    /\ damaged' = damaged + 1
    /\ UNCHANGED <<store, applied, snapper, last_snapshot_seq, boot, restarts>>

-----------------------------------------------------------------------------
(* Boot.                                                                   *)

event_log_covers_seq_one == 1 \in DOMAIN log

(* Defective: a hole behind the snapshot goes unnoticed.                   *)
event_log_unchecked(after_seq) == TRUE

(* Defective: off by one.                                                  *)
event_log_continuous_at(after_seq) ==
    LET next == {n \in DOMAIN log : n > after_seq}
    IN  next # {} => Min(next) = after_seq

event_log_continuous_after(after_seq) ==
    LET next == {n \in DOMAIN log : n > after_seq}
    IN  next # {} => Min(next) = after_seq + 1

Readable == {n \in DOMAIN snapshots : snapshots[n].readable}

(* The newest envelope that decodes, and the events behind it.             *)
RestoredFrom(n) == snapshots[n].state \cup Tail_(n)

(* What recover ends in: the projection it rebuilds, or an error.          *)
Booted(projection) == boot' = "running" /\ applied' = projection
Failed(why) == boot' = why /\ applied' = {}

(* With no snapshot at all the log is replayed unchecked; when nothing     *)
(* decodes, only if it starts at 1.                                        *)
Recover ==
    \/ DOMAIN snapshots = {} /\ Booted(Tail_(0))
    \/ /\ Readable # {}
       /\ LET n == Max(Readable)
          IN  IF event_log_continuous_after(n) THEN Booted(RestoredFrom(n)) ELSE Failed("refused")
    \/ /\ DOMAIN snapshots # {} /\ Readable = {}
       /\ IF event_log_covers_seq_one THEN Booted(Tail_(0)) ELSE Failed("refused")

(* The snapshot store itself cannot be listed.                             *)
RecoverUnlisted == IF event_log_covers_seq_one THEN Booted(Tail_(0)) ELSE Failed("unlisted")

(* A crash at any point, and the boot after it: FileStore::open numbers on *)
(* from the last event in the file, run_snapshotter from the latest key.   *)
Restart ==
    /\ restarts < MaxRestarts /\ boot = "running"
    /\ restarts' = restarts + 1
    /\ \/ Recover /\ UNCHANGED damaged
       \/ damaged < MaxDamaged /\ damaged' = damaged + 1 /\ RecoverUnlisted
    /\ last_seq' = Max(DOMAIN log \cup {0})
    /\ last_snapshot_seq' = Max(DOMAIN snapshots \cup {0})
    /\ snapper' = Resting
    /\ UNCHANGED <<log, acked, failures, snapshots>>

-----------------------------------------------------------------------------
Init ==
    /\ log = <<>> /\ last_seq = 0
    /\ applied = {} /\ acked = {}
    /\ snapshots = <<>> /\ snapper = Resting /\ last_snapshot_seq = 0
    /\ boot = "running"
    /\ failures = 0 /\ damaged = 0 /\ restarts = 0

Next ==
    \/ AppendLocked
    \/ AppendOffLock
    \/ \E e \in OffLockEvents : ApplyOffLock(e)
    \/ AppendFails
    \/ TriggerSnapshot
    \/ capture_snapshot_state
    \/ WriteSnapshot
    \/ CompactEvents
    \/ PruneSnapshots
    \/ \E n \in DOMAIN snapshots : Damage(n)
    \/ Restart

Spec == Init /\ [][Next]_vars

-----------------------------------------------------------------------------
(* recover: whatever snapshots are damaged and wherever the process dies   *)
(* between writing, compacting and pruning, an engine that boots has every *)
(* acknowledged event that was applied under the lock that appended it.    *)
(* (A number a failed append has spent can break this: NoSilentLoss.)      *)
BootIsExact ==
    boot = "running" /\ failures = 0 => {e \in acked : e.locked} \subseteq applied

(* capture_snapshot_state: no snapshot holds an event that recovery will   *)
(* replay on top of it: fills are not idempotent.                          *)
NoDoubleReplay ==
    \A n \in DOMAIN snapshots : snapshots[n].state \cap Tail_(n) = {}

(* recover: without failed appends, a boot on a log that has events is     *)
(* refused only when what can be read really lacks an acknowledged one.    *)
RefusalNeeded ==
    boot = "refused" /\ DOMAIN log # {} /\ failures = 0 =>
        IF Readable # {} THEN acked \ RestoredFrom(Max(Readable)) # {} ELSE acked \ Tail_(0) # {}

(* recover.rs:247, the "wrong state on restart" failure the snapshotter is *)
(* supposed to prevent: an engine that boots has every acknowledged event. *)
NoSilentLoss == boot = "running" => {e \in acked : e.locked} \subseteq applied
=============================================================================
