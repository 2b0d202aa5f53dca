---------------------------- MODULE RecoveryProofs ----------------------------
(***************************************************************************)
(* Proofs about snapshots, compaction and boot, for any retention, any     *)
(* number of events, snapshots, damaged envelopes and crashes: no event is *)
(* replayed on top of a snapshot that has it, an engine that boots has     *)
(* every event applied under the lock that appended it, and a boot is      *)
(* refused only when an acknowledged event is really missing.              *)
(***************************************************************************)
EXTENDS Recovery, FiniteSetTheorems, WellFoundedInduction, TLAPS

Events    == [id : Nat, locked : BOOLEAN]
Envelopes == [state : SUBSET Events, readable : BOOLEAN]
Finishing == [pc : {"compacting", "pruning"}, seq : Nat]

TypeOK ==
    /\ last_seq \in 0..MaxSeq /\ failures \in Nat
    /\ IsFiniteSet(acked) /\ acked \subseteq Events /\ applied \subseteq acked
    /\ \A e \in acked : e.id \in 1..Cardinality(acked)
    /\ log \in [DOMAIN log -> acked] /\ DOMAIN log \subseteq 1..last_seq
    /\ DOMAIN snapshots \subseteq 0..MaxSeq
    /\ \A n \in DOMAIN snapshots :
          snapshots[n] \in Envelopes /\ snapshots[n].state \subseteq acked
    /\ snapper.pc \in {"resting", "capturing", "writing", "compacting", "pruning"}
    /\ snapper.pc # "resting" => boot = "running"
    /\ snapper.pc = "writing" => snapper.seq \in 0..MaxSeq /\ snapper.state \subseteq acked
    /\ snapper.pc \in {"compacting", "pruning"} => snapper \in Finishing

(* No snapshot, written or about to be, holds an event of the log behind it.*)
Disjoint ==
    /\ NoDoubleReplay
    /\ snapper.pc = "writing" => snapper.state \cap Tail_(snapper.seq) = {}

(* The projection S is that of the log up to number n.                     *)
Exact(n, S) ==
    /\ n <= last_seq
    /\ \A e \in acked : e.locked /\ e.id <= n => e \in S
    /\ \A e \in S : e.id <= n

(* Without a failed append every number has its event, the log is the last *)
(* part of them, and what is missing from its front is in each snapshot.   *)
Dense ==
    /\ last_seq = Cardinality(acked)
    /\ \A n \in 1..last_seq : \E e \in acked : e.id = n
    /\ \A d, e \in acked : d.id = e.id => d = e
    /\ \A n \in DOMAIN log : log[n].id = n
    /\ \A m \in DOMAIN log : \A n \in m..last_seq : n \in DOMAIN log
    /\ last_seq > 0 => last_seq \in DOMAIN log
    /\ DOMAIN snapshots = {} => DOMAIN log = 1..last_seq
    /\ \A n \in DOMAIN snapshots : Exact(n, snapshots[n].state)
    /\ snapper.pc = "writing" => Exact(snapper.seq, snapper.state)
    /\ snapper.pc = "compacting" => DOMAIN snapshots # {} /\ snapper.seq <= last_seq
    /\ boot = "running" => {e \in acked : e.locked} \subseteq applied
    /\ RefusalNeeded

(* The inductive invariant.                                                *)
RecoveryInv == TypeOK /\ Disjoint /\ (failures = 0 => Dense)

-----------------------------------------------------------------------------
(* Numbers.                                                                *)

(* A set of natural numbers has a least one.                               *)
LEMMA LeastNatural ==
    ASSUME NEW T \in SUBSET Nat, T # {}
    PROVE  \E x \in T : \A y \in T : x <= y
  <1> DEFINE R == OpToRel(<, Nat)
  <1>1. IsWellFoundedOn(R, Nat)
    BY NatLessThanWellFounded
  <1>2. \A y, x \in Nat : <<y, x>> \in R <=> y < x
    BY DEF OpToRel
  <1> HIDE DEF R
  <1>3. PICK x \in T : \A y \in T : ~(<<y, x>> \in R)
    BY <1>1, WFMin
  <1>4. \A y \in T : y \in Nat /\ x \in Nat /\ ~(y < x)
    BY <1>2, <1>3
  <1>5. \A y \in T : x <= y
    BY <1>4
  <1> QED
    BY <1>5

(* What holds of 0 and goes from each number to the next holds of all.     *)
LEMMA SetInduction ==
    ASSUME NEW S, 0 \in S, \A n \in Nat : n \in S => n + 1 \in S
    PROVE  \A n \in Nat : n \in S
  <1> SUFFICES ASSUME NEW k \in Nat, k \notin S PROVE FALSE
    OBVIOUS
  <1>1. PICK x \in Nat \ S : \A y \in Nat \ S : x <= y
    <2>1. Nat \ S \in SUBSET Nat /\ Nat \ S # {}
      OBVIOUS
    <2> QED
      BY <2>1, LeastNatural
  <1>2. x # 0 /\ x - 1 \in Nat /\ (x - 1) + 1 = x
    BY <1>1
  <1>3. x - 1 \in S
    BY <1>1, <1>2
  <1> QED
    BY <1>1, <1>2, <1>3

(* A bounded set of natural numbers has a greatest one, which Max finds.   *)
LEMMA GreatestNatural ==
    ASSUME NEW b \in Nat, NEW T \in SUBSET (0..b), T # {}
    PROVE  Max(T) \in T /\ \A y \in T : y <= Max(T)
  <1> DEFINE U == {b - x : x \in T}
  <1>0. \A x \in T : x \in Nat /\ x <= b /\ b - x \in Nat
    OBVIOUS
  <1>1. U \in SUBSET Nat /\ U # {}
    BY <1>0
  <1>2. PICK u \in U : \A v \in U : u <= v
    BY <1>1, LeastNatural
  <1>3. PICK x \in T : u = b - x
    BY <1>2
  <1>4. \A y \in T : x >= y
    <2> TAKE y \in T
    <2>1. b - y \in U
      OBVIOUS
    <2>2. u <= b - y /\ x \in Int /\ y \in Int
      BY <1>2, <2>1
    <2> QED
      BY <1>3, <2>2
  <1>5. \E z \in T : \A y \in T : z >= y
    BY <1>4
  <1>6. Max(T) \in T /\ \A y \in T : Max(T) >= y
    BY <1>5 DEF Max
  <1> DEFINE z == Max(T)
  <1>7. z \in T /\ \A y \in T : z >= y
    BY <1>6
  <1> HIDE DEF z
  <1>8. \A y \in T : y <= z
    BY <1>0, <1>7
  <1> QED
    BY <1>7, <1>8 DEF z

(* A set of natural numbers has a least one, which Min finds.              *)
LEMMA MinIsLeast ==
    ASSUME NEW T \in SUBSET Nat, T # {}
    PROVE  Min(T) \in T /\ \A y \in T : Min(T) <= y
  BY LeastNatural DEF Min

(* A bounded set has a member with exactly c members from it upwards.      *)
LEMMA KthGreatest ==
    ASSUME NEW b \in Nat, NEW D \in SUBSET (0..b),
           NEW c \in Nat \ {0}, c <= Cardinality(D)
    PROVE  \E n \in D : Cardinality({m \in D : m >= n}) = c
  <1> DEFINE Above(n) == {m \in D : m >= n}
             S == {j \in Nat : j + 1 <= Cardinality(D) =>
                                   \E n \in D : Cardinality(Above(n)) = j + 1}
  <1>1. IsFiniteSet(D) /\ Cardinality(D) \in Nat
    <2>1. IsFiniteSet(0..b)
      BY FS_Interval
    <2> QED
      BY <2>1, FS_Subset, FS_CardinalityType
  <1>a. \A m \in D : m \in Nat
    OBVIOUS
  <1>2. 0 \in S
    <2> SUFFICES ASSUME 1 <= Cardinality(D)
                 PROVE  \E n \in D : Cardinality(Above(n)) = 1
      OBVIOUS
    <2>1. D # {}
      BY FS_EmptySet
    <2>2. Max(D) \in D /\ \A y \in D : y <= Max(D)
      BY <2>1, GreatestNatural
    <2>3. Above(Max(D)) = {Max(D)}
      <3> DEFINE x == Max(D)
      <3>1. x \in D /\ \A y \in D : y <= x
        BY <2>2
      <3> HIDE DEF x
      <3>2. \A y \in D : y >= x <=> y = x
        BY <1>a, <3>1
      <3>3. Above(x) = {x}
        BY <3>1, <3>2
      <3> QED
        BY <3>3 DEF x
    <2>4. Cardinality(Above(Max(D))) = 1
      BY <2>3, FS_Singleton
    <2> QED
      BY <2>2, <2>4
  <1>3. ASSUME NEW j \in Nat, j \in S PROVE j + 1 \in S
    <2> SUFFICES ASSUME j + 2 <= Cardinality(D)
                 PROVE  \E n \in D : Cardinality(Above(n)) = j + 2
      OBVIOUS
    <2>1. PICK n \in D : Cardinality(Above(n)) = j + 1
      BY <1>1, <1>3
    <2> DEFINE below == {m \in D : m < n}
    <2>2. below \in SUBSET (0..b) /\ below # {}
      <3>1. CASE below = {}
        <4>1. Above(n) = D
          <5>1. \A m \in D : ~(m < n)
            BY <3>1
          <5>2. \A m \in D : m >= n
            BY <1>a, <5>1
          <5> QED
            BY <5>2
        <4> QED
          BY <1>1, <2>1, <4>1
      <3> QED
        BY <3>1
    <2> DEFINE x == Max(below)
    <2>3. x \in below /\ \A y \in below : y <= x
      <3> HIDE DEF below
      <3> QED
        BY <2>2, GreatestNatural
    <2> HIDE DEF x
    <2>4. Above(x) = Above(n) \cup {x} /\ x \notin Above(n)
      <3>1. x \in D /\ x < n
        BY <2>3
      <3>2. \A m \in D : m < n => m <= x
        BY <2>3
      <3>3. \A m \in D : m >= x <=> (m >= n \/ m = x)
        BY <1>a, <3>1, <3>2
      <3>4. ~(x >= n)
        BY <1>a, <3>1
      <3> QED
        BY <3>1, <3>3, <3>4
    <2>5. IsFiniteSet(Above(n))
      BY <1>1, FS_Subset
    <2>6. Cardinality(Above(n) \cup {x}) = Cardinality(Above(n)) + 1
      <3> HIDE DEF Above
      <3> QED
        BY <2>4, <2>5, FS_AddElement
    <2>7. x \in D /\ Cardinality(Above(x)) = j + 2
      <3>1. Cardinality(Above(x)) = (j + 1) + 1
        BY <2>1, <2>4, <2>6
      <3> QED
        BY <2>3, <3>1
    <2> QED
      BY <2>7
  <1> HIDE DEF S
  <1>4. c - 1 \in S
    BY <1>2, <1>3, SetInduction
  <1> QED
    BY <1>4 DEF S

-----------------------------------------------------------------------------
(* Appending.                                                              *)

(* A persisted event is new, and is the last of its log.                   *)
LEMMA PersistKeeps ==
    ASSUME RecoveryInv, boot = "running", NEW l \in BOOLEAN, Persist(l),
           UNCHANGED <<snapshots, snapper, boot>>
    PROVE  RecoveryInv'
  <1> DEFINE c == Cardinality(acked)
             e == [id |-> c + 1, locked |-> l]
             k == last_seq + 1
  <1>1. /\ last_seq < MaxSeq /\ last_seq' = k /\ log' = With(log, k, e)
        /\ acked' = acked \cup {e} /\ failures' = failures
        /\ applied' = IF l THEN applied \cup {e} ELSE applied
    BY DEF Persist
  <1>2. /\ IsFiniteSet(acked) /\ acked \subseteq Events /\ applied \subseteq acked
        /\ last_seq \in 0..MaxSeq /\ failures \in Nat
        /\ log \in [DOMAIN log -> acked] /\ DOMAIN log \subseteq 1..last_seq
        /\ \A x \in acked : x.id \in 1..c
    BY DEF RecoveryInv, TypeOK
  <1>3. c \in Nat
    BY <1>2, FS_CardinalityType
  <1>4. e \in Events /\ e.id = c + 1 /\ e.locked = l
    BY <1>3 DEF Events
  <1> HIDE DEF e
  <1>5. e \notin acked /\ Cardinality(acked \cup {e}) = c + 1
    <2>1. e \notin acked
      BY <1>2, <1>3, <1>4
    <2> QED
      BY <1>2, <2>1, FS_AddElement
  <1>6. IsFiniteSet(acked')
    BY <1>1, <1>2, FS_AddElement
  <1>7. k \in Nat /\ k \notin DOMAIN log /\ k <= MaxSeq /\ k \in 0..MaxSeq
        /\ 1..last_seq \subseteq 1..k /\ k \in 1..k
    BY <1>1, <1>2, RecoveryAssumption
  <1> HIDE DEF k, c
  <1>8. /\ DOMAIN log' = DOMAIN log \cup {k} /\ log'[k] = e
        /\ \A n \in DOMAIN log : log'[n] = log[n]
        /\ log' \in [DOMAIN log' -> acked']
    BY <1>1, <1>2, <1>7 DEF With
  <1>9. TypeOK'
    <2>1. \A x \in acked' : x.id \in 1..Cardinality(acked')
      BY <1>1, <1>2, <1>3, <1>4, <1>5
    <2>2. DOMAIN log' \subseteq 1..last_seq'
      BY <1>1, <1>2, <1>7, <1>8
    <2>3. acked' \subseteq Events /\ applied' \subseteq acked' /\ acked \subseteq acked'
      BY <1>1, <1>2, <1>4
    <2> QED
      BY <1>1, <1>2, <1>6, <1>7, <1>8, <2>1, <2>2, <2>3 DEF RecoveryInv, TypeOK
  <1>10. \A n \in Int : Tail_(n)' \subseteq Tail_(n) \cup {e}
    BY <1>7, <1>8 DEF Tail_
  <1>11. Disjoint'
    <2>1. \A n \in DOMAIN snapshots : n \in Int /\ e \notin snapshots[n].state
      BY <1>5 DEF RecoveryInv, TypeOK
    <2>2. \A n \in DOMAIN snapshots : snapshots[n].state \cap Tail_(n)' = {}
      BY <1>10, <2>1 DEF RecoveryInv, Disjoint, NoDoubleReplay
    <2>3. snapper.pc = "writing" => snapper.state \cap Tail_(snapper.seq)' = {}
      <3>1. snapper.pc = "writing" => snapper.seq \in Int /\ e \notin snapper.state
        BY <1>5 DEF RecoveryInv, TypeOK
      <3> QED
        BY <1>10, <3>1 DEF RecoveryInv, Disjoint
    <2> QED
      BY <2>2, <2>3 DEF Disjoint, NoDoubleReplay, Tail_
  <1>12. ASSUME failures = 0 PROVE Dense'
    <2>0. Dense /\ k = c + 1 /\ last_seq = c
      BY <1>12 DEF RecoveryInv, Dense, k, c
    <2>1. ASSUME NEW n, NEW S \in SUBSET acked, n \in Int, Exact(n, S) PROVE Exact(n, S)'
      <3>1. n <= last_seq' /\ ~(e.id <= n)
        BY <1>1, <1>2, <1>4, <2>0, <2>1 DEF Exact
      <3> QED
        BY <1>1, <2>1, <3>1 DEF Exact
    <2>2. /\ last_seq' = Cardinality(acked')
          /\ \A d, x \in acked' : d.id = x.id => d = x
          /\ \A n \in DOMAIN log' : log'[n].id = n
      <3>1. \A x \in acked : x.id # e.id
        BY <1>2, <1>3, <1>4
      <3>2. \A d, x \in acked : d.id = x.id => d = x
        BY <2>0 DEF Dense
      <3>3. \A n \in DOMAIN log : log[n].id = n
        BY <2>0 DEF Dense
      <3> QED
        BY <1>1, <1>4, <1>5, <1>8, <2>0, <3>1, <3>2, <3>3
    <2>3. \A n \in 1..last_seq' : \E x \in acked' : x.id = n
      <3>1. \A n \in 1..last_seq : \E x \in acked : x.id = n
        BY <2>0 DEF Dense
      <3>2. \A n \in 1..last_seq' : n \in 1..last_seq \/ n = e.id
        BY <1>1, <1>2, <1>3, <1>4, <2>0
      <3> QED
        BY <1>1, <3>1, <3>2
    <2>4. /\ \A m \in DOMAIN log' : \A n \in m..last_seq' : n \in DOMAIN log'
          /\ last_seq' > 0 => last_seq' \in DOMAIN log'
      <3>1. \A m \in DOMAIN log : \A n \in m..last_seq : n \in DOMAIN log
        BY <2>0 DEF Dense
      <3>2. ASSUME NEW m \in DOMAIN log', NEW n \in m..last_seq'
            PROVE  n \in DOMAIN log'
        <4>1. n = k \/ (m \in DOMAIN log /\ n \in m..last_seq)
          BY <1>1, <1>2, <1>7, <1>8 DEF k
        <4> QED
          BY <1>8, <3>1, <4>1
      <3> QED
        BY <1>1, <1>8, <3>2
    <2>5. DOMAIN snapshots = {} => DOMAIN log' = 1..last_seq'
      <3>1. DOMAIN snapshots = {} => DOMAIN log = 1..last_seq
        BY <2>0 DEF Dense
      <3>2. (1..last_seq) \cup {k} = 1..k
        BY <1>2 DEF k
      <3> QED
        BY <1>1, <1>8, <3>1, <3>2
    <2>6. /\ \A n \in DOMAIN snapshots : Exact(n, snapshots[n].state)'
          /\ snapper.pc = "writing" => Exact(snapper.seq, snapper.state)'
      <3>1. \A n \in DOMAIN snapshots : n \in Int /\ snapshots[n].state \in SUBSET acked
        BY DEF RecoveryInv, TypeOK
      <3>2. snapper.pc = "writing" => snapper.seq \in Int /\ snapper.state \in SUBSET acked
        BY DEF RecoveryInv, TypeOK
      <3>3. /\ \A n \in DOMAIN snapshots : Exact(n, snapshots[n].state)
            /\ snapper.pc = "writing" => Exact(snapper.seq, snapper.state)
        BY <2>0 DEF Dense
      <3>4. \A n \in DOMAIN snapshots : snapshots'[n].state = snapshots[n].state
        OBVIOUS
      <3>5. ASSUME NEW n \in DOMAIN snapshots PROVE Exact(n, snapshots[n].state)'
        BY <2>1, <3>1, <3>3 DEF Exact
      <3>6. ASSUME snapper.pc = "writing" PROVE Exact(snapper.seq, snapper.state)'
        BY <2>1, <3>2, <3>3, <3>6 DEF Exact
      <3> QED
        BY <3>5, <3>6
    <2>7. snapper.pc = "compacting" => DOMAIN snapshots # {} /\ snapper.seq <= last_seq'
      <3>1. snapper.pc = "compacting" => DOMAIN snapshots # {} /\ snapper.seq <= last_seq
                                          /\ snapper.seq \in Nat
        BY <2>0 DEF Dense, RecoveryInv, TypeOK, Finishing
      <3> QED
        BY <1>1, <1>2, <3>1 DEF k
    <2>8. {x \in acked' : x.locked} \subseteq applied'
      BY <1>1, <1>4, <2>0 DEF Dense
    <2>9. RefusalNeeded'
      BY DEF RefusalNeeded
    <2> QED
      BY <2>2, <2>3, <2>4, <2>5, <2>6, <2>7, <2>8, <2>9 DEF Dense
  <1> QED
    BY <1>1, <1>9, <1>11, <1>12 DEF RecoveryInv

(* A failed append spends a number: nothing is promised of Dense after it. *)
LEMMA AppendFailsKeeps ==
    ASSUME RecoveryInv, AppendFails
    PROVE  RecoveryInv'
  <1>1. /\ failures' = failures + 1 /\ last_seq < MaxSeq /\ last_seq' = last_seq + 1
        /\ UNCHANGED <<log, applied, acked, snapshots, snapper, boot>>
    BY DEF AppendFails
  <1>2. /\ last_seq' \in 0..MaxSeq /\ 1..last_seq \subseteq 1..last_seq'
        /\ failures' \in Nat /\ failures' # 0
    BY <1>1, RecoveryAssumption DEF RecoveryInv, TypeOK
  <1>3. TypeOK'
    BY <1>1, <1>2 DEF RecoveryInv, TypeOK
  <1>4. Disjoint'
    BY <1>1 DEF RecoveryInv, Disjoint, NoDoubleReplay, Tail_
  <1> QED
    BY <1>2, <1>3, <1>4 DEF RecoveryInv

(* What a step that leaves the store alone has to show.                    *)
LEMMA StoreUntouched ==
    ASSUME RecoveryInv, UNCHANGED <<log, last_seq, acked, failures>>, TypeOK', Disjoint',
           failures = 0 =>
             /\ \A n \in DOMAIN snapshots' : Exact(n, snapshots'[n].state)
             /\ snapper'.pc = "writing" => Exact(snapper'.seq, snapper'.state)
             /\ snapper'.pc = "compacting" => snapper'.seq <= last_seq
             /\ snapper'.pc = "compacting" => DOMAIN snapshots' # {}
             /\ DOMAIN snapshots' = {} => DOMAIN log = 1..last_seq
             /\ boot' = "running" => {e \in acked : e.locked} \subseteq applied'
             /\ RefusalNeeded'
    PROVE  RecoveryInv'
  <1> SUFFICES ASSUME failures = 0 PROVE Dense'
    BY DEF RecoveryInv
  <1>1. Dense
    BY DEF RecoveryInv
  <1>2. \A n \in DOMAIN snapshots' : Exact(n, snapshots[n].state)'
    BY DEF Exact
  <1>3. snapper'.pc = "writing" => Exact(snapper.seq, snapper.state)'
    BY DEF Exact
  <1> QED
    BY <1>1, <1>2, <1>3 DEF Dense

(* Applying an event appended off the lock.                                *)
LEMMA ApplyKeeps ==
    ASSUME RecoveryInv, NEW e, ApplyOffLock(e)
    PROVE  RecoveryInv'
  <1>1. /\ e \in Tail_(0) /\ applied' = applied \cup {e} /\ boot = "running"
        /\ UNCHANGED <<log, last_seq, acked, failures, snapshots, snapper, boot>>
    BY DEF ApplyOffLock, store
  <1>2. e \in acked
    BY <1>1 DEF RecoveryInv, TypeOK, Tail_
  <1>3. TypeOK'
    BY <1>1, <1>2 DEF RecoveryInv, TypeOK
  <1>4. Disjoint'
    BY <1>1 DEF RecoveryInv, Disjoint, NoDoubleReplay, Tail_
  <1>5. RefusalNeeded'
    BY <1>1 DEF RefusalNeeded
  <1>6. ASSUME failures = 0
        PROVE  /\ \A n \in DOMAIN snapshots : Exact(n, snapshots[n].state)
               /\ snapper.pc = "writing" => Exact(snapper.seq, snapper.state)
               /\ snapper.pc = "compacting" => DOMAIN snapshots # {} /\ snapper.seq <= last_seq
               /\ DOMAIN snapshots = {} => DOMAIN log = 1..last_seq
               /\ {x \in acked : x.locked} \subseteq applied
    BY <1>1, <1>6 DEF RecoveryInv, Dense
  <1> QED
    BY <1>1, <1>3, <1>4, <1>5, <1>6, StoreUntouched

-----------------------------------------------------------------------------
(* The snapshotter.                                                        *)

(* The trigger, and the capture under the lock.                            *)
LEMMA CaptureKeeps ==
    ASSUME RecoveryInv, TriggerSnapshot \/ capture_snapshot_state
    PROVE  RecoveryInv'
  <1>1. /\ boot = "running" /\ boot' = boot
        /\ UNCHANGED <<log, last_seq, acked, failures, snapshots, applied>>
        /\ \/ snapper'.pc = "capturing"
           \/ snapper'.pc = "writing" /\ snapper'.seq = last_seq /\ snapper'.state = applied
    BY DEF TriggerSnapshot, capture_snapshot_state, store, RecoveryInv, TypeOK
  <1>2. TypeOK'
    BY <1>1 DEF RecoveryInv, TypeOK
  <1>3. Tail_(last_seq) = {}
    BY DEF RecoveryInv, TypeOK, Tail_
  <1>4. Disjoint'
    <2>1. NoDoubleReplay'
      BY <1>1 DEF RecoveryInv, Disjoint, NoDoubleReplay, Tail_
    <2>2. snapper'.pc = "writing" => snapper'.state \cap Tail_(snapper.seq)' = {}
      BY <1>1, <1>3 DEF Tail_
    <2> QED
      BY <2>1, <2>2 DEF Disjoint
  <1>5. RefusalNeeded'
    BY <1>1 DEF RefusalNeeded
  <1>6. ASSUME failures = 0
        PROVE  /\ \A n \in DOMAIN snapshots : Exact(n, snapshots[n].state)
               /\ DOMAIN snapshots = {} => DOMAIN log = 1..last_seq
               /\ {x \in acked : x.locked} \subseteq applied
               /\ last_seq = Cardinality(acked)
    BY <1>1, <1>6 DEF RecoveryInv, Dense
  <1>7. failures = 0 => Exact(last_seq, applied)
    <2>1. /\ \A e \in acked : e.id \in 1..Cardinality(acked)
          /\ applied \subseteq acked /\ last_seq \in Nat
      BY DEF RecoveryInv, TypeOK
    <2> QED
      BY <1>6, <2>1 DEF Exact
  <1> QED
    BY <1>1, <1>2, <1>4, <1>5, <1>6, <1>7, StoreUntouched

(* The envelope is written, or the write fails.                            *)
LEMMA WriteKeeps ==
    ASSUME RecoveryInv, WriteSnapshot
    PROVE  RecoveryInv'
  <1> DEFINE k == snapper.seq
             S == snapper.state
             v == [state |-> S, readable |-> TRUE]
  <1>1. /\ snapper.pc = "writing" /\ boot = "running"
        /\ UNCHANGED <<log, last_seq, acked, failures, applied, boot>>
        /\ \/ snapshots' = With(snapshots, k, v) /\ snapper' = [pc |-> "compacting", seq |-> k]
           \/ snapshots' = snapshots /\ snapper' = Resting
    BY DEF WriteSnapshot, store, RecoveryInv, TypeOK
  <1>2. /\ k \in 0..MaxSeq /\ S \subseteq acked /\ S \cap Tail_(k) = {}
        /\ acked \subseteq Events /\ k \in Nat
        /\ DOMAIN snapshots \subseteq 0..MaxSeq
        /\ \A n \in DOMAIN snapshots :
              snapshots[n] \in Envelopes /\ snapshots[n].state \subseteq acked
              /\ snapshots[n].state \cap Tail_(n) = {}
    BY <1>1 DEF RecoveryInv, TypeOK, Disjoint, NoDoubleReplay
  <1>3. v \in Envelopes /\ v.state = S
    BY <1>2 DEF Envelopes
  <1> HIDE DEF v
  <1>4. \A n : n \in DOMAIN snapshots' =>
           \/ n \in DOMAIN snapshots /\ snapshots'[n] = snapshots[n]
           \/ n = k /\ snapshots'[n] = v
    BY <1>1 DEF With
  <1>5. /\ snapper'.pc \in {"compacting", "resting"}
        /\ snapper'.pc = "compacting" =>
              snapper' \in Finishing /\ snapper'.seq = k /\ k \in DOMAIN snapshots'
        /\ DOMAIN snapshots \subseteq DOMAIN snapshots'
    BY <1>1, <1>2 DEF Finishing, Resting, With
  <1>6. TypeOK'
    <2>1. \A n \in DOMAIN snapshots' :
             /\ n \in 0..MaxSeq /\ snapshots'[n] \in Envelopes
             /\ snapshots'[n].state \subseteq acked
      BY <1>2, <1>3, <1>4
    <2> QED
      BY <1>1, <1>5, <2>1 DEF RecoveryInv, TypeOK
  <1>7. Disjoint'
    <2>1. \A n \in DOMAIN snapshots' : snapshots'[n].state \cap Tail_(n) = {}
      BY <1>2, <1>3, <1>4
    <2>2. \A n \in DOMAIN snapshots' : snapshots'[n].state \cap Tail_(n)' = {}
      BY <1>1, <2>1 DEF Tail_
    <2> QED
      BY <1>5, <2>2 DEF Disjoint, NoDoubleReplay
  <1>8. RefusalNeeded'
    BY <1>1 DEF RefusalNeeded
  <1>9. ASSUME failures = 0
        PROVE  /\ \A n \in DOMAIN snapshots' : Exact(n, snapshots'[n].state)
               /\ k <= last_seq
               /\ DOMAIN snapshots' = {} => DOMAIN log = 1..last_seq
               /\ {x \in acked : x.locked} \subseteq applied
    <2>1. /\ \A n \in DOMAIN snapshots : Exact(n, snapshots[n].state)
          /\ Exact(k, S)
          /\ DOMAIN snapshots = {} => DOMAIN log = 1..last_seq
          /\ {x \in acked : x.locked} \subseteq applied
      BY <1>1, <1>9 DEF RecoveryInv, Dense
    <2>2. \A n \in DOMAIN snapshots' : Exact(n, snapshots'[n].state)
      BY <1>3, <1>4, <2>1
    <2>3. k <= last_seq
      BY <2>1 DEF Exact
    <2> QED
      BY <1>5, <2>1, <2>2, <2>3
  <1> QED
    BY <1>1, <1>5, <1>6, <1>7, <1>8, <1>9, StoreUntouched

(* Compaction keeps the end of the log, and there is a snapshot by then.   *)
LEMMA CompactKeeps ==
    ASSUME RecoveryInv, CompactEvents
    PROVE  RecoveryInv'
  <1> DEFINE k == snapper.seq
  <1>1. /\ snapper.pc = "compacting" /\ boot = "running"
        /\ UNCHANGED <<last_seq, acked, failures, applied, snapshots, boot>>
        /\ \/ k > retain_events /\ log' = From(log, k - retain_events)
           \/ log' = log
        /\ snapper' = [snapper EXCEPT !.pc = "pruning"]
    BY DEF CompactEvents, RecoveryInv, TypeOK
  <1>2. /\ snapper \in Finishing /\ k \in Nat
        /\ log \in [DOMAIN log -> acked] /\ DOMAIN log \subseteq 1..last_seq
        /\ last_seq \in Nat /\ 1..last_seq \subseteq Nat
    BY <1>1 DEF RecoveryInv, TypeOK, Finishing
  <1>3. snapper' \in Finishing /\ snapper'.pc = "pruning"
    BY <1>1, <1>2 DEF Finishing
  <1>4. /\ DOMAIN log' \subseteq DOMAIN log
        /\ \A n \in DOMAIN log' : log'[n] = log[n]
        /\ log' \in [DOMAIN log' -> acked]
        /\ \A m \in DOMAIN log', n \in DOMAIN log : m <= n => n \in DOMAIN log'
        /\ \A n \in DOMAIN log : k <= n => n \in DOMAIN log'
    <2>1. CASE log' = log
      BY <1>2, <2>1
    <2>2. CASE k > retain_events /\ log' = From(log, k - retain_events)
      <3> DEFINE lo == k - retain_events
      <3>1. lo \in Int /\ lo <= k
        BY <1>2, <2>2, RecoveryAssumption
      <3>2. log' = [n \in {m \in DOMAIN log : m >= lo} |-> log[n]]
        BY <2>2 DEF From
      <3> HIDE DEF lo
      <3>3. \A n \in DOMAIN log : n \in Nat
        BY <1>2
      <3>4. DOMAIN log' = {m \in DOMAIN log : m >= lo}
        BY <3>2
      <3>5. \A m \in DOMAIN log', n \in DOMAIN log : m <= n => n \in DOMAIN log'
        BY <3>1, <3>3, <3>4
      <3>6. \A n \in DOMAIN log : k <= n => n \in DOMAIN log'
        BY <1>2, <3>1, <3>3, <3>4
      <3> QED
        BY <1>2, <3>2, <3>4, <3>5, <3>6
    <2> QED
      BY <1>1, <2>1, <2>2
  <1>5. TypeOK'
    BY <1>1, <1>2, <1>3, <1>4 DEF RecoveryInv, TypeOK
  <1>6. \A n : Tail_(n)' \subseteq Tail_(n)
    BY <1>4 DEF Tail_
  <1>7. Disjoint'
    <2>1. \A n \in DOMAIN snapshots : snapshots[n].state \cap Tail_(n)' = {}
      BY <1>6 DEF RecoveryInv, Disjoint, NoDoubleReplay
    <2> QED
      BY <1>1, <1>3, <2>1 DEF Disjoint, NoDoubleReplay
  <1>8. ASSUME failures = 0 PROVE Dense'
    <2>0. Dense
      BY <1>8 DEF RecoveryInv
    <2>1. DOMAIN snapshots # {} /\ k <= last_seq
      BY <1>1, <2>0 DEF Dense
    <2>2. /\ \A m \in DOMAIN log' : \A n \in m..last_seq : n \in DOMAIN log'
          /\ last_seq > 0 => last_seq \in DOMAIN log'
      <3>1. /\ \A m \in DOMAIN log : \A n \in m..last_seq : n \in DOMAIN log
            /\ last_seq > 0 => last_seq \in DOMAIN log
        BY <2>0 DEF Dense
      <3>2. ASSUME NEW m \in DOMAIN log', NEW n \in m..last_seq PROVE n \in DOMAIN log'
        <4>1. m \in Nat /\ m <= n /\ n \in DOMAIN log
          BY <1>2, <1>4, <3>1
        <4> QED
          BY <1>4, <4>1
      <3> QED
        BY <1>4, <2>1, <3>1, <3>2
    <2>3. \A n \in DOMAIN log' : log'[n].id = n
      BY <1>4, <2>0 DEF Dense
    <2>4. \A n \in DOMAIN snapshots : Exact(n, snapshots[n].state)'
      BY <1>1, <2>0 DEF Dense, Exact
    <2>5. RefusalNeeded'
      BY <1>1 DEF RefusalNeeded
    <2> QED
      BY <1>1, <1>3, <2>0, <2>1, <2>2, <2>3, <2>4, <2>5 DEF Dense
  <1> QED
    BY <1>1, <1>5, <1>7, <1>8 DEF RecoveryInv

(* Pruning leaves some of the snapshots, and always one.                   *)
LEMMA PruneKeeps ==
    ASSUME RecoveryInv, PruneSnapshots
    PROVE  RecoveryInv'
  <1>1. /\ boot = "running" /\ snapper'.pc = "resting"
        /\ UNCHANGED <<log, last_seq, acked, failures, applied, boot>>
        /\ \/ snapshots' = snapshots
           \/ /\ retain_count > 0 /\ Cardinality(DOMAIN snapshots) > retain_count
              /\ snapshots' = From(snapshots, cutoff_seq)
    BY DEF PruneSnapshots, Resting, store, RecoveryInv, TypeOK
  <1>2. DOMAIN snapshots \in SUBSET (0..MaxSeq) /\ MaxSeq \in Nat
    BY RecoveryAssumption DEF RecoveryInv, TypeOK
  <1>3. /\ DOMAIN snapshots' \subseteq DOMAIN snapshots
        /\ \A n \in DOMAIN snapshots' : snapshots'[n] = snapshots[n]
        /\ DOMAIN snapshots' = {} => DOMAIN snapshots = {}
    <2>1. CASE snapshots' = snapshots
      BY <2>1
    <2>2. CASE /\ retain_count > 0 /\ Cardinality(DOMAIN snapshots) > retain_count
               /\ snapshots' = From(snapshots, cutoff_seq)
      <3> DEFINE D == DOMAIN snapshots
      <3>1. retain_count \in Nat \ {0} /\ Cardinality(D) \in Nat /\ retain_count <= Cardinality(D)
        <4>1. IsFiniteSet(0..MaxSeq)
          BY <1>2, FS_Interval
        <4>2. IsFiniteSet(D)
          BY <1>2, <4>1, FS_Subset
        <4>3. Cardinality(D) \in Nat
          BY <4>2, FS_CardinalityType
        <4> QED
          BY <2>2, <4>3, RecoveryAssumption
      <3>2. \E n \in D : Cardinality({m \in D : m >= n}) = retain_count
        <4> HIDE DEF D
        <4>1. D \in SUBSET (0..MaxSeq)
          BY <1>2 DEF D
        <4> QED
          BY <1>2, <3>1, <4>1, KthGreatest
      <3>3. cutoff_seq \in D
        BY <3>2 DEF cutoff_seq
      <3>4. cutoff_seq \in Nat
        BY <1>2, <3>3
      <3> DEFINE lo == cutoff_seq
      <3>5. /\ lo \in DOMAIN snapshots /\ lo \in Nat
            /\ snapshots' = [n \in {m \in DOMAIN snapshots : m >= lo} |-> snapshots[n]]
        BY <2>2, <3>3, <3>4 DEF From
      <3> HIDE DEF lo
      <3>6. lo \in DOMAIN snapshots'
        BY <3>5
      <3> QED
        BY <3>5, <3>6
    <2> QED
      BY <1>1, <2>1, <2>2
  <1>4. TypeOK'
    BY <1>1, <1>3 DEF RecoveryInv, TypeOK
  <1>5. Disjoint'
    <2>1. \A n \in DOMAIN snapshots' : snapshots'[n].state \cap Tail_(n) = {}
      BY <1>3 DEF RecoveryInv, Disjoint, NoDoubleReplay
    <2>2. \A n \in DOMAIN snapshots' : snapshots'[n].state \cap Tail_(n)' = {}
      BY <1>1, <2>1 DEF Tail_
    <2> QED
      BY <1>1, <2>2 DEF Disjoint, NoDoubleReplay
  <1>6. RefusalNeeded'
    BY <1>1 DEF RefusalNeeded
  <1>7. ASSUME failures = 0
        PROVE  /\ \A n \in DOMAIN snapshots' : Exact(n, snapshots'[n].state)
               /\ DOMAIN snapshots' = {} => DOMAIN log = 1..last_seq
               /\ {x \in acked : x.locked} \subseteq applied
    BY <1>1, <1>3, <1>7 DEF RecoveryInv, Dense
  <1> QED
    BY <1>1, <1>4, <1>5, <1>6, <1>7, StoreUntouched

(* A damaged envelope still has its state; it cannot be read.              *)
LEMMA DamageKeeps ==
    ASSUME RecoveryInv, NEW k \in DOMAIN snapshots, Damage(k)
    PROVE  RecoveryInv'
  <1> DEFINE v == [snapshots[k] EXCEPT !.readable = FALSE]
  <1>1. /\ boot = "running" /\ snapshots' = [snapshots EXCEPT ![k] = v]
        /\ UNCHANGED <<log, last_seq, acked, failures, applied, boot, snapper>>
    BY DEF Damage, store
  <1>2. v \in Envelopes /\ v.state = snapshots[k].state
    BY DEF RecoveryInv, TypeOK, Envelopes
  <1> HIDE DEF v
  <1>3. /\ DOMAIN snapshots' = DOMAIN snapshots
        /\ \A n \in DOMAIN snapshots : n # k => snapshots'[n] = snapshots[n]
        /\ snapshots'[k] = v
    BY <1>1
  <1>4. \A n \in DOMAIN snapshots : snapshots'[n].state = snapshots[n].state
    BY <1>2, <1>3
  <1>5. TypeOK'
    <2>1. \A n \in DOMAIN snapshots' :
             snapshots'[n] \in Envelopes /\ snapshots'[n].state \subseteq acked
      BY <1>2, <1>3, <1>4 DEF RecoveryInv, TypeOK
    <2> QED
      BY <1>1, <1>3, <2>1 DEF RecoveryInv, TypeOK
  <1>6. Disjoint'
    <2>1. \A n \in DOMAIN snapshots' : snapshots'[n].state \cap Tail_(n) = {}
      BY <1>3, <1>4 DEF RecoveryInv, Disjoint, NoDoubleReplay
    <2>2. \A n \in DOMAIN snapshots' : snapshots'[n].state \cap Tail_(n)' = {}
      BY <1>1, <2>1 DEF Tail_
    <2>3. snapper.pc = "writing" => snapper.state \cap Tail_(snapper.seq)' = {}
      BY <1>1 DEF RecoveryInv, Disjoint, Tail_
    <2> QED
      BY <1>1, <2>2, <2>3 DEF Disjoint, NoDoubleReplay
  <1>7. RefusalNeeded'
    BY <1>1 DEF RefusalNeeded
  <1>8. ASSUME failures = 0
        PROVE  /\ \A n \in DOMAIN snapshots' : Exact(n, snapshots'[n].state)
               /\ DOMAIN snapshots' = {} => DOMAIN log = 1..last_seq
               /\ {x \in acked : x.locked} \subseteq applied
               /\ snapper.pc = "writing" => Exact(snapper.seq, snapper.state)
               /\ snapper.pc = "compacting" => DOMAIN snapshots' # {} /\ snapper.seq <= last_seq
    BY <1>1, <1>3, <1>4, <1>8 DEF RecoveryInv, Dense
  <1> QED
    BY <1>1, <1>5, <1>6, <1>7, <1>8, StoreUntouched

-----------------------------------------------------------------------------
(* Boot.                                                                   *)

(* Without failed appends, the log from a number on has all of its events. *)
LEMMA TailIsComplete ==
    ASSUME TypeOK, Dense, NEW n \in Nat,
           \E m \in DOMAIN log : m <= n + 1, NEW e \in acked, e.id > n
    PROVE  e \in Tail_(n)
  <1>1. PICK m \in DOMAIN log : m <= n + 1
    OBVIOUS
  <1>2. e.id \in 1..last_seq /\ last_seq \in Nat /\ m \in Nat
    BY DEF TypeOK, Dense
  <1>3. e.id \in m..last_seq
    BY <1>1, <1>2
  <1>4. e.id \in DOMAIN log
    BY <1>3 DEF Dense
  <1>5. log[e.id] \in acked /\ log[e.id].id = e.id
    BY <1>4 DEF TypeOK, Dense
  <1>6. log[e.id] = e
    BY <1>5 DEF Dense
  <1> QED
    BY <1>4, <1>6 DEF Tail_

(* ... and none of those before it.                                        *)
LEMMA TailIsBehind ==
    ASSUME TypeOK, Dense, NEW n \in Int, NEW e \in Tail_(n)
    PROVE  e \in acked /\ e.id > n /\ e.id \in DOMAIN log
  BY DEF TypeOK, Dense, Tail_

(* The newest envelope that can be read.                                   *)
LEMMA NewestReadable ==
    ASSUME TypeOK, Readable # {}
    PROVE  /\ Max(Readable) \in DOMAIN snapshots /\ Max(Readable) \in Nat
           /\ Max(Readable) \in Readable
  <1>1. Readable \in SUBSET (0..MaxSeq) /\ MaxSeq \in Nat
    BY RecoveryAssumption DEF TypeOK, Readable
  <1>2. Max(Readable) \in Readable
    BY <1>1, GreatestNatural
  <1>3. \A n \in Readable : n \in DOMAIN snapshots /\ n \in Nat
    BY <1>1 DEF Readable
  <1> QED
    BY <1>2, <1>3

(* What recover is given after the crash is all there is.                  *)
LEMMA RecoverIsExact ==
    ASSUME TypeOK, Dense, Recover \/ RecoverUnlisted, boot' = "running"
    PROVE  {e \in acked : e.locked} \subseteq applied'
  <1> SUFFICES ASSUME NEW e \in acked, e.locked PROVE e \in applied'
    OBVIOUS
  <1>0. e.id \in Nat /\ e.id > 0 /\ e.id \in 1..last_seq /\ last_seq \in Nat
    BY DEF TypeOK, Dense
  <1>1. ASSUME 1 \in DOMAIN log PROVE e \in Tail_(0)
    <2>1. \E m \in DOMAIN log : m <= 0 + 1
      BY <1>1
    <2> QED
      BY <1>0, <2>1, TailIsComplete
  <1>2. CASE DOMAIN snapshots = {} /\ Booted(Tail_(0))
    <2>1. 1 \in DOMAIN log
      BY <1>0, <1>2 DEF Dense
    <2> QED
      BY <1>1, <1>2, <2>1 DEF Booted
  <1>3. CASE event_log_covers_seq_one /\ Booted(Tail_(0))
    BY <1>1, <1>3 DEF Booted, event_log_covers_seq_one
  <1>4. ASSUME Readable # {}, event_log_continuous_after(Max(Readable)),
               Booted(RestoredFrom(Max(Readable)))
        PROVE  e \in applied'
    <2> DEFINE n == Max(Readable)
    <2>1. n \in DOMAIN snapshots /\ n \in Nat /\ event_log_continuous_after(n)
          /\ applied' = snapshots[n].state \cup Tail_(n)
      BY <1>4, NewestReadable DEF Booted, RestoredFrom
    <2> HIDE DEF n
    <2>2. Exact(n, snapshots[n].state)
      BY <2>1 DEF Dense
    <2>3. CASE e.id <= n
      BY <2>1, <2>2, <2>3 DEF Exact
    <2>4. CASE e.id > n
      <3> DEFINE next == {m \in DOMAIN log : m > n}
      <3>1. last_seq \in next
        BY <1>0, <2>1, <2>4 DEF Dense
      <3>2. next \in SUBSET Nat
        BY DEF TypeOK
      <3>3. Min(next) \in next /\ Min(next) = n + 1
        <4>1. next # {} => Min(next) = n + 1
          BY <2>1 DEF event_log_continuous_after
        <4> HIDE DEF next
        <4> QED
          BY <3>1, <3>2, <4>1, MinIsLeast
      <3>4. n + 1 \in DOMAIN log
        BY <3>3
      <3>5. \E m \in DOMAIN log : m <= n + 1
        BY <2>1, <3>4
      <3> QED
        BY <2>1, <2>4, <3>5, TailIsComplete
    <2> QED
      BY <1>0, <2>1, <2>3, <2>4
  <1>5. boot' # "refused" /\ boot' # "unlisted"
    OBVIOUS
  <1> QED
    BY <1>2, <1>3, <1>4, <1>5 DEF Recover, RecoverUnlisted, Failed

(* A refusal has an event to show that is nowhere.                         *)
LEMMA RefusedForCause ==
    ASSUME TypeOK, Dense, Recover, boot' = "refused", DOMAIN log # {}
    PROVE  IF Readable # {} THEN acked \ RestoredFrom(Max(Readable)) # {}
           ELSE acked \ Tail_(0) # {}
  <1>0. last_seq \in Nat /\ \A m \in DOMAIN log : m \in 1..last_seq
    BY DEF TypeOK
  <1>1. boot' # "running"
    OBVIOUS
  <1>2. CASE Readable # {}
    <2> DEFINE n == Max(Readable)
               next == {m \in DOMAIN log : m > n}
    <2>1. n \in DOMAIN snapshots /\ n \in Nat
      BY <1>2, NewestReadable
    <2>2. next # {} /\ Min(next) # n + 1
      BY <1>1, <1>2 DEF Recover, Booted, event_log_continuous_after, Readable
    <2> HIDE DEF n
    <2>3. next \in SUBSET Nat
      BY <1>0
    <2>4. Min(next) \in next /\ \A m \in next : Min(next) <= m
      <3> HIDE DEF next
      <3> QED
        BY <2>2, <2>3, MinIsLeast
    <2>5. n + 1 \notin DOMAIN log /\ n + 1 \in 1..last_seq
      <3> DEFINE x == Min(next)
      <3>1. x \in DOMAIN log /\ x > n /\ x # n + 1 /\ \A m \in DOMAIN log : m > n => x <= m
        BY <2>2, <2>4
      <3> HIDE DEF x
      <3>2. x \in 1..last_seq
        BY <1>0, <3>1
      <3>3. n + 1 > n /\ n + 1 < x /\ n + 1 \in 1..last_seq
        BY <1>0, <2>1, <3>1, <3>2
      <3>4. ~(x <= n + 1)
        BY <2>1, <3>2, <3>3
      <3> QED
        BY <3>1, <3>3, <3>4
    <2>6. PICK e \in acked : e.id = n + 1
      BY <2>5 DEF Dense
    <2>7. e \notin Tail_(n)
      BY <2>1, <2>5, <2>6, TailIsBehind
    <2>8. e \notin snapshots[n].state
      <3>1. Exact(n, snapshots[n].state)
        BY <2>1 DEF Dense
      <3>2. ~(n + 1 <= n)
        BY <2>1
      <3> QED
        BY <2>6, <3>1, <3>2 DEF Exact
    <2>9. e \notin RestoredFrom(n)
      BY <2>7, <2>8 DEF RestoredFrom
    <2> QED
      BY <1>2, <2>6, <2>9 DEF n
  <1>3. CASE Readable = {}
    <2>1. 1 \notin DOMAIN log
      BY <1>1, <1>3 DEF Recover, Booted, event_log_covers_seq_one
    <2>3. 1 \in 1..last_seq
      BY <1>0
    <2>4. PICK e \in acked : e.id = 1
      BY <2>3 DEF Dense
    <2>5. e \notin Tail_(0)
      BY <2>1, <2>4, TailIsBehind
    <2> QED
      BY <1>3, <2>4, <2>5
  <1> QED
    BY <1>2, <1>3

(* A crash loses what is in memory; the boot numbers on from the log.      *)
LEMMA RestartKeeps ==
    ASSUME RecoveryInv, Restart
    PROVE  RecoveryInv'
  <1>1. /\ TypeOK /\ snapper' = Resting
        /\ UNCHANGED <<log, acked, failures, snapshots>>
        /\ last_seq' = Max(DOMAIN log \cup {0})
        /\ Recover \/ RecoverUnlisted
    BY DEF Restart, RecoveryInv
  <1>2. /\ last_seq \in 0..MaxSeq /\ MaxSeq \in Nat
        /\ DOMAIN log \subseteq 1..last_seq
    BY <1>1, RecoveryAssumption DEF TypeOK
  <1>3. /\ last_seq' \in DOMAIN log \cup {0}
        /\ \A y \in DOMAIN log \cup {0} : y <= last_seq'
    <2> DEFINE T == DOMAIN log \cup {0}
    <2>1. T \in SUBSET (0..last_seq) /\ T # {} /\ last_seq \in Nat
      BY <1>2
    <2> HIDE DEF T
    <2>2. Max(T) \in T /\ \A y \in T : y <= Max(T)
      BY <2>1, GreatestNatural
    <2> QED
      BY <1>1, <2>2 DEF T
  <1>4. last_seq' \in 0..MaxSeq /\ DOMAIN log \subseteq 1..last_seq'
    BY <1>2, <1>3
  <1>5. snapper'.pc = "resting"
    BY <1>1 DEF Resting
  <1>6. applied' \subseteq acked
    <2>1. \A n : Tail_(n) \subseteq acked
      BY <1>1 DEF TypeOK, Tail_
    <2>2. Readable # {} => RestoredFrom(Max(Readable)) \subseteq acked
      <3>1. \A n \in DOMAIN snapshots : snapshots[n].state \subseteq acked
        BY <1>1 DEF TypeOK
      <3> QED
        BY <1>1, <2>1, <3>1, NewestReadable DEF RestoredFrom
    <2> QED
      BY <1>1, <2>1, <2>2 DEF Recover, RecoverUnlisted, Booted, Failed
  <1>7. TypeOK'
    BY <1>1, <1>4, <1>5, <1>6 DEF TypeOK
  <1>8. Disjoint'
    <2>1. \A n \in DOMAIN snapshots' : snapshots'[n].state \cap Tail_(n)' = {}
      BY <1>1 DEF RecoveryInv, Disjoint, NoDoubleReplay, Tail_
    <2> QED
      BY <1>5, <2>1 DEF Disjoint, NoDoubleReplay
  <1>9. ASSUME failures = 0 PROVE Dense'
    <2>1. Dense
      BY <1>9 DEF RecoveryInv
    <2>2. last_seq' = last_seq
      <3>1. last_seq > 0 => last_seq \in DOMAIN log
        BY <2>1 DEF Dense
      <3> QED
        BY <1>2, <1>3, <3>1
    <2>3. boot' = "running" => {e \in acked : e.locked} \subseteq applied'
      BY <1>1, <2>1, RecoverIsExact
    <2>4. RefusalNeeded'
      <3> SUFFICES ASSUME boot' = "refused", DOMAIN log # {}
                   PROVE  RefusalNeeded'
        BY <1>1 DEF RefusalNeeded
      <3>1. Recover
        BY <1>1 DEF RecoverUnlisted, Booted, Failed
      <3>2. IF Readable # {} THEN acked \ RestoredFrom(Max(Readable)) # {}
            ELSE acked \ Tail_(0) # {}
        BY <1>1, <2>1, <3>1, RefusedForCause
      <3>3. Readable' = Readable
        BY <1>1 DEF Readable
      <3>4. /\ RestoredFrom(Max(Readable))' = RestoredFrom(Max(Readable))
            /\ Tail_(0)' = Tail_(0)
        BY <1>1, <3>3 DEF RestoredFrom, Tail_
      <3> QED
        BY <1>1, <3>2, <3>3, <3>4 DEF RefusalNeeded
    <2>5. \A n \in DOMAIN snapshots : Exact(n, snapshots[n].state)'
      BY <1>1, <2>1, <2>2 DEF Dense, Exact
    <2> QED
      BY <1>1, <1>5, <2>1, <2>2, <2>3, <2>4, <2>5 DEF Dense
  <1> QED
    BY <1>1, <1>7, <1>8, <1>9 DEF RecoveryInv

-----------------------------------------------------------------------------
(* The theorems.                                                           *)

(* An empty log and no snapshot.                                           *)
LEMMA RecoveryInit == Init => RecoveryInv
  <1> SUFFICES ASSUME Init PROVE RecoveryInv
    OBVIOUS
  <1>1. /\ DOMAIN log = {} /\ DOMAIN snapshots = {} /\ snapper.pc = "resting"
        /\ log \in [DOMAIN log -> acked] /\ last_seq = 0 /\ failures = 0
        /\ acked = {} /\ applied = {} /\ boot = "running"
    BY DEF Init, Resting
  <1>2. IsFiniteSet(acked) /\ Cardinality(acked) = 0
    BY <1>1, FS_EmptySet
  <1>3. TypeOK
    BY <1>1, <1>2, RecoveryAssumption DEF TypeOK
  <1>4. Disjoint
    BY <1>1 DEF Disjoint, NoDoubleReplay
  <1>5. Dense
    BY <1>1, <1>2 DEF Dense, RefusalNeeded
  <1> QED
    BY <1>3, <1>4, <1>5 DEF RecoveryInv

(* Every step of the store, the snapshotter and the boot keeps it.         *)
LEMMA RecoveryNext == RecoveryInv /\ [Next]_vars => RecoveryInv'
  <1> SUFFICES ASSUME RecoveryInv, [Next]_vars PROVE RecoveryInv'
    OBVIOUS
  <1>1. CASE AppendLocked
    BY <1>1, PersistKeeps DEF AppendLocked
  <1>2. CASE AppendOffLock
    BY <1>2, PersistKeeps DEF AppendOffLock
  <1>3. ASSUME NEW e \in OffLockEvents, ApplyOffLock(e) PROVE RecoveryInv'
    BY <1>3, ApplyKeeps
  <1>4. CASE AppendFails
    BY <1>4, AppendFailsKeeps
  <1>5. CASE TriggerSnapshot \/ capture_snapshot_state
    BY <1>5, CaptureKeeps
  <1>6. CASE WriteSnapshot
    BY <1>6, WriteKeeps
  <1>7. CASE CompactEvents
    BY <1>7, CompactKeeps
  <1>8. CASE PruneSnapshots
    BY <1>8, PruneKeeps
  <1>9. ASSUME NEW n \in DOMAIN snapshots, Damage(n) PROVE RecoveryInv'
    BY <1>9, DamageKeeps
  <1>10. CASE Restart
    BY <1>10, RestartKeeps
  <1>11. CASE UNCHANGED vars
    <2>1. UNCHANGED <<log, last_seq, applied, acked, snapshots, snapper, boot, failures>>
      BY <1>11 DEF vars
    <2>2. TypeOK'
      BY <2>1 DEF RecoveryInv, TypeOK
    <2>3. Disjoint'
      BY <2>1 DEF RecoveryInv, Disjoint, NoDoubleReplay, Tail_
    <2>4. ASSUME failures = 0 PROVE Dense'
      <3>1. Dense
        BY <2>4 DEF RecoveryInv
      <3>2. Exact(snapper.seq, snapper.state)' = Exact(snapper.seq, snapper.state)
        BY <2>1 DEF Exact
      <3>3. \A n \in DOMAIN snapshots : Exact(n, snapshots[n].state)'
        BY <2>1, <3>1 DEF Dense, Exact
      <3>4. RefusalNeeded'
        <4>1. Readable' = Readable
          BY <2>1 DEF Readable
        <4>2. /\ RestoredFrom(Max(Readable))' = RestoredFrom(Max(Readable))
              /\ Tail_(0)' = Tail_(0)
          BY <2>1, <4>1 DEF RestoredFrom, Tail_
        <4> QED
          BY <2>1, <3>1, <4>1, <4>2 DEF Dense, RefusalNeeded
      <3> QED
        BY <2>1, <3>1, <3>2, <3>3, <3>4 DEF Dense
    <2> QED
      BY <2>1, <2>2, <2>3, <2>4 DEF RecoveryInv
  <1> QED
    BY <1>1, <1>2, <1>3, <1>4, <1>5, <1>6, <1>7, <1>8, <1>9, <1>10, <1>11 DEF Next

(* The inductive invariant holds.                                          *)
LEMMA RecoveryIsInvariant == Spec => []RecoveryInv
  BY RecoveryInit, RecoveryNext, PTL DEF Spec

(* take_snapshot and compact_before: whenever a snapshot is captured, and  *)
(* however the log behind it is cut, no event is in both.                  *)
THEOREM NothingReplayedTwice == Spec => []NoDoubleReplay
  <1>1. RecoveryInv => NoDoubleReplay
    BY DEF RecoveryInv, Disjoint
  <1> QED
    BY <1>1, RecoveryIsInvariant, PTL

(* recover: while no append has failed, an engine that boots has every     *)
(* acknowledged event that was applied under the lock.                     *)
THEOREM BootsAreExact == Spec => []BootIsExact
  <1>1. RecoveryInv => BootIsExact
    BY DEF RecoveryInv, Dense, BootIsExact
  <1> QED
    BY <1>1, RecoveryIsInvariant, PTL

(* event_log_continuous_after and event_log_covers_seq_one: while no       *)
(* append has failed, a boot on a log with events is refused only for an   *)
(* acknowledged event that cannot be read back.                            *)
THEOREM RefusalsAreNeeded == Spec => []RefusalNeeded
  <1>1. RecoveryInv => RefusalNeeded
    BY DEF RecoveryInv, Dense, RefusalNeeded
  <1> QED
    BY <1>1, RecoveryIsInvariant, PTL
=============================================================================
