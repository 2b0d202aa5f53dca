--------------------------- MODULE SettlementProofs ---------------------------
(***************************************************************************)
(* Proofs about the way of a batch from its match to the chain, for any    *)
(* number of pairs, chunks, failures, snapshots and crashes: no row is     *)
(* paid twice, a batch confirmed in the log has been settled and paid, and *)
(* a batch submitted and not closed stays pending.                         *)
(***************************************************************************)
EXTENDS Settlement, SequenceTheorems, FiniteSetTheorems, WellFoundedInduction, TLAPS

Ids        == [auction : Nat, k : Nat]
Partial(V) == UNION {[D -> V] : D \in SUBSET Ids}
Batches    == [rows : Seq(Ids), payload : Seq(Ids), submitting : BOOLEAN, ready : BOOLEAN]
Executions == [type : {"AuctionExecuted"}, auction : Nat]
Foldings   == [type : {"BatchFolded"}, pair : Pairs, round : Nat]
BatchTypes == {"BatchSubmitted", "BatchConfirmed", "BatchSettled"}
BatchLogs  == [type : BatchTypes, batch : Ids]
Entries    == Executions \cup Foldings \cup BatchLogs
AuctionRecords == [pair : Pairs, chunks : Nat]
Matchers   == [pc : {"matching"}, pairs : SUBSET Pairs, todo : Seq(Ids), queue : Seq(Ids)]
Provers    == [pc : {"proving", "finalizing", "storing"}, todo : Seq(Ids), queue : Seq(Ids)]
Submitters == [pc : {"submitting"}, queue : Seq(Ids), skip : SUBSET Ids]
Retriers   == [pc : {"retrying"}, ids : SUBSET Ids]
Ticks      == {Idle} \cup Matchers \cup Provers \cup Submitters \cup Retriers
SubPhases  == {"session", "session sent", "settle", "settle sent", "confirm", "apply"}
Receipts   == {"none", "ok", "reverted"}
Submits    == [pc : SubPhases, batch : Ids, rows : Seq(Ids), payload : Seq(Ids),
               receipt : Receipts]
Subs       == {NoSubmit} \cup Submits
Txs        == [kind : {"session", "settle"}, batch : Ids, data : Seq(Ids), awaited : BOOLEAN]
Contracts  == [sessions : Partial(Seq(Ids)), sessionSettled : SUBSET Ids,
               settledAuction : SUBSET Nat, paid : Seq(Ids), logs : SUBSET Ids]
Snapshots_ == [seq : Nat, pending : Partial(Batches)]
Replays    == [pending : Partial(Batches), orphans : SUBSET Nat, round : [Pairs -> Nat]]

Working == tick.pc \in {"matching", "proving", "finalizing", "storing"}

TypeOK ==
    /\ log \in Seq(Entries) /\ auctions \in Seq(AuctionRecords)
    /\ pending_batches \in Partial(Batches)
    /\ ivc \in [Pairs -> Seq(Ids)] /\ ivc_round \in [Pairs -> Nat]
    /\ tick \in Ticks
    /\ tick.pc \in {"finalizing", "storing"} => tick.todo # <<>>
    /\ sub \in Subs
    /\ mempool \in Seq(Txs) /\ chain \in Contracts
    /\ snapshot \in Snapshots_ /\ snapshot.seq <= Len(log)

(* What the log and the tick speak of are auctions that took place.        *)
Known ==
    /\ \A i \in DOMAIN log :
          log[i].type = "AuctionExecuted" => log[i].auction \in DOMAIN auctions
    /\ Working => \A i \in DOMAIN tick.todo : tick.todo[i].auction \in DOMAIN auctions

(* The rows of a batch are different rows of its own auction, and a batch  *)
(* with a proof has the one row it was made of.                            *)
RowsOf(b, s) ==
    /\ \A i \in DOMAIN s : s[i].auction = b.auction
    /\ \A i, j \in DOMAIN s : s[i] = s[j] => i = j

Sound(pending) ==
    \A b \in DOMAIN pending :
        /\ RowsOf(b, pending[b].rows)
        /\ pending[b].payload # NoPayload => pending[b].rows = <<b>>

(* ... wherever they are carried.                                          *)
Carried ==
    /\ Sound(pending_batches) /\ Sound(snapshot.pending)
    /\ tick.pc = "storing" /\ Chunk \in DOMAIN pending_batches =>
          pending_batches[Chunk].rows = <<Chunk>>
    /\ sub.pc # "none" => sub.rows = <<sub.batch>>
    /\ \A i \in DOMAIN mempool :
          mempool[i].kind = "settle" => mempool[i].data = <<mempool[i].batch>>

(* A row is paid under the guard of its auction.                           *)
Guarded ==
    /\ RowsPaidOnce
    /\ \A i \in DOMAIN chain.paid : chain.paid[i].auction \in chain.settledAuction

Settled(b) == b \in chain.sessionSettled /\ b \in ToSet(chain.paid)

(* The transaction awaited is the last one sent, by the submission in      *)
(* progress, and its receipt is the one that submission reads.             *)
Answered ==
    /\ \A i \in DOMAIN mempool :
          mempool[i].awaited =>
            /\ i = Len(mempool)
            /\ sub.pc \in {"session sent", "settle sent"} /\ sub.receipt = "none"
            /\ sub.batch = mempool[i].batch
            /\ sub.pc = "settle sent" <=> mempool[i].kind = "settle"
    /\ sub.pc \in {"session", "settle"} => sub.receipt = "none"
    /\ sub.pc = "settle sent" /\ sub.receipt = "ok" => Settled(sub.batch)
    /\ sub.pc \in {"confirm", "apply"} => Settled(sub.batch)
    /\ ConfirmedIsSettled

(* The batches that the first n events of l name, and those they submit    *)
(* and do not close.                                                       *)
Named(e, types) == IF e.type \in types THEN {e.batch} ELSE {}
LoggedIn(l, n, types) == {l[i].batch : i \in {j \in DOMAIN l : j <= n /\ l[j].type \in types}}
Closings == {"BatchConfirmed", "BatchSettled"}
OpenIn(l, n) == LoggedIn(l, n, {"BatchSubmitted"}) \ LoggedIn(l, n, Closings)

(* They are pending now, and were when the snapshot was taken.             *)
Remembered ==
    /\ OpenIn(log, Len(log)) \subseteq DOMAIN pending_batches
    /\ OpenIn(log, snapshot.seq) \subseteq DOMAIN snapshot.pending
    /\ sub.pc = "apply" => sub.batch \in Logged({"BatchConfirmed"})

(* The inductive invariant.                                                *)
SettlementInv == TypeOK /\ Known /\ Carried /\ Guarded /\ Answered /\ Remembered

-----------------------------------------------------------------------------
(* Sequences and partial functions.                                        *)

(* A set of natural numbers has a least one.                               *)
LEMMA LeastNatural ==
    ASSUME NEW T \in SUBSET Nat, T # {}
    PROVE  \E x \in T : \A y \in T : x <= y
  <1> DEFINE R == OpToRel(<, Nat)
  <1>1. IsWellFoundedOn(R, Nat)
    BY NatLessThanWellFounded
  <1>2. \A y, x \in Nat : <<y, x>> \in R <=> y < x
    BY DEF OpToRel
  <1> HIDE DEF R
  <1>3. PICK x \in T : \A y \in T : ~(<<y, x>> \in R)
    BY <1>1, WFMin
  <1>4. \A y \in T : y \in Nat /\ x \in Nat /\ ~(y < x)
    BY <1>2, <1>3
  <1>5. \A y \in T : x <= y
    BY <1>4
  <1> QED
    BY <1>5

(* What holds of 0 and goes from each number to the next holds of all.     *)
LEMMA SetInduction ==
    ASSUME NEW S, 0 \in S, \A n \in Nat : n \in S => n + 1 \in S
    PROVE  \A n \in Nat : n \in S
  <1> SUFFICES ASSUME NEW k \in Nat, k \notin S PROVE FALSE
    OBVIOUS
  <1>1. PICK x \in Nat \ S : \A y \in Nat \ S : x <= y
    <2>1. Nat \ S \in SUBSET Nat /\ Nat \ S # {}
      OBVIOUS
    <2> QED
      BY <2>1, LeastNatural
  <1>2. x # 0 /\ x - 1 \in Nat /\ (x - 1) + 1 = x
    BY <1>1
  <1>3. x - 1 \in S
    BY <1>1, <1>2
  <1> QED
    BY <1>1, <1>2, <1>3

(* The elements of a sequence, by their numbers.                           *)
LEMMA SeqShape ==
    ASSUME NEW S, NEW s \in Seq(S)
    PROVE  Len(s) \in Nat /\ DOMAIN s = 1..Len(s) /\ \A i \in DOMAIN s : s[i] \in S
  BY LenProperties, ElementOfSeq

(* One more element.                                                       *)
LEMMA AppendShape ==
    ASSUME NEW S, NEW s \in Seq(S), NEW e \in S
    PROVE  /\ Append(s, e) \in Seq(S) /\ Len(Append(s, e)) = Len(s) + 1
           /\ DOMAIN Append(s, e) = DOMAIN s \cup {Len(s) + 1}
           /\ \A i \in DOMAIN s : Append(s, e)[i] = s[i] /\ i <= Len(s) /\ i # Len(s) + 1
           /\ Append(s, e)[Len(s) + 1] = e
  <1>1. Len(s) \in Nat /\ DOMAIN s = 1..Len(s)
    BY SeqShape
  <1>2. Append(s, e) \in Seq(S) /\ Len(Append(s, e)) = Len(s) + 1
        /\ (\A i \in 1..Len(s) : Append(s, e)[i] = s[i]) /\ Append(s, e)[Len(s) + 1] = e
    BY AppendProperties
  <1>3. DOMAIN Append(s, e) = 1..(Len(s) + 1)
    BY <1>2, SeqShape
  <1>4. 1..(Len(s) + 1) = 1..Len(s) \cup {Len(s) + 1}
    BY <1>1
  <1>5. \A i \in 1..Len(s) : i <= Len(s) /\ i # Len(s) + 1
    BY <1>1
  <1> QED
    BY <1>1, <1>2, <1>3, <1>4, <1>5

(* All but the first.                                                      *)
LEMMA TailShape ==
    ASSUME NEW S, NEW s \in Seq(S), s # << >>
    PROVE  /\ Tail(s) \in Seq(S) /\ Len(Tail(s)) = Len(s) - 1
           /\ \A i \in DOMAIN Tail(s) : i + 1 \in DOMAIN s /\ Tail(s)[i] = s[i + 1]
           /\ 1 \in DOMAIN s /\ Head(s) = s[1] /\ Head(s) \in S
  <1>1. /\ Tail(s) \in Seq(S) /\ Len(Tail(s)) = Len(s) - 1
        /\ \A i \in 1..Len(Tail(s)) : Tail(s)[i] = s[i + 1]
        /\ Head(s) \in S
    BY HeadTailProperties
  <1>2. Len(s) \in Nat /\ DOMAIN s = 1..Len(s) /\ Len(s) # 0
    BY SeqShape, EmptySeq
  <1>3. DOMAIN Tail(s) = 1..(Len(s) - 1)
    BY <1>1, SeqShape
  <1>4. \A i \in 1..(Len(s) - 1) : i + 1 \in 1..Len(s)
    BY <1>2
  <1>5. 1 \in 1..Len(s)
    BY <1>2
  <1>6. Head(s) = s[1]
    OBVIOUS
  <1> QED
    BY <1>1, <1>2, <1>3, <1>4, <1>5, <1>6

(* All but the last.                                                       *)
LEMMA FrontShape ==
    ASSUME NEW S, NEW s \in Seq(S), s # << >>
    PROVE  /\ Front(s) \in Seq(S) /\ Len(s) \in DOMAIN s
           /\ \A i \in DOMAIN Front(s) :
                i \in DOMAIN s /\ Front(s)[i] = s[i] /\ i # Len(s)
  <1> DEFINE n == Len(s) - 1
  <1>1. Len(s) \in Nat /\ DOMAIN s = 1..Len(s) /\ Len(s) # 0
    BY SeqShape, EmptySeq
  <1>2. n \in Nat /\ \A i \in 1..n : i \in 1..Len(s) /\ i # Len(s)
    <2> DEFINE l == Len(s)
    <2>1. l \in Nat /\ l # 0 /\ n = l - 1
      BY <1>1
    <2> HIDE DEF l, n
    <2>2. n \in Nat /\ \A i \in 1..n : i \in 1..l /\ i # l
      BY <2>1
    <2> QED
      BY <2>2 DEF l
  <1>3. \A i \in 1..n : s[i] \in S
    BY <1>1, <1>2, SeqShape
  <1>4. Front(s) = SubSeq(s, 1, n)
    BY DEF Front
  <1> HIDE DEF n
  <1>5. SubSeq(s, 1, n) \in Seq(S) /\ Len(SubSeq(s, 1, n)) = (IF 1 <= n THEN n - 1 + 1 ELSE 0)
        /\ \A i \in 1..(n - 1 + 1) : SubSeq(s, 1, n)[i] = s[1 + i - 1]
    BY <1>2, <1>3, SubSeqProperties
  <1>6. Len(SubSeq(s, 1, n)) = n
    BY <1>2, <1>5
  <1>7. \A i \in 1..n : SubSeq(s, 1, n)[i] = s[i]
    <2> TAKE i \in 1..n
    <2>1. i \in 1..(n - 1 + 1) /\ 1 + i - 1 = i
      BY <1>2
    <2> QED
      BY <1>5, <2>1
  <1>8. DOMAIN SubSeq(s, 1, n) = 1..n
    BY <1>5, <1>6, SeqShape
  <1>9. Len(s) \in DOMAIN s
    BY <1>1
  <1> DEFINE f == SubSeq(s, 1, n)
  <1>10. f \in Seq(S) /\ DOMAIN f = 1..n /\ \A i \in 1..n : f[i] = s[i]
    BY <1>5, <1>7, <1>8
  <1>11. Front(s) = f
    BY <1>4
  <1> HIDE DEF f
  <1> QED
    BY <1>1, <1>2, <1>9, <1>10, <1>11

(* A sequence of one.                                                      *)
LEMMA OneShape ==
    ASSUME NEW S, NEW e \in S
    PROVE  <<e>> \in Seq(S) /\ Len(<<e>>) = 1 /\ DOMAIN <<e>> = {1} /\ <<e>>[1] = e
  OBVIOUS

(* One after the other.                                                    *)
LEMMA ConcatShape ==
    ASSUME NEW S, NEW s \in Seq(S), NEW t \in Seq(S)
    PROVE  /\ s \o t \in Seq(S) /\ Len(s \o t) = Len(s) + Len(t)
           /\ \A i \in DOMAIN s : i \in DOMAIN (s \o t) /\ (s \o t)[i] = s[i]
           /\ \A i \in DOMAIN t :
                Len(s) + i \in DOMAIN (s \o t) /\ (s \o t)[Len(s) + i] = t[i]
           /\ \A i \in DOMAIN (s \o t) :
                i \in DOMAIN s \/ (i > Len(s) /\ i - Len(s) \in DOMAIN t)
  <1> DEFINE m == Len(s)
             n == Len(t)
             u == s \o t
  <1>1. m \in Nat /\ n \in Nat /\ DOMAIN s = 1..m /\ DOMAIN t = 1..n
    BY SeqShape
  <1>2. u \in Seq(S) /\ Len(u) = m + n
        /\ \A i \in 1..(m + n) : u[i] = IF i <= m THEN s[i] ELSE t[i - m]
    BY ConcatProperties
  <1>3. DOMAIN u = 1..(m + n)
    BY <1>2, SeqShape
  <1> HIDE DEF m, n, u
  <1>4. \A i \in 1..m : i \in 1..(m + n) /\ u[i] = s[i]
    BY <1>1, <1>2
  <1>5. \A i \in 1..n : m + i \in 1..(m + n) /\ u[m + i] = t[i]
    <2> TAKE i \in 1..n
    <2>1. m + i \in 1..(m + n) /\ ~(m + i <= m) /\ (m + i) - m = i
      BY <1>1
    <2> QED
      BY <1>2, <2>1
  <1>6. \A i \in 1..(m + n) : i \in 1..m \/ (i > m /\ i - m \in 1..n)
    BY <1>1
  <1> QED
    BY <1>1, <1>2, <1>3, <1>4, <1>5, <1>6 DEF m, n, u

(* Functions from some of the batch ids.                                   *)
LEMMA PartialShape ==
    ASSUME NEW V, NEW f \in Partial(V)
    PROVE  DOMAIN f \subseteq Ids /\ f \in [DOMAIN f -> V]
           /\ \A k \in DOMAIN f : k \in Ids /\ f[k] \in V
  BY DEF Partial

(* ... are made from a set of them.                                        *)
LEMMA PartialIntro ==
    ASSUME NEW V, NEW D \in SUBSET Ids, NEW f \in [D -> V]
    PROVE  f \in Partial(V)
  BY DEF Partial

(* One entry more ...                                                      *)
LEMMA WithShape ==
    ASSUME NEW V, NEW f \in Partial(V), NEW k \in Ids, NEW v \in V
    PROVE  /\ With(f, k, v) \in Partial(V)
           /\ DOMAIN With(f, k, v) = DOMAIN f \cup {k} /\ With(f, k, v)[k] = v
           /\ \A x \in DOMAIN f : x # k => With(f, k, v)[x] = f[x]
  <1>1. DOMAIN f \subseteq Ids /\ \A x \in DOMAIN f : f[x] \in V
    BY PartialShape
  <1>2. With(f, k, v) \in [DOMAIN f \cup {k} -> V] /\ DOMAIN f \cup {k} \in SUBSET Ids
    BY <1>1 DEF With
  <1>3. With(f, k, v) \in Partial(V)
    BY <1>2, PartialIntro
  <1> QED
    BY <1>3 DEF With

(* ... one less ...                                                        *)
LEMMA WithoutShape ==
    ASSUME NEW V, NEW f \in Partial(V), NEW k
    PROVE  /\ Without(f, k) \in Partial(V)
           /\ DOMAIN Without(f, k) = DOMAIN f \ {k}
           /\ \A x \in DOMAIN f \ {k} : Without(f, k)[x] = f[x]
  <1>1. DOMAIN f \subseteq Ids /\ \A x \in DOMAIN f : f[x] \in V
    BY PartialShape
  <1>2. Without(f, k) \in [DOMAIN f \ {k} -> V] /\ DOMAIN f \ {k} \in SUBSET Ids
    BY <1>1 DEF Without
  <1>3. Without(f, k) \in Partial(V)
    BY <1>2, PartialIntro
  <1> QED
    BY <1>3 DEF Without

(* ... or one changed.                                                     *)
LEMMA ExceptShape ==
    ASSUME NEW V, NEW f \in Partial(V), NEW k \in DOMAIN f, NEW v \in V
    PROVE  /\ [f EXCEPT ![k] = v] \in Partial(V)
           /\ DOMAIN [f EXCEPT ![k] = v] = DOMAIN f /\ [f EXCEPT ![k] = v][k] = v
           /\ \A x \in DOMAIN f : x # k => [f EXCEPT ![k] = v][x] = f[x]
  <1>1. DOMAIN f \in SUBSET Ids /\ f \in [DOMAIN f -> V]
    BY PartialShape
  <1>2. [f EXCEPT ![k] = v] \in [DOMAIN f -> V]
    BY <1>1
  <1>3. [f EXCEPT ![k] = v] \in Partial(V)
    BY <1>1, <1>2, PartialIntro
  <1> QED
    BY <1>1, <1>3

-----------------------------------------------------------------------------
(* The log.                                                                *)

(* What an entry of each kind holds.                                       *)
LEMMA EntryShape ==
    ASSUME NEW e \in Entries
    PROVE  /\ e.type \in {"AuctionExecuted", "BatchFolded"} \cup BatchTypes
           /\ e.type = "AuctionExecuted" => e.auction \in Nat
           /\ e.type = "BatchFolded" => e.pair \in Pairs /\ e.round \in Nat
           /\ e.type \in BatchTypes => e.batch \in Ids
  <1>1. CASE e \in Executions
    BY <1>1 DEF Executions, BatchTypes
  <1>2. CASE e \in Foldings
    BY <1>2 DEF Foldings, BatchTypes
  <1>3. CASE e \in BatchLogs
    BY <1>3 DEF BatchLogs, BatchTypes
  <1> QED
    BY <1>1, <1>2, <1>3 DEF Entries

(* The first n + 1 events.                                                 *)
LEMMA LoggedStep ==
    ASSUME NEW l \in Seq(Entries), NEW n \in Nat, n < Len(l), NEW types
    PROVE  LoggedIn(l, n + 1, types) =
              LoggedIn(l, n, types)
                \cup Named(l[n + 1], types)
  <1>1. Len(l) \in Nat /\ DOMAIN l = 1..Len(l)
    BY SeqShape
  <1>2. n + 1 \in DOMAIN l /\ \A j \in DOMAIN l : j <= n + 1 <=> (j <= n \/ j = n + 1)
    BY <1>1
  <1> QED
    BY <1>2 DEF LoggedIn, Named

(* The whole log.                                                          *)
LEMMA LoggedWhole ==
    ASSUME NEW S, log \in Seq(S), NEW types
    PROVE  Logged(types) = LoggedIn(log, Len(log), types)
  <1>1. \A i \in DOMAIN log : i <= Len(log)
    BY SeqShape
  <1> QED
    BY <1>1 DEF Logged, LoggedIn

(* An append.                                                              *)
LEMMA LoggedAppend ==
    ASSUME NEW l \in Seq(Entries), NEW e \in Entries, NEW types
    PROVE  /\ \A n \in Nat : n <= Len(l) =>
                 LoggedIn(Append(l, e), n, types) = LoggedIn(l, n, types)
           /\ LoggedIn(Append(l, e), Len(Append(l, e)), types) =
                 LoggedIn(l, Len(l), types) \cup Named(e, types)
  <1> DEFINE m == Append(l, e)
             k == Len(l)
  <1>1. /\ m \in Seq(Entries) /\ Len(m) = k + 1 /\ k \in Nat
        /\ DOMAIN m = DOMAIN l \cup {k + 1} /\ m[k + 1] = e
        /\ \A i \in DOMAIN l : m[i] = l[i]
    BY AppendShape, SeqShape
  <1> HIDE DEF m, k
  <1>2. ASSUME NEW n \in Nat, n <= k
        PROVE  LoggedIn(m, n, types) = LoggedIn(l, n, types)
    <2>1. ~(k + 1 <= n)
      BY <1>1, <1>2
    <2>2. \A i \in DOMAIN m : i <= n => i \in DOMAIN l
      BY <1>1, <2>1
    <2>3. \A i \in DOMAIN l : i \in DOMAIN m /\ m[i] = l[i]
      BY <1>1
    <2> QED
      BY <2>2, <2>3, <1>2 DEF LoggedIn
  <1>3. LoggedIn(m, k + 1, types) =
            LoggedIn(m, k, types) \cup Named(e, types)
    <2>1. k < Len(m)
      BY <1>1
    <2> QED
      BY <1>1, <2>1, LoggedStep
  <1>4. LoggedIn(m, k, types) = LoggedIn(l, k, types)
    BY <1>1, <1>2
  <1> QED
    BY <1>1, <1>2, <1>3, <1>4 DEF m, k

(* The submissions that recover adds.                                      *)
LEMMA LoggedConcat ==
    ASSUME NEW l \in Seq(Entries), NEW m \in Seq(Entries), NEW types,
           \A i \in DOMAIN m : m[i].type = "BatchSubmitted"
    PROVE  /\ \A n \in Nat : n <= Len(l) =>
                 LoggedIn(l \o m, n, types) = LoggedIn(l, n, types)
           /\ LoggedIn(l \o m, Len(l \o m), types) \subseteq
                 LoggedIn(l, Len(l), types) \cup {m[i].batch : i \in DOMAIN m}
           /\ LoggedIn(l, Len(l), types) \subseteq LoggedIn(l \o m, Len(l \o m), types)
           /\ "BatchSubmitted" \notin types =>
                 LoggedIn(l \o m, Len(l \o m), types) = LoggedIn(l, Len(l), types)
  <1> DEFINE u == l \o m
             k == Len(l)
  <1>1. /\ u \in Seq(Entries) /\ k \in Nat /\ Len(m) \in Nat /\ Len(u) = k + Len(m)
        /\ \A i \in DOMAIN l : i \in DOMAIN u /\ u[i] = l[i]
        /\ \A i \in DOMAIN m : k + i \in DOMAIN u /\ u[k + i] = m[i]
        /\ \A i \in DOMAIN u : i \in DOMAIN l \/ (i > k /\ i - k \in DOMAIN m)
    BY ConcatShape, SeqShape
  <1>2. DOMAIN l = 1..k /\ DOMAIN m = 1..Len(m)
    BY SeqShape
  <1>3. DOMAIN u = 1..Len(u)
    BY <1>1, SeqShape
  <1> HIDE DEF u, k
  <1>4. ASSUME NEW n \in Nat, n <= k
        PROVE  LoggedIn(u, n, types) = LoggedIn(l, n, types)
    <2>1. \A i \in DOMAIN u : i <= n => i \in DOMAIN l
      BY <1>1, <1>2, <1>3, <1>4
    <2> QED
      BY <1>1, <2>1, <1>4 DEF LoggedIn
  <1>5. \A i \in DOMAIN u : i \notin DOMAIN l =>
           \E j \in DOMAIN m : u[i] = m[j]
    <2> TAKE i \in DOMAIN u
    <2> HAVE i \notin DOMAIN l
    <2>1. i - k \in DOMAIN m /\ k + (i - k) = i
      BY <1>1, <1>3
    <2> QED
      BY <1>1, <2>1
  <1>6. \A i \in DOMAIN l : i <= k
    BY <1>1, <1>2
  <1>7. \A i \in DOMAIN u : i <= Len(u)
    BY <1>1, <1>3
  <1>8. LoggedIn(u, Len(u), types) \subseteq
            LoggedIn(l, k, types) \cup {m[i].batch : i \in DOMAIN m}
    BY SMTT(30), <1>1, <1>5, <1>6 DEF LoggedIn
  <1>9. LoggedIn(l, k, types) \subseteq LoggedIn(u, Len(u), types)
    BY <1>1, <1>7 DEF LoggedIn
  <1>10. ASSUME "BatchSubmitted" \notin types
         PROVE  LoggedIn(u, Len(u), types) \subseteq LoggedIn(l, k, types)
    BY SMTT(30), <1>1, <1>5, <1>6, <1>10 DEF LoggedIn
  <1> QED
    BY <1>4, <1>8, <1>9, <1>10 DEF u, k

-----------------------------------------------------------------------------
(* The records.                                                            *)

(* What the tick holds at each stage.                                      *)
LEMMA TickShape ==
    ASSUME NEW t \in Ticks
    PROVE  /\ t.pc = "idle" => t = Idle
           /\ t.pc = "matching" => t \in Matchers
           /\ t.pc \in {"proving", "finalizing", "storing"} => t \in Provers
           /\ t.pc = "submitting" => t \in Submitters
           /\ t.pc = "retrying" => t \in Retriers
           /\ t.pc \in {"idle", "matching", "proving", "finalizing", "storing",
                        "submitting", "retrying"}
  <1>1. CASE t = Idle
    BY <1>1 DEF Idle
  <1>2. CASE t \in Matchers
    <2>1. t.pc = "matching"
      BY <1>2 DEF Matchers
    <2> QED
      BY <1>2, <2>1
  <1>3. CASE t \in Provers
    <2>1. t.pc \in {"proving", "finalizing", "storing"}
      BY <1>3 DEF Provers
    <2> QED
      BY <1>3, <2>1
  <1>4. CASE t \in Submitters
    <2>1. t.pc = "submitting"
      BY <1>4 DEF Submitters
    <2> QED
      BY <1>4, <2>1
  <1>5. CASE t \in Retriers
    <2>1. t.pc = "retrying"
      BY <1>5 DEF Retriers
    <2> QED
      BY <1>5, <2>1
  <1> QED
    BY <1>1, <1>2, <1>3, <1>4, <1>5 DEF Ticks

(* What a submission in progress holds.                                    *)
LEMMA SubShape ==
    ASSUME NEW s \in Subs
    PROVE  /\ s.pc = "none" => s = NoSubmit
           /\ s.pc # "none" => s \in Submits /\ s.pc \in SubPhases
           /\ s.pc \in SubPhases => s \in Submits
  <1>1. CASE s = NoSubmit
    BY <1>1 DEF NoSubmit, SubPhases
  <1>2. CASE s \in Submits
    <2>1. s.pc \in SubPhases
      BY <1>2 DEF Submits
    <2>2. s.pc # "none"
      BY <2>1 DEF SubPhases
    <2> QED
      BY <1>2, <2>1, <2>2
  <1> QED
    BY <1>1, <1>2 DEF Subs

-----------------------------------------------------------------------------
(* The tick.                                                               *)

(* A step that changes nothing but the tick.                               *)
LEMMA TickOnly ==
    ASSUME SettlementInv, tick' \in Ticks, tick'.pc \notin {"finalizing", "storing"},
           Working' => \A i \in DOMAIN tick'.todo : tick'.todo[i].auction \in DOMAIN auctions,
           UNCHANGED <<log, auctions, pending_batches, ivc, ivc_round, sub, mempool, chain, snapshot>>
    PROVE  SettlementInv'
  <1>1. TypeOK'
    BY DEF SettlementInv, TypeOK
  <1>2. Known'
    BY DEF SettlementInv, Known
  <1>3. Carried'
    BY DEF SettlementInv, Carried, Sound, RowsOf
  <1>4. Guarded'
    BY DEF SettlementInv, Guarded, RowsPaidOnce
  <1>5. Answered'
    BY DEF SettlementInv, Answered, Settled, ConfirmedIsSettled, Logged
  <1>6. Remembered'
    BY DEF SettlementInv, Remembered, Logged, OpenIn, LoggedIn
  <1> QED
    BY <1>1, <1>2, <1>3, <1>4, <1>5, <1>6 DEF SettlementInv

(* The chunk at hand, and the tick when it is done with it.                *)
LEMMA ChunkShape ==
    ASSUME SettlementInv, tick \in Provers, tick.todo # << >>
    PROVE  /\ Chunk \in Ids /\ Chunk.auction \in DOMAIN auctions /\ PairOf(Chunk) \in Pairs
           /\ NextChunk \in Provers /\ NextChunk.pc = "proving" /\ NextChunk \in Ticks
           /\ NextChunk.queue = tick.queue
           /\ \A i \in DOMAIN NextChunk.todo : NextChunk.todo[i].auction \in DOMAIN auctions
           /\ \A q \in Seq(Ids) :
                /\ [NextChunk EXCEPT !.queue = q] \in Ticks
                /\ [NextChunk EXCEPT !.queue = q].pc = "proving"
                /\ [NextChunk EXCEPT !.queue = q].todo = NextChunk.todo
  <1> DEFINE todo == tick.todo
  <1>1. todo \in Seq(Ids) /\ tick.queue \in Seq(Ids)
        /\ tick.pc \in {"proving", "finalizing", "storing"}
    BY DEF Provers
  <1>2. \A i \in DOMAIN todo : todo[i].auction \in DOMAIN auctions
    BY <1>1 DEF SettlementInv, Known, Working
  <1>3. /\ Tail(todo) \in Seq(Ids) /\ 1 \in DOMAIN todo /\ Head(todo) = todo[1] /\ Head(todo) \in Ids
        /\ \A i \in DOMAIN Tail(todo) : i + 1 \in DOMAIN todo /\ Tail(todo)[i] = todo[i + 1]
    BY <1>1, TailShape
  <1>4. Chunk \in Ids /\ Chunk.auction \in DOMAIN auctions
    BY <1>2, <1>3 DEF Chunk
  <1>5. PairOf(Chunk) \in Pairs
    <2>1. auctions[Chunk.auction] \in AuctionRecords
      BY <1>4, SeqShape DEF SettlementInv, TypeOK
    <2> QED
      BY <2>1 DEF PairOf, AuctionRecords
  <1>6. /\ NextChunk \in Provers /\ NextChunk.pc = "proving" /\ NextChunk.queue = tick.queue
        /\ NextChunk.todo = Tail(todo)
    BY <1>3 DEF NextChunk, Provers
  <1>7. \A i \in DOMAIN NextChunk.todo : NextChunk.todo[i].auction \in DOMAIN auctions
    BY <1>2, <1>3, <1>6
  <1>8. \A q \in Seq(Ids) :
           /\ [NextChunk EXCEPT !.queue = q] \in Provers
           /\ [NextChunk EXCEPT !.queue = q].pc = "proving"
           /\ [NextChunk EXCEPT !.queue = q].todo = NextChunk.todo
    <2> DEFINE t == NextChunk
    <2>1. t \in Provers /\ t.pc = "proving"
      BY <1>6
    <2> HIDE DEF t
    <2>2. \A q \in Seq(Ids) :
             /\ [t EXCEPT !.queue = q] \in Provers
             /\ [t EXCEPT !.queue = q].pc = "proving"
             /\ [t EXCEPT !.queue = q].todo = t.todo
      BY <2>1 DEF Provers
    <2> QED
      BY <2>2 DEF t
  <1> QED
    BY <1>4, <1>5, <1>6, <1>7, <1>8 DEF Ticks

(* The steps between the matches and the submissions that only move on.    *)
LEMMA StartKeeps ==
    ASSUME SettlementInv, StartTick
    PROVE  SettlementInv'
  <1>1. /\ tick' = [pc |-> "matching", pairs |-> Pairs, todo |-> <<>>, queue |-> <<>>]
        /\ UNCHANGED <<log, auctions, pending_batches, ivc, ivc_round, sub, mempool, chain, snapshot>>
    BY DEF StartTick
  <1>2. tick' \in Ticks /\ tick'.pc = "matching" /\ DOMAIN tick'.todo = {}
    <2>1. tick' \in Matchers
      BY <1>1, EmptySeq DEF Matchers
    <2> QED
      BY <1>1, <2>1 DEF Ticks
  <1> QED
    BY <1>1, <1>2, TickOnly

(* The matches of a tick are all there.                                    *)
LEMMA EndMatchingKeeps ==
    ASSUME SettlementInv, EndMatching
    PROVE  SettlementInv'
  <1>1. /\ tick.pc = "matching" /\ tick' = [pc |-> "proving", todo |-> tick.todo, queue |-> <<>>]
        /\ UNCHANGED <<log, auctions, pending_batches, ivc, ivc_round, sub, mempool, chain, snapshot>>
    BY DEF EndMatching
  <1>2. tick.todo \in Seq(Ids)
    <2>1. tick \in Matchers
      BY <1>1, TickShape DEF SettlementInv, TypeOK
    <2> QED
      BY <2>1 DEF Matchers
  <1>3. tick' \in Ticks /\ tick'.pc = "proving" /\ tick'.todo = tick.todo
    <2>1. tick' \in Provers
      BY <1>1, <1>2, EmptySeq DEF Provers
    <2> QED
      BY <1>1, <2>1 DEF Ticks
  <1>4. \A i \in DOMAIN tick'.todo : tick'.todo[i].auction \in DOMAIN auctions
    BY <1>1, <1>3 DEF SettlementInv, Known, Working
  <1> QED
    BY <1>1, <1>3, <1>4, TickOnly

(* A chunk that cannot be proved is skipped.                               *)
LEMMA SkipKeeps ==
    ASSUME SettlementInv, SkipChunk
    PROVE  SettlementInv'
  <1>1. /\ tick.pc = "proving" /\ tick.todo # << >> /\ tick' = NextChunk
        /\ UNCHANGED <<log, auctions, pending_batches, ivc, ivc_round, sub, mempool, chain, snapshot>>
    BY DEF SkipChunk
  <1>2. tick \in Provers
    BY <1>1, TickShape DEF SettlementInv, TypeOK
  <1>3. /\ tick' \in Ticks /\ tick'.pc = "proving"
        /\ \A i \in DOMAIN tick'.todo : tick'.todo[i].auction \in DOMAIN auctions
    BY <1>1, <1>2, ChunkShape
  <1> QED
    BY <1>1, <1>3, TickOnly

(* All chunks are done.                                                    *)
LEMMA EndProvingKeeps ==
    ASSUME SettlementInv, EndProving
    PROVE  SettlementInv'
  <1>1. /\ tick.pc = "proving"
        /\ tick' = [pc |-> "submitting", queue |-> tick.queue, skip |-> ToSet(tick.queue)]
        /\ UNCHANGED <<log, auctions, pending_batches, ivc, ivc_round, sub, mempool, chain, snapshot>>
    BY DEF EndProving
  <1>2. tick.queue \in Seq(Ids)
    <2>1. tick \in Provers
      BY <1>1, TickShape DEF SettlementInv, TypeOK
    <2> QED
      BY <2>1 DEF Provers
  <1>3. ToSet(tick.queue) \subseteq Ids
    BY <1>2, SeqShape DEF ToSet
  <1>4. tick' \in Ticks /\ tick'.pc = "submitting"
    <2>1. tick' \in Submitters
      BY <1>1, <1>2, <1>3 DEF Submitters
    <2> QED
      BY <1>1, <2>1 DEF Ticks
  <1> QED
    BY <1>1, <1>4, TickOnly DEF Working

(* The batches due for a retry.                                            *)
LEMMA RetriesKeeps ==
    ASSUME SettlementInv, resubmit_pending_except
    PROVE  SettlementInv'
  <1> DEFINE due == {b \in DOMAIN pending_batches \ tick.skip : pending_batches[b].ready}
  <1>1. /\ tick' = [pc |-> "retrying", ids |-> due]
        /\ UNCHANGED <<log, auctions, pending_batches, ivc, ivc_round, sub, mempool, chain, snapshot>>
    BY DEF resubmit_pending_except
  <1>2. due \subseteq Ids
    BY PartialShape DEF SettlementInv, TypeOK
  <1> HIDE DEF due
  <1>3. tick' \in Ticks /\ tick'.pc = "retrying"
    <2>1. tick' \in Retriers
      BY <1>1, <1>2 DEF Retriers
    <2> QED
      BY <1>1, <2>1 DEF Ticks
  <1> QED
    BY <1>1, <1>3, TickOnly DEF Working

(* The tick is over.                                                       *)
LEMMA EndTickKeeps ==
    ASSUME SettlementInv, EndTick
    PROVE  SettlementInv'
  <1>1. /\ tick' = Idle
        /\ UNCHANGED <<log, auctions, pending_batches, ivc, ivc_round, sub, mempool, chain, snapshot>>
    BY DEF EndTick
  <1>2. tick' \in Ticks /\ tick'.pc = "idle"
    BY <1>1 DEF Ticks, Idle
  <1> QED
    BY <1>1, <1>2, TickOnly DEF Working

-----------------------------------------------------------------------------
(* Events.                                                                 *)

(* What an append does to what the log says.                               *)
LEMMA LogGrows ==
    ASSUME TypeOK, NEW e \in Entries, log' = Append(log, e)
    PROVE  /\ log' \in Seq(Entries) /\ snapshot.seq <= Len(log')
           /\ \A i \in DOMAIN log' : (i \in DOMAIN log /\ log'[i] = log[i]) \/ log'[i] = e
           /\ OpenIn(log', snapshot.seq) = OpenIn(log, snapshot.seq)
           /\ Logged({"BatchConfirmed"})' =
                 Logged({"BatchConfirmed"})
                   \cup Named(e, {"BatchConfirmed"})
           /\ OpenIn(log', Len(log')) \subseteq
                 OpenIn(log, Len(log)) \cup Named(e, {"BatchSubmitted"})
           /\ e.type \in Closings => e.batch \notin OpenIn(log', Len(log'))
  <1> DEFINE k == snapshot.seq
  <1>1. log \in Seq(Entries) /\ k \in Nat /\ k <= Len(log)
    BY DEF TypeOK, Snapshots_
  <1>2. /\ log' \in Seq(Entries) /\ Len(log') = Len(log) + 1 /\ Len(log) \in Nat
        /\ DOMAIN log' = DOMAIN log \cup {Len(log) + 1} /\ log'[Len(log) + 1] = e
        /\ \A i \in DOMAIN log : log'[i] = log[i]
    BY <1>1, AppendShape, SeqShape
  <1> HIDE DEF k
  <1>3. k <= Len(log')
    <2> DEFINE n == Len(log)
               m == Len(log')
    <2>1. k <= n /\ m = n + 1 /\ n \in Nat
      BY <1>1, <1>2
    <2> HIDE DEF n, m
    <2>2. k <= m
      BY <1>1, <2>1
    <2> QED
      BY <2>2 DEF m
  <1>4. \A types : LoggedIn(log', k, types) = LoggedIn(log, k, types)
    BY <1>1, LoggedAppend
  <1>5. \A types : LoggedIn(log', Len(log'), types) =
           LoggedIn(log, Len(log), types) \cup Named(e, types)
    <2> TAKE types
    <2>1. LoggedIn(Append(log, e), Len(Append(log, e)), types) =
             LoggedIn(log, Len(log), types) \cup Named(e, types)
      BY <1>1, LoggedAppend, Zenon
    <2> QED
      BY <2>1, Zenon
  <1>6. /\ Logged({"BatchConfirmed"})' = LoggedIn(log', Len(log'), {"BatchConfirmed"})
        /\ Logged({"BatchConfirmed"}) = LoggedIn(log, Len(log), {"BatchConfirmed"})
    <2>1. Logged({"BatchConfirmed"}) = LoggedIn(log, Len(log), {"BatchConfirmed"})
      BY <1>1, LoggedWhole
    <2>2. \A i \in DOMAIN log' : i <= Len(log')
      BY <1>2, SeqShape
    <2>3. Logged({"BatchConfirmed"})' = LoggedIn(log', Len(log'), {"BatchConfirmed"})
      BY <2>2 DEF Logged, LoggedIn
    <2> QED
      BY <2>1, <2>3
  <1>7. OpenIn(log', k) = OpenIn(log, k)
    BY <1>4 DEF OpenIn
  <1>8. OpenIn(log', Len(log')) \subseteq
            OpenIn(log, Len(log)) \cup Named(e, {"BatchSubmitted"})
    BY <1>5 DEF OpenIn
  <1>9. e.type \in Closings => e.batch \notin OpenIn(log', Len(log'))
    BY <1>5 DEF OpenIn, Named
  <1>10. Logged({"BatchConfirmed"})' =
            Logged({"BatchConfirmed"}) \cup Named(e, {"BatchConfirmed"})
    BY <1>5, <1>6
  <1>11. \A i \in DOMAIN log' : (i \in DOMAIN log /\ log'[i] = log[i]) \/ log'[i] = e
    BY <1>2
  <1> QED
    BY <1>2, <1>3, <1>7, <1>8, <1>9, <1>10, <1>11 DEF k

(* A step that leaves submissions and the chain alone and logs at most an  *)
(* auction or a folding.                                                   *)
LEMMA QuietLog ==
    ASSUME SettlementInv, NEW e \in Entries, e.type \in {"AuctionExecuted", "BatchFolded"},
           log' = Append(log, e) \/ log' = log,
           UNCHANGED <<sub, mempool, chain, snapshot, pending_batches>>
    PROVE  /\ log' \in Seq(Entries) /\ snapshot.seq <= Len(log')
           /\ \A i \in DOMAIN log' : (i \in DOMAIN log /\ log'[i] = log[i]) \/ log'[i] = e
           /\ Guarded' /\ Answered' /\ Remembered'
  <1>1. /\ log' \in Seq(Entries) /\ snapshot.seq <= Len(log')
        /\ \A i \in DOMAIN log' : (i \in DOMAIN log /\ log'[i] = log[i]) \/ log'[i] = e
        /\ OpenIn(log', snapshot.seq) = OpenIn(log, snapshot.seq)
        /\ Logged({"BatchConfirmed"})' = Logged({"BatchConfirmed"})
        /\ OpenIn(log', Len(log')) \subseteq OpenIn(log, Len(log))
    <2>1. CASE log' = log
      BY <2>1 DEF SettlementInv, TypeOK, Logged
    <2>2. CASE log' = Append(log, e)
      <3>1. TypeOK /\ e.type # "BatchConfirmed" /\ e.type # "BatchSubmitted"
        BY DEF SettlementInv
      <3>2. /\ log' \in Seq(Entries) /\ snapshot.seq <= Len(log')
            /\ \A i \in DOMAIN log' : (i \in DOMAIN log /\ log'[i] = log[i]) \/ log'[i] = e
            /\ OpenIn(log', snapshot.seq) = OpenIn(log, snapshot.seq)
        BY <2>2, <3>1, LogGrows, Zenon
      <3>3. Logged({"BatchConfirmed"})' =
              Logged({"BatchConfirmed"})
                \cup Named(e, {"BatchConfirmed"})
        BY <2>2, <3>1, LogGrows, Zenon
      <3>4. OpenIn(log', Len(log')) \subseteq
              OpenIn(log, Len(log)) \cup Named(e, {"BatchSubmitted"})
        BY <2>2, <3>1, LogGrows, Zenon
      <3> QED
        BY <3>1, <3>2, <3>3, <3>4 DEF Named
    <2> QED
      BY <2>1, <2>2
  <1>2. Guarded'
    BY DEF SettlementInv, Guarded, RowsPaidOnce
  <1>3. Answered'
    BY <1>1 DEF SettlementInv, Answered, Settled, ConfirmedIsSettled
  <1>4. Remembered'
    BY <1>1 DEF SettlementInv, Remembered
  <1> QED
    BY <1>1, <1>2, <1>3, <1>4

(* An auction of one pair.                                                 *)
LEMMA MatchKeeps ==
    ASSUME SettlementInv, NEW p \in Pairs, NEW n \in Nat, MatchPair(p, n)
    PROVE  SettlementInv'
  <1> DEFINE a == Len(auctions) + 1
             more == [k \in 1..n |-> [auction |-> a, k |-> k]]
             au == [pair |-> p, chunks |-> n]
             ev == [type |-> "AuctionExecuted", auction |-> a]
             todo == tick.todo
  <1>1. /\ tick.pc = "matching"
        /\ tick' = [tick EXCEPT !.pairs = @ \ {p}, !.todo = @ \o more]
        /\ (n = 0 /\ auctions' = auctions /\ log' = log)
             \/ (n # 0 /\ auctions' = Append(auctions, au) /\ log' = Append(log, ev))
        /\ UNCHANGED <<pending_batches, ivc, ivc_round, sub, mempool, chain, snapshot>>
    BY DEF MatchPair
  <1>2. auctions \in Seq(AuctionRecords) /\ tick \in Matchers
    BY <1>1, TickShape DEF SettlementInv, TypeOK
  <1>3. a \in Nat /\ au \in AuctionRecords
    <2>1. a \in Nat
      BY <1>2, SeqShape
    <2> QED
      BY <2>1 DEF AuctionRecords
  <1>4. more \in Seq(Ids) /\ \A k \in DOMAIN more : more[k].auction = a /\ n # 0
    <2>1. \A k \in 1..n : [auction |-> a, k |-> k] \in Ids
      BY <1>3 DEF Ids
    <2> HIDE DEF a
    <2>2. more \in [1..n -> Ids]
      BY <2>1
    <2>3. more \in Seq(Ids)
      BY <2>2, SeqDef
    <2> QED
      BY <2>3
  <1>5. ev \in Entries /\ ev.type = "AuctionExecuted" /\ ev.auction = a
    <2>1. ev \in Executions
      BY <1>3 DEF Executions
    <2> QED
      BY <2>1 DEF Entries
  <1> HIDE DEF more, au, ev
  <1>6. /\ auctions' \in Seq(AuctionRecords) /\ DOMAIN auctions \subseteq DOMAIN auctions'
        /\ n # 0 => a \in DOMAIN auctions'
    <2>1. CASE n = 0
      BY <1>1, <1>2, <2>1
    <2>2. CASE n # 0
      <3>1. /\ Append(auctions, au) \in Seq(AuctionRecords)
            /\ DOMAIN Append(auctions, au) = DOMAIN auctions \cup {Len(auctions) + 1}
        BY <1>2, <1>3, AppendShape
      <3> QED
        BY <1>1, <2>2, <3>1
    <2> QED
      BY <2>1, <2>2
  <1> HIDE DEF a
  <1>7. /\ log' \in Seq(Entries) /\ snapshot.seq <= Len(log')
        /\ \A i \in DOMAIN log' : (i \in DOMAIN log /\ log'[i] = log[i]) \/ (log'[i] = ev /\ n # 0)
        /\ Guarded' /\ Answered' /\ Remembered'
    BY <1>1, <1>5, QuietLog
  <1>8. todo \in Seq(Ids) /\ \A i \in DOMAIN todo : todo[i].auction \in DOMAIN auctions
    BY <1>1, <1>2 DEF Matchers, SettlementInv, Known, Working
  <1>9. /\ todo \o more \in Seq(Ids)
        /\ \A i \in DOMAIN (todo \o more) : (todo \o more)[i].auction \in DOMAIN auctions'
    <2> DEFINE u == todo \o more
               m == Len(todo)
    <2>1. /\ u \in Seq(Ids) /\ m \in Nat
          /\ \A i \in DOMAIN todo : u[i] = todo[i]
          /\ \A i \in DOMAIN more : u[m + i] = more[i]
          /\ \A i \in DOMAIN u : i \in DOMAIN todo \/ (i > m /\ i - m \in DOMAIN more)
      BY <1>4, <1>8, ConcatShape, SeqShape
    <2>2. DOMAIN u = 1..Len(u) /\ Len(u) \in Nat
      BY <2>1, SeqShape
    <2> HIDE DEF u, m
    <2>3. ASSUME NEW i \in DOMAIN u PROVE u[i].auction \in DOMAIN auctions'
      <3>1. CASE i \in DOMAIN todo
        BY <1>6, <1>8, <2>1, <3>1
      <3>2. CASE i - m \in DOMAIN more
        <4>1. m + (i - m) = i
          BY <2>1, <2>2
        <4> QED
          BY <1>4, <1>6, <2>1, <3>2, <4>1
      <3> QED
        BY <2>1, <3>1, <3>2
    <2> QED
      BY <2>1, <2>3 DEF u
  <1>10. /\ tick' \in Matchers /\ tick'.pc = "matching" /\ tick'.todo = todo \o more
    <2> DEFINE u == todo \o more
    <2>1. u \in Seq(Ids) /\ tick' = [tick EXCEPT !.pairs = @ \ {p}, !.todo = u]
      BY <1>1, <1>9
    <2> HIDE DEF u, todo
    <2>2. tick' \in Matchers /\ tick'.pc = "matching" /\ tick'.todo = u
      BY <1>2, <2>1 DEF Matchers
    <2> QED
      BY <2>2 DEF u
  <1>11. TypeOK'
    BY <1>1, <1>6, <1>7, <1>10 DEF SettlementInv, TypeOK, Ticks
  <1>12. Known'
    <2>1. \A i \in DOMAIN log' :
             log'[i].type = "AuctionExecuted" => log'[i].auction \in DOMAIN auctions'
      BY <1>5, <1>6, <1>7 DEF SettlementInv, Known
    <2> QED
      BY <1>9, <1>10, <2>1 DEF Known
  <1>13. Carried'
    BY <1>1, <1>10 DEF SettlementInv, Carried, Sound, RowsOf
  <1> QED
    BY <1>7, <1>11, <1>12, <1>13 DEF SettlementInv

(* A chunk is folded.                                                      *)
LEMMA FoldKeeps ==
    ASSUME SettlementInv, FoldChunk
    PROVE  SettlementInv'
  <1> DEFINE p == PairOf(Chunk)
             round == ivc_round[p] + 1
             ev == [type |-> "BatchFolded", pair |-> p, round |-> round]
  <1>1. /\ tick.pc = "proving" /\ tick.todo # << >>
        /\ ivc' = [ivc EXCEPT ![p] = Append(@, Chunk)]
        /\ ivc_round' = [ivc_round EXCEPT ![p] = round]
        /\ log' = Append(log, ev) \/ log' = log
        /\ tick' = [tick EXCEPT !.pc = "finalizing"] \/ tick' = NextChunk
        /\ UNCHANGED <<auctions, pending_batches, sub, mempool, chain, snapshot>>
    BY DEF FoldChunk, fold_step
  <1>2. tick \in Provers /\ ivc \in [Pairs -> Seq(Ids)] /\ ivc_round \in [Pairs -> Nat]
    BY <1>1, TickShape DEF SettlementInv, TypeOK
  <1>3. Chunk \in Ids /\ p \in Pairs /\ NextChunk \in Ticks /\ NextChunk.pc = "proving"
        /\ \A i \in DOMAIN NextChunk.todo : NextChunk.todo[i].auction \in DOMAIN auctions
    BY <1>1, <1>2, ChunkShape
  <1> HIDE DEF p
  <1>4. round \in Nat /\ ivc_round' \in [Pairs -> Nat]
    BY <1>1, <1>2, <1>3
  <1>5. ivc' \in [Pairs -> Seq(Ids)]
    <2>1. Append(ivc[p], Chunk) \in Seq(Ids)
      BY <1>2, <1>3, AppendShape
    <2> QED
      BY <1>1, <1>2, <2>1
  <1>6. ev \in Entries /\ ev.type = "BatchFolded"
    <2>1. ev \in Foldings
      BY <1>3, <1>4 DEF Foldings
    <2> QED
      BY <2>1 DEF Entries
  <1> HIDE DEF round, ev
  <1>7. /\ log' \in Seq(Entries) /\ snapshot.seq <= Len(log')
        /\ \A i \in DOMAIN log' : (i \in DOMAIN log /\ log'[i] = log[i]) \/ log'[i] = ev
        /\ Guarded' /\ Answered' /\ Remembered'
    BY <1>1, <1>6, QuietLog
  <1>8. /\ tick' \in Ticks /\ tick'.pc \in {"proving", "finalizing"}
        /\ tick'.pc = "finalizing" => tick'.todo # << >>
        /\ \A i \in DOMAIN tick'.todo : tick'.todo[i].auction \in DOMAIN auctions
    <2>1. CASE tick' = NextChunk
      BY <1>3, <2>1
    <2>2. CASE tick' = [tick EXCEPT !.pc = "finalizing"]
      <3>1. tick' \in Provers /\ tick'.pc = "finalizing" /\ tick'.todo = tick.todo
        BY <1>2, <2>2 DEF Provers
      <3> QED
        BY <1>1, <3>1 DEF Ticks, SettlementInv, Known, Working
    <2> QED
      BY <1>1, <2>1, <2>2
  <1>9. TypeOK'
    BY <1>1, <1>4, <1>5, <1>7, <1>8 DEF SettlementInv, TypeOK
  <1>10. Known'
    <2>1. \A i \in DOMAIN log' :
             log'[i].type = "AuctionExecuted" => log'[i].auction \in DOMAIN auctions
      BY <1>6, <1>7 DEF SettlementInv, Known
    <2> QED
      BY <1>1, <1>8, <2>1 DEF Known
  <1>11. Carried'
    BY <1>1, <1>8 DEF SettlementInv, Carried, Sound, RowsOf
  <1> QED
    BY <1>7, <1>9, <1>10, <1>11 DEF SettlementInv

-----------------------------------------------------------------------------
(* Pending batches.                                                        *)

(* A batch made of one row.                                                *)
LEMMA RowsOfOne ==
    ASSUME NEW b \in Ids
    PROVE  RowsOf(b, <<b>>) /\ <<b>> \in Seq(Ids)
  <1>1. <<b>> \in Seq(Ids) /\ DOMAIN <<b>> = {1} /\ <<b>>[1] = b
    BY OneShape
  <1> QED
    BY <1>1 DEF RowsOf

(* Flags that change on a batch.                                           *)
LEMMA FlagsChange ==
    ASSUME SettlementInv, NEW b \in DOMAIN pending_batches, NEW v \in Batches,
           v.rows = pending_batches[b].rows, v.payload = pending_batches[b].payload,
           pending_batches' = [pending_batches EXCEPT ![b] = v]
    PROVE  /\ pending_batches' \in Partial(Batches) /\ Sound(pending_batches')
           /\ DOMAIN pending_batches' = DOMAIN pending_batches
           /\ \A x \in DOMAIN pending_batches :
                pending_batches'[x].rows = pending_batches[x].rows
  <1>1. pending_batches \in Partial(Batches) /\ Sound(pending_batches)
    BY DEF SettlementInv, TypeOK, Carried
  <1>2. /\ pending_batches' \in Partial(Batches)
        /\ DOMAIN pending_batches' = DOMAIN pending_batches /\ pending_batches'[b] = v
        /\ \A x \in DOMAIN pending_batches : x # b => pending_batches'[x] = pending_batches[x]
    BY <1>1, ExceptShape
  <1>3. \A x \in DOMAIN pending_batches :
           /\ pending_batches'[x].rows = pending_batches[x].rows
           /\ pending_batches'[x].payload = pending_batches[x].payload
    BY <1>2
  <1>4. Sound(pending_batches')
    BY <1>1, <1>2, <1>3 DEF Sound
  <1> QED
    BY <1>2, <1>3, <1>4

(* BatchSubmitted and its batch.                                           *)
LEMMA FinalizeKeeps ==
    ASSUME SettlementInv, finalize_pending_batch
    PROVE  SettlementInv'
  <1> DEFINE c == Chunk
             v == [rows |-> <<c>>, payload |-> NoPayload, submitting |-> FALSE, ready |-> TRUE]
             ev == [type |-> "BatchSubmitted", batch |-> c]
  <1>1. /\ tick.pc = "finalizing"
        /\ UNCHANGED <<auctions, ivc, ivc_round, sub, mempool, chain, snapshot>>
        /\ \/ /\ log' = Append(log, ev) /\ pending_batches' = With(pending_batches, c, v)
              /\ tick' = [tick EXCEPT !.pc = "storing"]
           \/ tick' = NextChunk /\ UNCHANGED <<log, pending_batches>>
    BY DEF finalize_pending_batch
  <1>2. tick \in Provers /\ tick.todo # << >>
    BY <1>1, TickShape DEF SettlementInv, TypeOK
  <1>3. c \in Ids /\ NextChunk \in Ticks /\ NextChunk.pc = "proving"
        /\ \A i \in DOMAIN NextChunk.todo : NextChunk.todo[i].auction \in DOMAIN auctions
    BY <1>2, ChunkShape
  <1>4. CASE tick' = NextChunk /\ UNCHANGED <<log, pending_batches>>
    BY <1>1, <1>3, <1>4, TickOnly
  <1>5. CASE /\ log' = Append(log, ev) /\ pending_batches' = With(pending_batches, c, v)
             /\ tick' = [tick EXCEPT !.pc = "storing"]
    <2>1. RowsOf(c, <<c>>) /\ <<c>> \in Seq(Ids)
      BY <1>3, RowsOfOne
    <2>2. tick' \in Provers /\ tick'.pc = "storing" /\ tick'.todo = tick.todo
      BY <1>2, <1>5 DEF Provers
    <2>3. Chunk' = c
      BY <2>2 DEF Chunk
    <2> HIDE DEF c
    <2>4. v \in Batches /\ v.rows = <<c>> /\ v.payload = NoPayload
      BY <2>1, EmptySeq DEF Batches, NoPayload
    <2>5. ev \in Entries /\ ev.type = "BatchSubmitted" /\ ev.batch = c
      <3>1. ev \in BatchLogs
        BY <1>3 DEF BatchLogs, BatchTypes
      <3> QED
        BY <3>1 DEF Entries
    <2> HIDE DEF v, ev
    <2>6. /\ pending_batches' \in Partial(Batches)
          /\ DOMAIN pending_batches' = DOMAIN pending_batches \cup {c} /\ pending_batches'[c] = v
          /\ \A x \in DOMAIN pending_batches : x # c => pending_batches'[x] = pending_batches[x]
      <3>1. pending_batches \in Partial(Batches) /\ pending_batches' = With(pending_batches, c, v)
        BY <1>5 DEF SettlementInv, TypeOK
      <3> QED
        BY <1>3, <2>4, <3>1, WithShape
    <2>7. /\ log' \in Seq(Entries) /\ snapshot.seq <= Len(log')
          /\ \A i \in DOMAIN log' : (i \in DOMAIN log /\ log'[i] = log[i]) \/ log'[i] = ev
          /\ OpenIn(log', snapshot.seq) = OpenIn(log, snapshot.seq)
          /\ Logged({"BatchConfirmed"})' =
                Logged({"BatchConfirmed"}) \cup Named(ev, {"BatchConfirmed"})
          /\ OpenIn(log', Len(log')) \subseteq
                OpenIn(log, Len(log)) \cup Named(ev, {"BatchSubmitted"})
      BY <1>5, <2>5, LogGrows DEF SettlementInv
    <2>8. /\ Logged({"BatchConfirmed"})' = Logged({"BatchConfirmed"})
          /\ OpenIn(log', Len(log')) \subseteq OpenIn(log, Len(log)) \cup {c}
      BY <2>5, <2>7 DEF Named
    <2>9. TypeOK'
      BY <1>1, <1>2, <2>2, <2>6, <2>7 DEF SettlementInv, TypeOK, Ticks
    <2>10. Known'
      <3>1. \A i \in DOMAIN log' :
               log'[i].type = "AuctionExecuted" => log'[i].auction \in DOMAIN auctions
        BY <2>5, <2>7 DEF SettlementInv, Known
      <3> QED
        BY <1>1, <2>2, <3>1 DEF SettlementInv, Known, Working
    <2>11. Carried'
      <3>1. Sound(pending_batches')
        BY <2>1, <2>4, <2>6 DEF SettlementInv, Carried, Sound
      <3>2. pending_batches'[Chunk'].rows = <<Chunk'>>
        BY <2>3, <2>4, <2>6
      <3> QED
        BY <1>1, <3>1, <3>2 DEF SettlementInv, Carried
    <2>12. Guarded'
      BY <1>1 DEF SettlementInv, Guarded, RowsPaidOnce
    <2>13. Answered'
      BY <1>1, <2>8 DEF SettlementInv, Answered, Settled, ConfirmedIsSettled
    <2>14. Remembered'
      BY <1>1, <2>6, <2>7, <2>8 DEF SettlementInv, Remembered
    <2> QED
      BY <2>9, <2>10, <2>11, <2>12, <2>13, <2>14 DEF SettlementInv
  <1> QED
    BY <1>1, <1>4, <1>5

(* A step that keeps which batches are pending and their rows, and has no  *)
(* chunk at hand after it.                                                 *)
LEMMA PendingOnly ==
    ASSUME SettlementInv, pending_batches' \in Partial(Batches), Sound(pending_batches'),
           DOMAIN pending_batches' = DOMAIN pending_batches,
           tick' \in Ticks, tick'.pc \notin {"finalizing", "storing"},
           Working' => \A i \in DOMAIN tick'.todo : tick'.todo[i].auction \in DOMAIN auctions,
           UNCHANGED <<log, auctions, ivc, ivc_round, sub, mempool, chain, snapshot>>
    PROVE  SettlementInv'
  <1>1. TypeOK'
    BY DEF SettlementInv, TypeOK
  <1>2. Known'
    BY DEF SettlementInv, Known
  <1>3. Carried'
    BY DEF SettlementInv, Carried
  <1>4. Guarded'
    BY DEF SettlementInv, Guarded, RowsPaidOnce
  <1>5. Answered'
    BY DEF SettlementInv, Answered, Settled, ConfirmedIsSettled, Logged
  <1>6. Remembered'
    BY DEF SettlementInv, Remembered, Logged
  <1> QED
    BY <1>1, <1>2, <1>3, <1>4, <1>5, <1>6 DEF SettlementInv

(* The proof joins its batch.                                              *)
LEMMA StoreKeeps ==
    ASSUME SettlementInv, StorePayload
    PROVE  SettlementInv'
  <1> DEFINE c == Chunk
             zN == finalize(PairOf(c))
             v == [pending_batches[c] EXCEPT !.payload = zN]
             q == Append(tick.queue, c)
  <1>1. /\ tick.pc = "storing"
        /\ pending_batches' = IF c \in DOMAIN pending_batches
                              THEN [pending_batches EXCEPT ![c] = v] ELSE pending_batches
        /\ tick' = [NextChunk EXCEPT !.queue = Append(NextChunk.queue, c)]
        /\ UNCHANGED <<log, auctions, ivc, ivc_round, sub, mempool, chain, snapshot>>
    BY DEF StorePayload
  <1>2. tick \in Provers /\ tick.todo # << >>
    BY <1>1, TickShape DEF SettlementInv, TypeOK
  <1>3. c \in Ids /\ NextChunk.queue = tick.queue /\ PairOf(c) \in Pairs
    BY <1>2, ChunkShape
  <1>4. q \in Seq(Ids)
    <2>1. tick.queue \in Seq(Ids)
      BY <1>2 DEF Provers
    <2> QED
      BY <1>3, <2>1, AppendShape
  <1>5. tick' = [NextChunk EXCEPT !.queue = q]
    BY <1>1, <1>3
  <1>6. zN \in Seq(Ids)
    BY <1>3 DEF finalize, SettlementInv, TypeOK
  <1>7. c \in DOMAIN pending_batches => pending_batches[c].rows = <<c>>
    BY <1>1 DEF SettlementInv, Carried
  <1> HIDE DEF q
  <1>8. /\ tick' \in Ticks /\ tick'.pc = "proving"
        /\ \A i \in DOMAIN tick'.todo : tick'.todo[i].auction \in DOMAIN auctions
    BY <1>2, <1>4, <1>5, ChunkShape
  <1> HIDE DEF c, zN
  <1>9. pending_batches \in Partial(Batches) /\ Sound(pending_batches)
    BY DEF SettlementInv, TypeOK, Carried
  <1>10. /\ pending_batches' \in Partial(Batches) /\ Sound(pending_batches')
         /\ DOMAIN pending_batches' = DOMAIN pending_batches
    <2>1. CASE c \in DOMAIN pending_batches
      <3>1. v \in Batches /\ v.rows = <<c>>
        <4>1. pending_batches[c] \in Batches
          BY <1>9, <2>1, PartialShape
        <4> QED
          BY <1>6, <1>7, <2>1, <4>1 DEF Batches
      <3> HIDE DEF v
      <3>2. /\ pending_batches' \in Partial(Batches)
            /\ DOMAIN pending_batches' = DOMAIN pending_batches /\ pending_batches'[c] = v
            /\ \A x \in DOMAIN pending_batches : x # c => pending_batches'[x] = pending_batches[x]
        BY <1>1, <1>9, <2>1, <3>1, ExceptShape
      <3>3. RowsOf(c, v.rows)
        BY <1>3, <3>1, RowsOfOne
      <3> QED
        BY <1>9, <3>1, <3>2, <3>3 DEF Sound
    <2> QED
      BY <1>1, <1>9, <2>1
  <1> QED
    BY <1>1, <1>8, <1>10, PendingOnly

(* compute_backoff has run out.                                            *)
LEMMA BackoffKeeps ==
    ASSUME SettlementInv, NEW b \in DOMAIN pending_batches, BackoffElapses(b)
    PROVE  SettlementInv'
  <1> DEFINE v == [pending_batches[b] EXCEPT !.ready = TRUE]
  <1>1. /\ pending_batches' = [pending_batches EXCEPT ![b] = v]
        /\ UNCHANGED <<log, auctions, ivc, ivc_round, tick, sub, mempool, chain, snapshot>>
    BY DEF BackoffElapses
  <1>2. pending_batches[b] \in Batches
    BY PartialShape DEF SettlementInv, TypeOK
  <1>3. v \in Batches /\ v.rows = pending_batches[b].rows /\ v.payload = pending_batches[b].payload
    BY <1>2 DEF Batches
  <1> HIDE DEF v
  <1>4. /\ pending_batches' \in Partial(Batches) /\ Sound(pending_batches')
        /\ DOMAIN pending_batches' = DOMAIN pending_batches
        /\ \A x \in DOMAIN pending_batches : pending_batches'[x].rows = pending_batches[x].rows
    BY <1>1, <1>3, FlagsChange
  <1>5. TypeOK'
    BY <1>1, <1>4 DEF SettlementInv, TypeOK
  <1>6. Known'
    BY <1>1 DEF SettlementInv, Known, Working
  <1>7. Carried'
    BY <1>1, <1>4 DEF SettlementInv, Carried, Chunk
  <1>8. Guarded'
    BY <1>1 DEF SettlementInv, Guarded, RowsPaidOnce
  <1>9. Answered'
    BY <1>1 DEF SettlementInv, Answered, Settled, ConfirmedIsSettled, Logged
  <1>10. Remembered'
    BY <1>1, <1>4 DEF SettlementInv, Remembered, Logged
  <1> QED
    BY <1>5, <1>6, <1>7, <1>8, <1>9, <1>10 DEF SettlementInv

-----------------------------------------------------------------------------
(* Submissions.                                                            *)

(* Nobody waits for a transaction unless a submission does.                *)
LEMMA NoneAwaited ==
    ASSUME SettlementInv,
           sub.pc \notin {"session sent", "settle sent"} \/ sub.receipt # "none"
    PROVE  \A i \in DOMAIN mempool : ~mempool[i].awaited
  BY DEF SettlementInv, Answered

(* The head of submit_batch.                                               *)
LEMMA SubmitKeeps ==
    ASSUME SettlementInv, sub = NoSubmit, NEW b, submit_batch(b),
           tick' \in Ticks, ~Working',
           UNCHANGED <<log, auctions, ivc, ivc_round, mempool, chain, snapshot>>
    PROVE  SettlementInv'
  <1>0. tick'.pc \notin {"finalizing", "storing"}
    BY DEF Working
  <1>1. CASE b \notin DOMAIN pending_batches \/ pending_batches[b].submitting
    <2>1. UNCHANGED <<pending_batches, sub>>
      BY <1>1 DEF submit_batch
    <2> QED
      BY <1>0, <2>1, TickOnly
  <1>2. CASE b \in DOMAIN pending_batches /\ ~pending_batches[b].submitting
    <2> DEFINE pb == pending_batches[b]
               v == [pb EXCEPT !.submitting = TRUE]
               s == [pc |-> "session", batch |-> b, rows |-> pb.rows,
                     payload |-> pb.payload, receipt |-> "none"]
    <2>1. /\ pending_batches' = [pending_batches EXCEPT ![b] = v]
          /\ sub' = IF pb.payload = NoPayload THEN NoSubmit ELSE s
      BY <1>2 DEF submit_batch
    <2>2. pb \in Batches /\ b \in Ids /\ Sound(pending_batches)
      BY <1>2, PartialShape DEF SettlementInv, TypeOK, Carried
    <2>3. pb.payload # NoPayload => pb.rows = <<b>>
      BY <1>2, <2>2 DEF Sound
    <2> HIDE DEF pb
    <2>4. v \in Batches /\ v.rows = pb.rows /\ v.payload = pb.payload
      BY <2>2 DEF Batches
    <2>5. s \in Submits /\ s.pc = "session" /\ s.batch = b /\ s.rows = pb.rows /\ s.receipt = "none"
      BY <2>2 DEF Submits, SubPhases, Receipts, Batches
    <2> HIDE DEF v, s
    <2>6. /\ pending_batches' \in Partial(Batches) /\ Sound(pending_batches')
          /\ DOMAIN pending_batches' = DOMAIN pending_batches
      BY <1>2, <2>1, <2>4, FlagsChange DEF pb
    <2>7. \/ sub' = NoSubmit /\ sub'.pc = "none"
          \/ /\ sub' \in Submits /\ sub'.pc = "session" /\ sub'.rows = <<sub'.batch>>
             /\ sub'.receipt = "none"
      BY <2>1, <2>3, <2>5 DEF NoSubmit
    <2>8. \A i \in DOMAIN mempool : ~mempool[i].awaited
      BY NoneAwaited DEF NoSubmit
    <2>9. TypeOK'
      BY <1>0, <2>6, <2>7 DEF SettlementInv, TypeOK, Subs
    <2>10. Known'
      BY DEF SettlementInv, Known
    <2>11. Carried'
      BY <1>0, <2>6, <2>7 DEF SettlementInv, Carried
    <2>12. Guarded'
      BY DEF SettlementInv, Guarded, RowsPaidOnce
    <2>13. Answered'
      <3>1. ConfirmedIsSettled'
        BY DEF SettlementInv, Answered, ConfirmedIsSettled, Logged
      <3> QED
        BY <2>7, <2>8, <3>1 DEF Answered
    <2>14. Remembered'
      BY <2>6, <2>7 DEF SettlementInv, Remembered
    <2> QED
      BY <2>9, <2>10, <2>11, <2>12, <2>13, <2>14 DEF SettlementInv
  <1> QED
    BY <1>1, <1>2

(* The batches of this tick, in their order.                               *)
LEMMA SubmitQueuedKeeps ==
    ASSUME SettlementInv, SubmitQueued
    PROVE  SettlementInv'
  <1>1. /\ tick.pc = "submitting" /\ sub = NoSubmit /\ tick.queue # << >>
        /\ submit_batch(Head(tick.queue)) /\ tick' = [tick EXCEPT !.queue = Tail(@)]
        /\ UNCHANGED <<log, auctions, ivc, ivc_round, mempool, chain, snapshot>>
    BY DEF SubmitQueued
  <1>2. tick' \in Ticks /\ ~Working'
    <2>1. tick \in Submitters
      BY <1>1, TickShape DEF SettlementInv, TypeOK
    <2>2. tick.queue \in Seq(Ids)
      BY <2>1 DEF Submitters
    <2>3. Tail(tick.queue) \in Seq(Ids)
      BY <1>1, <2>2, TailShape
    <2>4. tick' \in Submitters /\ tick'.pc = "submitting"
      BY <1>1, <2>1, <2>3 DEF Submitters
    <2> QED
      BY <2>4 DEF Ticks, Working
  <1> QED
    BY <1>1, <1>2, SubmitKeeps

(* The retries.                                                            *)
LEMMA ResubmitKeeps ==
    ASSUME SettlementInv, ResubmitOne
    PROVE  SettlementInv'
  <1>1. /\ tick.pc = "retrying" /\ sub = NoSubmit
        /\ UNCHANGED <<log, auctions, ivc, ivc_round, mempool, chain, snapshot>>
    BY DEF ResubmitOne
  <1>2. PICK b \in tick.ids : submit_batch(b) /\ tick' = [tick EXCEPT !.ids = @ \ {b}]
    BY DEF ResubmitOne
  <1>3. tick' \in Ticks /\ ~Working'
    <2>1. tick \in Retriers
      BY <1>1, TickShape DEF SettlementInv, TypeOK
    <2>2. tick' \in Retriers /\ tick'.pc = "retrying"
      BY <1>2, <2>1 DEF Retriers
    <2> QED
      BY <2>2 DEF Ticks, Working
  <1> QED
    BY <1>1, <1>2, <1>3, SubmitKeeps

(* A submission given up: its batch waits for the next attempt.            *)
LEMMA GiveUpKeeps ==
    ASSUME SettlementInv, NEW b, note_submit_failure(b), mempool' \in Seq(Txs),
           \A i \in DOMAIN mempool' :
              /\ ~mempool'[i].awaited
              /\ mempool'[i].kind = "settle" => mempool'[i].data = <<mempool'[i].batch>>,
           UNCHANGED <<log, auctions, ivc, ivc_round, tick, chain, snapshot>>
    PROVE  SettlementInv'
  <1> DEFINE v == [pending_batches[b] EXCEPT !.submitting = FALSE, !.ready = FALSE]
  <1>1. /\ sub' = NoSubmit
        /\ pending_batches' = IF b \in DOMAIN pending_batches
                              THEN [pending_batches EXCEPT ![b].submitting = FALSE, ![b].ready = FALSE]
                              ELSE pending_batches
    BY DEF note_submit_failure
  <1>2. pending_batches \in Partial(Batches) /\ Sound(pending_batches)
    BY DEF SettlementInv, TypeOK, Carried
  <1>3. /\ pending_batches' \in Partial(Batches) /\ Sound(pending_batches')
        /\ DOMAIN pending_batches' = DOMAIN pending_batches
        /\ \A x \in DOMAIN pending_batches : pending_batches'[x].rows = pending_batches[x].rows
    <2>1. CASE b \in DOMAIN pending_batches
      <3>1. pending_batches[b] \in Batches /\ pending_batches \in [DOMAIN pending_batches -> Batches]
        BY <1>2, <2>1, PartialShape
      <3>2. v \in Batches /\ v.rows = pending_batches[b].rows
            /\ v.payload = pending_batches[b].payload
        BY <3>1 DEF Batches
      <3>3. pending_batches' = [pending_batches EXCEPT ![b] = v]
        BY <1>1, <2>1, <3>1
      <3> HIDE DEF v
      <3> QED
        BY <2>1, <3>2, <3>3, FlagsChange
    <2> QED
      BY <1>1, <1>2, <2>1
  <1>4. TypeOK'
    BY <1>1, <1>3 DEF SettlementInv, TypeOK, Subs
  <1>5. Known'
    BY DEF SettlementInv, Known, Working
  <1>6. sub'.pc = "none"
    BY <1>1 DEF NoSubmit
  <1>7. Carried'
    BY <1>3, <1>6 DEF SettlementInv, Carried, Chunk
  <1>8. Guarded'
    BY DEF SettlementInv, Guarded, RowsPaidOnce
  <1>9. Answered'
    <2>1. ConfirmedIsSettled'
      BY DEF SettlementInv, Answered, ConfirmedIsSettled, Logged
    <2> QED
      BY <1>6, <2>1 DEF Answered
  <1>10. Remembered'
    BY <1>3, <1>6 DEF SettlementInv, Remembered
  <1> QED
    BY <1>4, <1>5, <1>7, <1>8, <1>9, <1>10 DEF SettlementInv

(* A step of the submission in progress that sends nothing and settles     *)
(* nothing.                                                                *)
LEMMA SubOnly ==
    ASSUME SettlementInv, sub' \in Submits, sub'.rows = <<sub'.batch>>, mempool' = mempool,
           sub.pc \in {"session sent", "settle sent"} /\ sub.receipt # "none",
           sub'.pc \in {"settle", "confirm"},
           sub'.pc = "settle" => sub'.receipt = "none",
           sub'.pc = "confirm" => Settled(sub'.batch),
           UNCHANGED <<log, auctions, pending_batches, ivc, ivc_round, tick, chain, snapshot>>
    PROVE  SettlementInv'
  <1>1. TypeOK'
    BY DEF SettlementInv, TypeOK, Subs
  <1>2. Known'
    BY DEF SettlementInv, Known, Working
  <1>3. Carried'
    BY DEF SettlementInv, Carried, Chunk
  <1>4. Guarded'
    BY DEF SettlementInv, Guarded, RowsPaidOnce
  <1>5. Answered'
    <2>1. ConfirmedIsSettled'
      BY DEF SettlementInv, Answered, ConfirmedIsSettled, Logged
    <2>2. \A i \in DOMAIN mempool : ~mempool[i].awaited
      BY NoneAwaited
    <2>3. sub'.pc = "confirm" => Settled(sub.batch)'
      BY DEF Settled
    <2> QED
      BY <2>1, <2>2, <2>3 DEF Answered
  <1>6. Remembered'
    BY DEF SettlementInv, Remembered
  <1> QED
    BY <1>1, <1>2, <1>3, <1>4, <1>5, <1>6 DEF SettlementInv

(* The two awaits.                                                         *)
LEMMA AwaitKeeps ==
    ASSUME SettlementInv, AwaitSession \/ AwaitSettle
    PROVE  SettlementInv'
  <1>1. /\ sub.pc \in {"session sent", "settle sent"}
        /\ UNCHANGED <<log, auctions, ivc, ivc_round, tick, mempool, chain, snapshot>>
        /\ \/ /\ sub.pc = "session sent" /\ sub.receipt = "ok" /\ UNCHANGED pending_batches
              /\ sub' = [sub EXCEPT !.pc = "settle", !.receipt = "none"]
           \/ /\ sub.pc = "settle sent" /\ sub.receipt = "ok" /\ UNCHANGED pending_batches
              /\ sub' = [sub EXCEPT !.pc = "confirm"]
           \/ sub.receipt = "reverted" /\ note_submit_failure(sub.batch)
    BY DEF AwaitSession, AwaitSettle
  <1>2. sub \in Submits /\ sub.rows = <<sub.batch>>
    BY <1>1, SubShape DEF SettlementInv, TypeOK, Carried, SubPhases
  <1>3. CASE sub.receipt = "reverted" /\ note_submit_failure(sub.batch)
    <2>1. \A i \in DOMAIN mempool : ~mempool[i].awaited
      BY <1>3, NoneAwaited
    <2>2. mempool' \in Seq(Txs) /\ \A i \in DOMAIN mempool :
             mempool[i].kind = "settle" => mempool[i].data = <<mempool[i].batch>>
      BY <1>1 DEF SettlementInv, TypeOK, Carried
    <2> QED
      BY <1>1, <1>3, <2>1, <2>2, GiveUpKeeps
  <1>4. CASE /\ sub.pc = "session sent" /\ sub.receipt = "ok" /\ UNCHANGED pending_batches
             /\ sub' = [sub EXCEPT !.pc = "settle", !.receipt = "none"]
    <2>1. sub' \in Submits /\ sub'.pc = "settle" /\ sub'.receipt = "none"
          /\ sub'.rows = sub.rows /\ sub'.batch = sub.batch
      BY <1>2, <1>4 DEF Submits, SubPhases, Receipts
    <2> QED
      BY <1>1, <1>2, <1>4, <2>1, SubOnly
  <1>5. CASE /\ sub.pc = "settle sent" /\ sub.receipt = "ok" /\ UNCHANGED pending_batches
             /\ sub' = [sub EXCEPT !.pc = "confirm"]
    <2>1. sub' \in Submits /\ sub'.pc = "confirm"
          /\ sub'.rows = sub.rows /\ sub'.batch = sub.batch
      BY <1>2, <1>5 DEF Submits, SubPhases, Receipts
    <2>2. Settled(sub.batch)
      BY <1>5 DEF SettlementInv, Answered
    <2> QED
      BY <1>1, <1>2, <1>5, <2>1, <2>2, SubOnly
  <1> QED
    BY <1>1, <1>3, <1>4, <1>5

(* A transaction is sent.                                                  *)
LEMMA SendKeeps ==
    ASSUME SettlementInv, SendSession \/ SendSettle
    PROVE  SettlementInv'
  <1> DEFINE tx(kind, data) ==
               [kind |-> kind, batch |-> sub.batch, data |-> data, awaited |-> TRUE]
  <1>1. /\ UNCHANGED <<log, auctions, pending_batches, ivc, ivc_round, tick, chain, snapshot>>
        /\ \/ /\ sub.pc = "session" /\ sub' = [sub EXCEPT !.pc = "session sent"]
              /\ mempool' = Append(mempool, tx("session", sub.payload))
           \/ /\ sub.pc = "settle" /\ sub' = [sub EXCEPT !.pc = "settle sent"]
              /\ mempool' = Append(mempool, tx("settle", sub.rows))
    BY DEF SendSession, SendSettle, Send
  <1>2. sub \in Submits /\ sub.rows = <<sub.batch>> /\ sub.receipt = "none"
    BY <1>1, SubShape DEF SettlementInv, TypeOK, Carried, SubPhases, Answered
  <1>3. PICK t \in Txs :
           /\ mempool' = Append(mempool, t) /\ t.awaited /\ t.batch = sub.batch
           /\ t.kind = "settle" => t.data = <<t.batch>>
           /\ sub'.pc = "settle sent" <=> t.kind = "settle"
           /\ sub'.pc \in {"session sent", "settle sent"}
           /\ sub' \in Submits /\ sub'.rows = sub.rows /\ sub'.batch = sub.batch
           /\ sub'.receipt = "none"
    <2>1. CASE /\ sub.pc = "session" /\ sub' = [sub EXCEPT !.pc = "session sent"]
               /\ mempool' = Append(mempool, tx("session", sub.payload))
      <3>1. /\ tx("session", sub.payload) \in Txs /\ sub' \in Submits
            /\ sub'.pc = "session sent" /\ sub'.rows = sub.rows /\ sub'.batch = sub.batch
            /\ sub'.receipt = "none"
        BY <1>2, <2>1 DEF Submits, SubPhases, Receipts, Txs
      <3> QED
        BY <2>1, <3>1
    <2>2. CASE /\ sub.pc = "settle" /\ sub' = [sub EXCEPT !.pc = "settle sent"]
               /\ mempool' = Append(mempool, tx("settle", sub.rows))
      <3>1. /\ tx("settle", sub.rows) \in Txs /\ sub' \in Submits
            /\ sub'.pc = "settle sent" /\ sub'.rows = sub.rows /\ sub'.batch = sub.batch
            /\ sub'.receipt = "none"
        BY <1>2, <2>2 DEF Submits, SubPhases, Receipts, Txs
      <3> QED
        BY <1>2, <2>2, <3>1
    <2> QED
      BY <1>1, <2>1, <2>2
  <1>4. mempool \in Seq(Txs)
    BY DEF SettlementInv, TypeOK
  <1>5. /\ mempool' \in Seq(Txs) /\ Len(mempool') = Len(mempool) + 1
        /\ DOMAIN mempool' = DOMAIN mempool \cup {Len(mempool) + 1}
        /\ \A i \in DOMAIN mempool : mempool'[i] = mempool[i]
        /\ mempool'[Len(mempool) + 1] = t
    <2> DEFINE m == Append(mempool, t)
    <2>1. /\ m \in Seq(Txs) /\ Len(m) = Len(mempool) + 1
          /\ DOMAIN m = DOMAIN mempool \cup {Len(mempool) + 1}
          /\ \A i \in DOMAIN mempool : m[i] = mempool[i]
          /\ m[Len(mempool) + 1] = t
      BY <1>4, AppendShape
    <2>2. mempool' = m
      BY <1>3
    <2> QED
      BY <2>1, <2>2, Zenon
  <1>6. \A i \in DOMAIN mempool : ~mempool[i].awaited
    <2>1. sub.pc \notin {"session sent", "settle sent"}
      BY <1>1
    <2> QED
      BY <2>1, NoneAwaited
  <1>7. TypeOK'
    BY <1>1, <1>3, <1>5 DEF SettlementInv, TypeOK, Subs
  <1>8. Known'
    BY <1>1 DEF SettlementInv, Known, Working
  <1>9. Carried'
    <2>1. \A i \in DOMAIN mempool' :
             mempool'[i].kind = "settle" => mempool'[i].data = <<mempool'[i].batch>>
      <3>1. \A i \in DOMAIN mempool :
               mempool[i].kind = "settle" => mempool[i].data = <<mempool[i].batch>>
        BY DEF SettlementInv, Carried
      <3> QED
        BY ZenonT(60), <1>3, <1>5, <3>1
    <2>2. sub'.rows = <<sub'.batch>>
      BY <1>2, <1>3
    <2> QED
      BY <1>1, <2>1, <2>2 DEF SettlementInv, Carried, Chunk
  <1>10. Guarded'
    BY <1>1 DEF SettlementInv, Guarded, RowsPaidOnce
  <1>11. Answered'
    <2>1. ConfirmedIsSettled'
      BY <1>1 DEF SettlementInv, Answered, ConfirmedIsSettled, Logged
    <2>2. \A i \in DOMAIN mempool' : mempool'[i].awaited => i = Len(mempool') /\ mempool'[i] = t
      BY <1>5, <1>6
    <2> QED
      BY <1>3, <2>1, <2>2 DEF Answered
  <1>12. Remembered'
    BY <1>1, <1>3 DEF SettlementInv, Remembered
  <1> QED
    BY <1>7, <1>8, <1>9, <1>10, <1>11, <1>12 DEF SettlementInv

(* The transactions nobody waits for any more.                             *)
LEMMA UnawaitedShape ==
    ASSUME SettlementInv, mempool' = Unawaited
    PROVE  /\ mempool' \in Seq(Txs)
           /\ \A i \in DOMAIN mempool' :
                 /\ ~mempool'[i].awaited
                 /\ mempool'[i].kind = "settle" => mempool'[i].data = <<mempool'[i].batch>>
  <1>1. mempool \in Seq(Txs)
        /\ \A i \in DOMAIN mempool :
              mempool[i].kind = "settle" => mempool[i].data = <<mempool[i].batch>>
    BY DEF SettlementInv, TypeOK, Carried
  <1>2. Len(mempool) \in Nat /\ DOMAIN mempool = 1..Len(mempool)
        /\ \A i \in DOMAIN mempool : mempool[i] \in Txs
    BY <1>1, SeqShape
  <1>3. \A i \in DOMAIN mempool :
           LET x == [mempool[i] EXCEPT !.awaited = FALSE]
           IN  /\ x \in Txs /\ ~x.awaited /\ x.kind = mempool[i].kind
               /\ x.data = mempool[i].data /\ x.batch = mempool[i].batch
    BY <1>2 DEF Txs
  <1>4. mempool' \in [1..Len(mempool) -> Txs] /\ DOMAIN mempool' = DOMAIN mempool
    BY <1>2, <1>3 DEF Unawaited
  <1>5. mempool' \in Seq(Txs)
    BY <1>2, <1>4, SeqDef
  <1>6. \A i \in DOMAIN mempool :
           /\ ~mempool'[i].awaited /\ mempool'[i].kind = mempool[i].kind
           /\ mempool'[i].data = mempool[i].data /\ mempool'[i].batch = mempool[i].batch
    BY <1>3 DEF Unawaited
  <1> QED
    BY <1>1, <1>4, <1>5, <1>6

(* submit_timeout or an RPC error.                                         *)
LEMMA SubmitFailsKeeps ==
    ASSUME SettlementInv, SubmitFails
    PROVE  SettlementInv'
  <1>1. /\ note_submit_failure(sub.batch) /\ mempool' \in {Unawaited, Dropped}
        /\ UNCHANGED <<log, auctions, ivc, ivc_round, tick, chain, snapshot>>
    BY DEF SubmitFails
  <1>2. mempool \in Seq(Txs)
        /\ \A i \in DOMAIN mempool :
              /\ mempool[i].kind = "settle" => mempool[i].data = <<mempool[i].batch>>
              /\ mempool[i].awaited => i = Len(mempool)
    BY DEF SettlementInv, TypeOK, Carried, Answered
  <1>3. Len(mempool) \in Nat /\ DOMAIN mempool = 1..Len(mempool)
        /\ \A i \in DOMAIN mempool : mempool[i] \in Txs
    BY <1>2, SeqShape
  <1>4. /\ mempool' \in Seq(Txs)
        /\ \A i \in DOMAIN mempool' :
              /\ ~mempool'[i].awaited
              /\ mempool'[i].kind = "settle" => mempool'[i].data = <<mempool'[i].batch>>
    <2>1. CASE mempool' = Unawaited
      BY <2>1, UnawaitedShape
    <2>2. CASE mempool' = Dropped /\ mempool # << >> /\ mempool[Len(mempool)].awaited
      <3>1. mempool' = Front(mempool)
        BY <2>2 DEF Dropped, Last
      <3>2. /\ mempool' \in Seq(Txs)
            /\ \A i \in DOMAIN mempool' :
                  i \in DOMAIN mempool /\ mempool'[i] = mempool[i] /\ i # Len(mempool)
        BY <1>2, <2>2, <3>1, FrontShape
      <3> QED
        BY <1>2, <3>2
    <2>3. CASE mempool' = Dropped /\ ~(mempool # << >> /\ mempool[Len(mempool)].awaited)
      <3>1. mempool' = mempool
        BY <2>3 DEF Dropped, Last
      <3>2. mempool = << >> \/ ~mempool[Len(mempool)].awaited
        BY <2>3
      <3>3. \A i \in DOMAIN mempool : ~mempool[i].awaited
        BY <1>2, <3>2
      <3> QED
        BY <1>2, <3>1, <3>3
    <2> QED
      BY <1>1, <2>1, <2>2, <2>3
  <1> QED
    BY <1>1, <1>4, GiveUpKeeps

(* BatchConfirmed in the log ...                                           *)
LEMMA PersistConfirmedKeeps ==
    ASSUME SettlementInv, PersistConfirmed
    PROVE  SettlementInv'
  <1> DEFINE b == sub.batch
             ev == [type |-> "BatchConfirmed", batch |-> b]
  <1>1. /\ sub.pc = "confirm"
        /\ UNCHANGED <<auctions, ivc, ivc_round, tick, mempool, chain, snapshot>>
        /\ \/ /\ log' = Append(log, ev) /\ sub' = [sub EXCEPT !.pc = "apply"]
              /\ UNCHANGED pending_batches
           \/ note_submit_failure(b) /\ UNCHANGED log
    BY DEF PersistConfirmed
  <1>2. sub \in Submits /\ sub.rows = <<b>> /\ Settled(b)
    BY <1>1, SubShape DEF SettlementInv, TypeOK, Carried, SubPhases, Answered
  <1>3. \A i \in DOMAIN mempool : ~mempool[i].awaited
    BY <1>1, NoneAwaited
  <1>4. CASE note_submit_failure(b) /\ UNCHANGED log
    <2>1. mempool' \in Seq(Txs) /\ \A i \in DOMAIN mempool :
             mempool[i].kind = "settle" => mempool[i].data = <<mempool[i].batch>>
      BY <1>1 DEF SettlementInv, TypeOK, Carried
    <2> QED
      BY <1>1, <1>3, <1>4, <2>1, GiveUpKeeps
  <1>5. CASE /\ log' = Append(log, ev) /\ sub' = [sub EXCEPT !.pc = "apply"]
             /\ UNCHANGED pending_batches
    <2>1. /\ sub' \in Submits /\ sub'.pc = "apply" /\ sub'.rows = <<b>> /\ sub'.batch = b
          /\ b \in Ids
      BY <1>2, <1>5 DEF Submits, SubPhases
    <2> HIDE DEF b
    <2>2. ev \in Entries /\ ev.type = "BatchConfirmed" /\ ev.batch = b
      <3>1. ev \in BatchLogs
        BY <2>1 DEF BatchLogs, BatchTypes
      <3> QED
        BY <3>1 DEF Entries
    <2> HIDE DEF ev
    <2>3. /\ log' \in Seq(Entries) /\ snapshot.seq <= Len(log')
          /\ \A i \in DOMAIN log' : (i \in DOMAIN log /\ log'[i] = log[i]) \/ log'[i] = ev
          /\ OpenIn(log', snapshot.seq) = OpenIn(log, snapshot.seq)
          /\ Logged({"BatchConfirmed"})' =
                Logged({"BatchConfirmed"}) \cup Named(ev, {"BatchConfirmed"})
          /\ OpenIn(log', Len(log')) \subseteq
                OpenIn(log, Len(log)) \cup Named(ev, {"BatchSubmitted"})
      BY <1>5, <2>2, LogGrows DEF SettlementInv
    <2>4. /\ Logged({"BatchConfirmed"})' = Logged({"BatchConfirmed"}) \cup {b}
          /\ OpenIn(log', Len(log')) \subseteq OpenIn(log, Len(log))
      BY <2>2, <2>3 DEF Named
    <2>5. TypeOK'
      BY <1>1, <1>5, <2>1, <2>3 DEF SettlementInv, TypeOK, Subs
    <2>6. Known'
      <3>1. \A i \in DOMAIN log' :
               log'[i].type = "AuctionExecuted" => log'[i].auction \in DOMAIN auctions
        BY <2>2, <2>3 DEF SettlementInv, Known
      <3> QED
        BY <1>1, <3>1 DEF SettlementInv, Known, Working
    <2>7. Carried'
      BY <1>1, <1>5, <2>1 DEF SettlementInv, Carried, Chunk
    <2>8. Guarded'
      BY <1>1 DEF SettlementInv, Guarded, RowsPaidOnce
    <2>9. Answered'
      <3>1. ConfirmedIsSettled'
        BY <1>1, <1>2, <2>4 DEF SettlementInv, Answered, ConfirmedIsSettled, Settled
      <3>2. Settled(sub.batch)'
        BY <1>1, <1>2, <2>1 DEF Settled
      <3> QED
        BY <1>1, <1>3, <2>1, <3>1, <3>2 DEF Answered
    <2>10. Remembered'
      BY <1>1, <1>5, <2>1, <2>3, <2>4 DEF SettlementInv, Remembered
    <2> QED
      BY <2>5, <2>6, <2>7, <2>8, <2>9, <2>10 DEF SettlementInv
  <1> QED
    BY <1>1, <1>4, <1>5

(* ... and applied.                                                        *)
LEMMA ApplyConfirmedKeeps ==
    ASSUME SettlementInv, ApplyConfirmed
    PROVE  SettlementInv'
  <1> DEFINE b == sub.batch
  <1>1. /\ sub.pc = "apply" /\ pending_batches' = Without(pending_batches, b) /\ sub' = NoSubmit
        /\ UNCHANGED <<log, auctions, ivc, ivc_round, tick, mempool, chain, snapshot>>
    BY DEF ApplyConfirmed
  <1>2. pending_batches \in Partial(Batches) /\ log \in Seq(Entries)
    BY DEF SettlementInv, TypeOK
  <1>3. /\ pending_batches' \in Partial(Batches)
        /\ DOMAIN pending_batches' = DOMAIN pending_batches \ {b}
        /\ \A x \in DOMAIN pending_batches \ {b} : pending_batches'[x] = pending_batches[x]
    <2> HIDE DEF b
    <2> DEFINE f == Without(pending_batches, b)
    <2>1. /\ f \in Partial(Batches) /\ DOMAIN f = DOMAIN pending_batches \ {b}
          /\ \A x \in DOMAIN pending_batches \ {b} : f[x] = pending_batches[x]
      BY <1>2, WithoutShape
    <2>2. pending_batches' = f
      BY <1>1
    <2> QED
      BY <2>1, <2>2, Zenon
  <1>4. b \notin OpenIn(log, Len(log))
    <2>1. b \in Logged({"BatchConfirmed"})
      BY <1>1 DEF SettlementInv, Remembered
    <2>2. b \in LoggedIn(log, Len(log), {"BatchConfirmed"})
      BY <1>2, <2>1, LoggedWhole
    <2> QED
      BY <2>2 DEF OpenIn, LoggedIn, Closings
  <1>5. sub'.pc = "none"
    BY <1>1 DEF NoSubmit
  <1>6. TypeOK'
    BY <1>1, <1>3 DEF SettlementInv, TypeOK, Subs
  <1>7. Known'
    BY <1>1 DEF SettlementInv, Known, Working
  <1>8. Carried'
    BY <1>1, <1>3, <1>5 DEF SettlementInv, Carried, Chunk, Sound
  <1>9. Guarded'
    BY <1>1 DEF SettlementInv, Guarded, RowsPaidOnce
  <1>10. Answered'
    <2>1. ConfirmedIsSettled'
      BY <1>1 DEF SettlementInv, Answered, ConfirmedIsSettled, Logged
    <2>2. \A i \in DOMAIN mempool : ~mempool[i].awaited
      BY <1>1, NoneAwaited
    <2> QED
      BY <1>1, <1>5, <2>1, <2>2 DEF Answered
  <1>11. Remembered'
    BY <1>1, <1>3, <1>4, <1>5 DEF SettlementInv, Remembered
  <1> QED
    BY <1>6, <1>7, <1>8, <1>9, <1>10, <1>11 DEF SettlementInv

-----------------------------------------------------------------------------
(* The chain.                                                              *)

(* Rows of an auction that nothing has been paid of, after all the others. *)
LEMMA PaymentsDiffer ==
    ASSUME NEW paid \in Seq(Ids), NEW rows \in Seq(Ids), NEW G, NEW b \in Ids,
           \A i, j \in DOMAIN paid : paid[i] = paid[j] => i = j,
           \A i \in DOMAIN paid : paid[i].auction \in G,
           RowsOf(b, rows), b.auction \notin G
    PROVE  LET all == paid \o rows IN
           /\ all \in Seq(Ids)
           /\ \A i, j \in DOMAIN all : all[i] = all[j] => i = j
           /\ \A i \in DOMAIN all : all[i].auction \in G \cup {b.auction}
           /\ ToSet(paid) \subseteq ToSet(all) /\ ToSet(rows) \subseteq ToSet(all)
  <1> DEFINE all == paid \o rows
             m == Len(paid)
  <1>1. /\ all \in Seq(Ids) /\ m \in Nat
        /\ \A i \in DOMAIN paid : i \in DOMAIN all /\ all[i] = paid[i]
        /\ \A i \in DOMAIN rows : m + i \in DOMAIN all /\ all[m + i] = rows[i]
        /\ \A i \in DOMAIN all : i \in DOMAIN paid \/ (i > m /\ i - m \in DOMAIN rows)
    BY ConcatShape, SeqShape
  <1>2. DOMAIN all = 1..Len(all) /\ Len(all) \in Nat
    BY <1>1, SeqShape
  <1> HIDE DEF all, m
  <1>3. \A i \in DOMAIN all : i \in DOMAIN paid \/ (i - m \in DOMAIN rows /\ all[i] = rows[i - m])
    <2> TAKE i \in DOMAIN all
    <2>1. m + (i - m) = i
      BY <1>1, <1>2
    <2> QED
      BY <1>1, <2>1
  <1>4. \A i \in DOMAIN all : \/ i \in DOMAIN paid /\ all[i].auction \in G
                              \/ i - m \in DOMAIN rows /\ all[i].auction = b.auction
                                 /\ all[i] = rows[i - m]
    BY <1>1, <1>3 DEF RowsOf
  <1>5. ASSUME NEW i \in DOMAIN all, NEW j \in DOMAIN all, all[i] = all[j] PROVE i = j
    <2>1. CASE i \in DOMAIN paid /\ j \in DOMAIN paid
      BY <1>1, <1>5, <2>1
    <2>2. CASE i - m \in DOMAIN rows /\ j - m \in DOMAIN rows
               /\ all[i] = rows[i - m] /\ all[j] = rows[j - m]
      <3>1. i - m = j - m
        BY <1>5, <2>2 DEF RowsOf
      <3> QED
        BY <1>1, <1>2, <3>1
    <2> QED
      BY <1>1, <1>4, <1>5, <2>1, <2>2
  <1>6. ToSet(paid) \subseteq ToSet(all) /\ ToSet(rows) \subseteq ToSet(all)
    BY <1>1 DEF ToSet
  <1>7. \A i \in DOMAIN all : all[i].auction \in G \cup {b.auction}
    BY <1>4
  <1> QED
    BY <1>1, <1>5, <1>6, <1>7 DEF all

(* What an accepted transaction does to the contract.                      *)
LEMMA ExecuteKeeps ==
    ASSUME SettlementInv, NEW tx \in Txs, Accepted(tx), chain' = Executed(tx),
           tx.kind = "settle" => tx.data = <<tx.batch>>
    PROVE  /\ chain' \in Contracts /\ Guarded'
           /\ \A b : Settled(b) => Settled(b)'
           /\ tx.kind = "settle" => Settled(tx.batch)'
  <1> DEFINE b == tx.batch
  <1>1. /\ chain \in Contracts /\ b \in Ids /\ tx.data \in Seq(Ids)
        /\ tx.kind \in {"session", "settle"}
    BY DEF SettlementInv, TypeOK, Txs
  <1>2. /\ chain.sessions \in Partial(Seq(Ids)) /\ chain.paid \in Seq(Ids)
        /\ chain.sessionSettled \subseteq Ids /\ chain.settledAuction \subseteq Nat
    BY <1>1 DEF Contracts
  <1>3. CASE tx.kind = "session"
    <2> DEFINE s == With(chain.sessions, b, tx.data)
    <2>1. s \in Partial(Seq(Ids))
      BY <1>1, <1>2, WithShape
    <2>2. chain' = [chain EXCEPT !.sessions = s]
      BY <1>3 DEF Executed, submitSession
    <2> HIDE DEF s
    <2>3. /\ chain' \in Contracts /\ chain'.paid = chain.paid
          /\ chain'.sessionSettled = chain.sessionSettled
          /\ chain'.settledAuction = chain.settledAuction
      BY <1>1, <2>1, <2>2 DEF Contracts
    <2>4. Guarded'
      BY <2>3 DEF SettlementInv, Guarded, RowsPaidOnce
    <2>5. \A x : Settled(x) => Settled(x)'
      BY <2>3 DEF Settled
    <2> QED
      BY <1>3, <2>3, <2>4, <2>5
  <1>4. CASE tx.kind = "settle"
    <2> DEFINE all == chain.paid \o <<b>>
               G == chain.settledAuction \cup {b.auction}
               K == chain.sessionSettled \cup {b}
    <2>1. b.auction \notin chain.settledAuction /\ tx.data = <<b>>
      BY <1>4 DEF Accepted, SettleAccepted
    <2>2. RowsOf(b, <<b>>) /\ <<b>> \in Seq(Ids)
      BY <1>1, RowsOfOne
    <2>3. /\ \A i, j \in DOMAIN chain.paid : chain.paid[i] = chain.paid[j] => i = j
          /\ \A i \in DOMAIN chain.paid : chain.paid[i].auction \in chain.settledAuction
      BY DEF SettlementInv, Guarded, RowsPaidOnce
    <2>4. /\ all \in Seq(Ids) /\ \A i, j \in DOMAIN all : all[i] = all[j] => i = j
          /\ \A i \in DOMAIN all : all[i].auction \in G
          /\ ToSet(chain.paid) \subseteq ToSet(all) /\ ToSet(<<b>>) \subseteq ToSet(all)
      BY <1>1, <1>2, <2>1, <2>2, <2>3, PaymentsDiffer
    <2>5. b \in ToSet(all)
      <3>1. b \in ToSet(<<b>>)
        BY DEF ToSet
      <3> QED
        BY <2>4, <3>1
    <2>6. chain' = [chain EXCEPT !.settledAuction = G, !.sessionSettled = K, !.paid = all]
      BY <1>4, <2>1 DEF Executed, settleAuction
    <2>7. G \subseteq Nat /\ K \subseteq Ids
      BY <1>1, <1>2 DEF Ids
    <2> HIDE DEF G, all, K
    <2>8. /\ chain' \in Contracts /\ chain'.paid = all
          /\ chain'.sessionSettled = K /\ chain'.settledAuction = G
      BY ZenonT(60), <1>1, <2>4, <2>6, <2>7 DEF Contracts
    <2>9. Guarded'
      BY <2>4, <2>8 DEF Guarded, RowsPaidOnce
    <2>10. (\A x : Settled(x) => Settled(x)') /\ Settled(tx.batch)'
      BY <2>4, <2>5, <2>8 DEF Settled, K
    <2> QED
      BY <2>8, <2>9, <2>10
  <1> QED
    BY <1>1, <1>3, <1>4

(* A receipt that a submission reads.                                      *)
LEMMA MineKeeps ==
    ASSUME SettlementInv, Mine
    PROVE  SettlementInv'
  <1>0. mempool # << >> /\ mempool \in Seq(Txs)
    BY DEF Mine, SettlementInv, TypeOK
  <1>a. Head(mempool) \in Txs
    BY <1>0, TailShape
  <1> DEFINE hd == Head(mempool)
  <1> HIDE DEF hd
  <1>b. PICK tx \in Txs : tx = hd
    BY <1>a DEF hd
  <1>1. /\ mempool # << >> /\ mempool' = Tail(mempool)
        /\ UNCHANGED <<log, auctions, pending_batches, ivc, ivc_round, tick, snapshot>>
        /\ \/ Accepted(tx) /\ chain' = Executed(tx) /\ Receive(tx, "ok")
           \/ Receive(tx, "reverted") /\ UNCHANGED chain
    BY <1>b DEF Mine, hd
  <1>2. mempool \in Seq(Txs)
    BY DEF SettlementInv, TypeOK
  <1>3. /\ mempool' \in Seq(Txs) /\ Len(mempool') = Len(mempool) - 1
        /\ \A i \in DOMAIN mempool' : i + 1 \in DOMAIN mempool /\ mempool'[i] = mempool[i + 1]
        /\ 1 \in DOMAIN mempool /\ tx = mempool[1]
    <2> DEFINE m == Tail(mempool)
    <2>1. /\ m \in Seq(Txs) /\ Len(m) = Len(mempool) - 1
          /\ \A i \in DOMAIN m : i + 1 \in DOMAIN mempool /\ m[i] = mempool[i + 1]
          /\ 1 \in DOMAIN mempool /\ hd = mempool[1]
      BY <1>1, <1>2, TailShape DEF hd
    <2>2. mempool' = m
      BY <1>1
    <2> HIDE DEF m
    <2> QED
      BY <1>b, <2>1, <2>2
  <1>4. tx.kind = "settle" => tx.data = <<tx.batch>>
    BY <1>3 DEF SettlementInv, Carried
  <1>5. /\ chain' \in Contracts /\ Guarded' /\ \A b : Settled(b) => Settled(b)'
    <2>1. CASE chain' = chain
      <3>1. chain' \in Contracts
        BY <2>1 DEF SettlementInv, TypeOK
      <3>2. Guarded'
        BY <2>1 DEF SettlementInv, Guarded, RowsPaidOnce
      <3>3. \A b : Settled(b) => Settled(b)'
        BY <2>1 DEF Settled
      <3> QED
        BY <3>1, <3>2, <3>3
    <2>2. CASE Accepted(tx) /\ chain' = Executed(tx)
      BY <1>3, <1>4, <2>2, ExecuteKeeps
    <2> QED
      BY <1>1, <2>1, <2>2
  <1>6. ConfirmedIsSettled'
    <2>1. \A b \in Logged({"BatchConfirmed"}) : Settled(b)'
      BY <1>5 DEF SettlementInv, Answered, ConfirmedIsSettled, Settled
    <2> QED
      BY <1>1, <2>1 DEF ConfirmedIsSettled, Settled, Logged
  <1>7. CASE tx.awaited
    <2>1. /\ 1 = Len(mempool) /\ sub.pc \in {"session sent", "settle sent"}
          /\ sub.batch = tx.batch /\ (sub.pc = "settle sent" <=> tx.kind = "settle")
      BY <1>3, <1>7 DEF SettlementInv, Answered
    <2>2. sub \in Submits /\ sub.rows = <<sub.batch>>
      BY <2>1, SubShape DEF SettlementInv, TypeOK, Carried, SubPhases
    <2>3. \E r \in {"ok", "reverted"} : Receive(tx, r) /\ (r = "ok" => Accepted(tx) /\ chain' = Executed(tx))
      BY <1>1
    <2>4. PICK r \in {"ok", "reverted"} :
             /\ sub' = [sub EXCEPT !.receipt = r]
             /\ r = "ok" => Accepted(tx) /\ chain' = Executed(tx)
      BY <1>7, <2>3 DEF Receive
    <2>5. /\ sub' \in Submits /\ sub'.pc = sub.pc /\ sub'.receipt = r
          /\ sub'.batch = sub.batch /\ sub'.rows = sub.rows
      BY <2>2, <2>4 DEF Submits, Receipts
    <2>6. DOMAIN mempool' = {}
      <3> DEFINE n == Len(mempool')
      <3>0. DOMAIN mempool' = 1..n /\ n = Len(mempool) - 1
        BY <1>3, SeqShape
      <3> HIDE DEF n
      <3>a. n = 1 - 1
        BY <2>1, <3>0, Zenon
      <3>1. n = 0 /\ DOMAIN mempool' = 1..n
        BY <3>0, <3>a
      <3> QED
        BY <3>1
    <2>7. sub.pc = "settle sent" /\ r = "ok" => Settled(sub.batch)'
      <3>1. SUFFICES ASSUME sub.pc = "settle sent", r = "ok" PROVE Settled(sub.batch)'
        OBVIOUS
      <3>2. Settled(tx.batch)'
        BY <1>3, <1>4, <2>1, <2>4, <3>1, ExecuteKeeps
      <3> QED
        BY <2>1, <2>5, <3>2 DEF Settled, ToSet
    <2>8. TypeOK'
      BY <1>1, <1>3, <1>5, <2>5 DEF SettlementInv, TypeOK, Subs
    <2>9. Known'
      BY <1>1 DEF SettlementInv, Known, Working
    <2>10. Carried'
      BY <1>1, <2>2, <2>5, <2>6 DEF SettlementInv, Carried, Chunk
    <2>11. Answered'
      BY <1>6, <2>1, <2>5, <2>6, <2>7 DEF Answered
    <2>12. Remembered'
      BY <1>1, <2>1, <2>5 DEF SettlementInv, Remembered
    <2> QED
      BY <1>5, <2>8, <2>9, <2>10, <2>11, <2>12 DEF SettlementInv
  <1>8. CASE ~tx.awaited
    <2>1. sub' = sub
      BY <1>1, <1>8 DEF Receive
    <2>2. TypeOK'
      BY <1>1, <1>3, <1>5, <2>1 DEF SettlementInv, TypeOK
    <2>3. Known'
      BY <1>1 DEF SettlementInv, Known, Working
    <2>4. Carried'
      <3>1. \A i \in DOMAIN mempool' :
               mempool'[i].kind = "settle" => mempool'[i].data = <<mempool'[i].batch>>
        BY <1>3 DEF SettlementInv, Carried
      <3> QED
        BY <1>1, <2>1, <3>1 DEF SettlementInv, Carried, Chunk
    <2>5. Answered'
      <3>1. ASSUME NEW i \in DOMAIN mempool', mempool'[i].awaited
            PROVE  /\ i = Len(mempool')
                   /\ sub.pc \in {"session sent", "settle sent"} /\ sub.receipt = "none"
                   /\ sub.batch = mempool'[i].batch
                   /\ sub.pc = "settle sent" <=> mempool'[i].kind = "settle"
        <4>1. i + 1 \in DOMAIN mempool /\ mempool'[i] = mempool[i + 1]
          BY <1>3
        <4>2. /\ i + 1 = Len(mempool)
              /\ sub.pc \in {"session sent", "settle sent"} /\ sub.receipt = "none"
              /\ sub.batch = mempool[i + 1].batch
              /\ sub.pc = "settle sent" <=> mempool[i + 1].kind = "settle"
          BY <3>1, <4>1 DEF SettlementInv, Answered
        <4>3. i = Len(mempool) - 1
          <5> DEFINE n == Len(mempool)
          <5>a. Len(mempool') \in Nat /\ DOMAIN mempool' = 1..Len(mempool')
            BY <1>3, SeqShape
          <5>b. i \in Int
            BY <3>1, <5>a
          <5>1. i \in Int /\ i + 1 = n
            BY <4>2, <5>b
          <5> HIDE DEF n
          <5>2. i = n - 1
            BY <5>1
          <5> QED
            BY <5>2 DEF n
        <4> QED
          BY <1>3, <4>1, <4>2, <4>3
      <3>2. /\ sub.pc = "settle sent" /\ sub.receipt = "ok" => Settled(sub.batch)'
            /\ sub.pc \in {"confirm", "apply"} => Settled(sub.batch)'
        <4>1. Settled(sub.batch) => Settled(sub.batch)'
          BY <1>5, <2>1 DEF Settled
        <4> QED
          BY <4>1 DEF SettlementInv, Answered
      <3>3. sub.pc \in {"session", "settle"} => sub.receipt = "none"
        BY DEF SettlementInv, Answered
      <3> QED
        BY <1>6, <2>1, <3>1, <3>2, <3>3 DEF Answered
    <2>6. Remembered'
      BY <1>1, <2>1 DEF SettlementInv, Remembered, Logged
    <2> QED
      BY <1>5, <2>2, <2>3, <2>4, <2>5, <2>6 DEF SettlementInv
  <1> QED
    BY <1>7, <1>8

(* A step that changes nothing but the contract.                           *)
LEMMA ChainOnly ==
    ASSUME SettlementInv, chain' \in Contracts, Guarded', \A b : Settled(b) => Settled(b)',
           UNCHANGED <<log, auctions, pending_batches, ivc, ivc_round, tick, sub, mempool, snapshot>>
    PROVE  SettlementInv'
  <1>1. TypeOK'
    BY DEF SettlementInv, TypeOK
  <1>2. Known'
    BY DEF SettlementInv, Known, Working
  <1>3. Carried'
    BY DEF SettlementInv, Carried, Chunk
  <1>4. Answered'
    <2>1. \A b \in Logged({"BatchConfirmed"}) : Settled(b)'
      BY DEF SettlementInv, Answered, ConfirmedIsSettled, Settled
    <2>2. ConfirmedIsSettled'
      BY <2>1 DEF ConfirmedIsSettled, Settled, Logged
    <2>3. Settled(sub.batch) => Settled(sub.batch)'
      BY DEF Settled
    <2> QED
      BY <2>2, <2>3 DEF SettlementInv, Answered
  <1>5. Remembered'
    BY DEF SettlementInv, Remembered, Logged
  <1> QED
    BY <1>1, <1>2, <1>3, <1>4, <1>5 DEF SettlementInv

(* The operator settles a batch by hand.                                   *)
LEMMA ManualKeeps ==
    ASSUME SettlementInv, NEW b \in DOMAIN pending_batches, ManualReplay(b)
    PROVE  SettlementInv'
  <1> DEFINE rows == pending_batches[b].rows
             all == chain.paid \o rows
             G == chain.settledAuction \cup {b.auction}
             L == chain.logs \cup {b}
  <1>1. /\ b.auction \notin chain.settledAuction
        /\ chain' = [chain EXCEPT !.settledAuction = G, !.paid = all, !.logs = L]
        /\ UNCHANGED <<log, auctions, pending_batches, ivc, ivc_round, tick, sub, mempool, snapshot>>
    BY DEF ManualReplay
  <1>2. b \in Ids /\ rows \in Seq(Ids) /\ RowsOf(b, rows)
    <2>1. b \in Ids /\ pending_batches[b] \in Batches
      BY PartialShape DEF SettlementInv, TypeOK
    <2>2. RowsOf(b, rows)
      BY DEF SettlementInv, Carried, Sound
    <2> QED
      BY <2>1, <2>2 DEF Batches
  <1>3. chain \in Contracts
    BY DEF SettlementInv, TypeOK
  <1>4. /\ chain.paid \in Seq(Ids) /\ chain.settledAuction \subseteq Nat /\ chain.logs \subseteq Ids
    BY <1>3 DEF Contracts
  <1>5. /\ \A i, j \in DOMAIN chain.paid : chain.paid[i] = chain.paid[j] => i = j
        /\ \A i \in DOMAIN chain.paid : chain.paid[i].auction \in chain.settledAuction
    BY DEF SettlementInv, Guarded, RowsPaidOnce
  <1> HIDE DEF rows
  <1>6. /\ all \in Seq(Ids) /\ \A i, j \in DOMAIN all : all[i] = all[j] => i = j
        /\ \A i \in DOMAIN all : all[i].auction \in G
        /\ ToSet(chain.paid) \subseteq ToSet(all)
    BY <1>1, <1>2, <1>4, <1>5, PaymentsDiffer
  <1>7. G \subseteq Nat /\ L \subseteq Ids
    BY <1>2, <1>4 DEF Ids
  <1> HIDE DEF all, G, L
  <1>8. /\ chain' \in Contracts /\ chain'.paid = all /\ chain'.settledAuction = G
        /\ chain'.sessionSettled = chain.sessionSettled
    BY <1>1, <1>3, <1>6, <1>7 DEF Contracts
  <1>9. Guarded'
    BY <1>6, <1>8 DEF Guarded, RowsPaidOnce
  <1>10. \A x : Settled(x) => Settled(x)'
    BY <1>6, <1>8 DEF Settled
  <1> QED
    BY <1>1, <1>8, <1>9, <1>10, ChainOnly

(* Logs that the watcher takes, or never sees.                             *)
LEMMA LogsOnly ==
    ASSUME SettlementInv, NEW L \in SUBSET Ids, chain' = [chain EXCEPT !.logs = L]
    PROVE  chain' \in Contracts /\ Guarded' /\ (\A b : Settled(b) => Settled(b)')
  <1>1. chain \in Contracts
    BY DEF SettlementInv, TypeOK
  <1>2. /\ chain' \in Contracts /\ chain'.paid = chain.paid
        /\ chain'.settledAuction = chain.settledAuction
        /\ chain'.sessionSettled = chain.sessionSettled
    BY <1>1 DEF Contracts
  <1>3. Guarded'
    BY <1>2 DEF SettlementInv, Guarded, RowsPaidOnce
  <1>4. \A b : Settled(b) => Settled(b)'
    BY <1>2 DEF Settled
  <1> QED
    BY <1>2, <1>3, <1>4

(* The watcher's new subscription.                                         *)
LEMMA RunOnceKeeps ==
    ASSUME SettlementInv, run_once
    PROVE  SettlementInv'
  <1>1. /\ chain' = [chain EXCEPT !.logs = {}]
        /\ UNCHANGED <<log, auctions, pending_batches, ivc, ivc_round, tick, sub, mempool, snapshot>>
    BY DEF run_once
  <1> QED
    BY <1>1, LogsOnly, ChainOnly

(* A BatchSettled log that the watcher delivers.                           *)
LEMMA SettledKeeps ==
    ASSUME SettlementInv, NEW b \in chain.logs, on_batch_settled(b)
    PROVE  SettlementInv'
  <1> DEFINE ev == [type |-> "BatchSettled", batch |-> b]
             L == chain.logs \ {b}
             f == Without(pending_batches, b)
  <1>1. /\ chain' = [chain EXCEPT !.logs = L]
        /\ UNCHANGED <<auctions, ivc, ivc_round, tick, sub, mempool, snapshot>>
        /\ \/ log' = Append(log, ev) /\ pending_batches' = f
           \/ UNCHANGED <<log, pending_batches>>
    BY DEF on_batch_settled
  <1>2. chain.logs \subseteq Ids
    BY DEF SettlementInv, TypeOK, Contracts
  <1>3. L \in SUBSET Ids /\ b \in Ids
    BY <1>2
  <1> HIDE DEF L
  <1>4. chain' \in Contracts /\ Guarded' /\ (\A x : Settled(x) => Settled(x)')
    BY <1>1, <1>3, LogsOnly
  <1>5. CASE UNCHANGED <<log, pending_batches>>
    BY <1>1, <1>4, <1>5, ChainOnly
  <1>6. CASE log' = Append(log, ev) /\ pending_batches' = f
    <2>1. ev \in Entries /\ ev.type = "BatchSettled" /\ ev.batch = b
      <3>1. ev \in BatchLogs
        BY <1>3 DEF BatchLogs, BatchTypes
      <3> QED
        BY <3>1 DEF Entries
    <2> HIDE DEF ev
    <2>2. /\ log' \in Seq(Entries) /\ snapshot.seq <= Len(log')
          /\ \A i \in DOMAIN log' : (i \in DOMAIN log /\ log'[i] = log[i]) \/ log'[i] = ev
          /\ OpenIn(log', snapshot.seq) = OpenIn(log, snapshot.seq)
          /\ Logged({"BatchConfirmed"})' =
                Logged({"BatchConfirmed"}) \cup Named(ev, {"BatchConfirmed"})
          /\ OpenIn(log', Len(log')) \subseteq
                OpenIn(log, Len(log)) \cup Named(ev, {"BatchSubmitted"})
          /\ ev.type \in Closings => ev.batch \notin OpenIn(log', Len(log'))
      BY <1>6, <2>1, LogGrows DEF SettlementInv
    <2>3. /\ Logged({"BatchConfirmed"})' = Logged({"BatchConfirmed"})
          /\ OpenIn(log', Len(log')) \subseteq OpenIn(log, Len(log)) \ {b}
      BY <2>1, <2>2 DEF Named, Closings
    <2>4. /\ f \in Partial(Batches) /\ DOMAIN f = DOMAIN pending_batches \ {b}
          /\ \A x \in DOMAIN pending_batches \ {b} : f[x] = pending_batches[x]
      <3>1. pending_batches \in Partial(Batches)
        BY DEF SettlementInv, TypeOK
      <3> QED
        BY <3>1, WithoutShape
    <2> HIDE DEF f
    <2>5. TypeOK'
      BY <1>1, <1>4, <1>6, <2>2, <2>4 DEF SettlementInv, TypeOK
    <2>6. Known'
      <3>1. \A i \in DOMAIN log' :
               log'[i].type = "AuctionExecuted" => log'[i].auction \in DOMAIN auctions
        BY <2>1, <2>2 DEF SettlementInv, Known
      <3> QED
        BY <1>1, <3>1 DEF SettlementInv, Known, Working
    <2>7. Carried'
      <3>1. Sound(f)
        BY <2>4 DEF SettlementInv, Carried, Sound
      <3> QED
        BY <1>1, <1>6, <2>4, <3>1 DEF SettlementInv, Carried, Chunk
    <2>8. Answered'
      <3>1. \A x \in Logged({"BatchConfirmed"}) : Settled(x)'
        BY <1>4 DEF SettlementInv, Answered, ConfirmedIsSettled, Settled
      <3>2. ConfirmedIsSettled'
        BY <2>3, <3>1 DEF ConfirmedIsSettled, Settled
      <3>3. Settled(sub.batch) => Settled(sub.batch)'
        BY <1>1, <1>4 DEF Settled
      <3> QED
        BY <1>1, <3>2, <3>3 DEF SettlementInv, Answered
    <2>9. Remembered'
      BY <1>1, <1>6, <2>2, <2>3, <2>4 DEF SettlementInv, Remembered
    <2> QED
      BY <1>4, <2>5, <2>6, <2>7, <2>8, <2>9 DEF SettlementInv
  <1> QED
    BY <1>1, <1>5, <1>6

(* A snapshot has what is pending, under the number of the last event.     *)
LEMMA SnapshotKeeps ==
    ASSUME SettlementInv, TakeSnapshot
    PROVE  SettlementInv'
  <1> DEFINE f == to_serializable
  <1>1. /\ snapshot' = [seq |-> Len(log), pending |-> f]
        /\ UNCHANGED <<log, auctions, pending_batches, ivc, ivc_round, tick, sub, mempool, chain>>
    BY DEF TakeSnapshot
  <1>2. pending_batches \in Partial(Batches) /\ log \in Seq(Entries) /\ Sound(pending_batches)
    BY DEF SettlementInv, TypeOK, Carried
  <1>3. \A b \in DOMAIN pending_batches : b \in Ids /\ pending_batches[b] \in Batches
    BY <1>2, PartialShape
  <1>4. \A b \in DOMAIN pending_batches :
           LET x == [pending_batches[b] EXCEPT !.submitting = FALSE, !.ready = TRUE]
           IN  /\ x \in Batches /\ x.rows = pending_batches[b].rows
               /\ x.payload = pending_batches[b].payload
    BY <1>3 DEF Batches
  <1>5. /\ f \in [DOMAIN pending_batches -> Batches] /\ DOMAIN f = DOMAIN pending_batches
        /\ \A b \in DOMAIN pending_batches :
              f[b].rows = pending_batches[b].rows /\ f[b].payload = pending_batches[b].payload
    BY <1>4 DEF to_serializable
  <1> HIDE DEF f
  <1>6. f \in Partial(Batches) /\ Sound(f)
    <2>1. DOMAIN pending_batches \in SUBSET Ids
      BY <1>3
    <2>2. f \in Partial(Batches)
      BY <1>5, <2>1, PartialIntro
    <2> QED
      BY <1>2, <1>5, <2>2 DEF Sound
  <1>7. /\ snapshot' \in Snapshots_ /\ snapshot'.seq = Len(log) /\ snapshot'.pending = f
        /\ Len(log) \in Nat
    BY <1>1, <1>2, <1>6, SeqShape DEF Snapshots_
  <1>8. TypeOK'
    BY <1>1, <1>7 DEF SettlementInv, TypeOK
  <1>9. Known'
    BY <1>1 DEF SettlementInv, Known, Working
  <1>10. Carried'
    BY <1>1, <1>6, <1>7 DEF SettlementInv, Carried, Chunk
  <1>11. Guarded'
    BY <1>1 DEF SettlementInv, Guarded, RowsPaidOnce
  <1>12. Answered'
    BY <1>1 DEF SettlementInv, Answered, Settled, ConfirmedIsSettled, Logged
  <1>13. Remembered'
    BY <1>1, <1>5, <1>7 DEF SettlementInv, Remembered, Logged
  <1> QED
    BY <1>8, <1>9, <1>10, <1>11, <1>12, <1>13 DEF SettlementInv

-----------------------------------------------------------------------------
(* Recovery.                                                               *)

(* The projection after the first n events.                                *)
Rebuilt(n, st) ==
    /\ st \in Replays /\ Sound(st.pending) /\ st.orphans \subseteq DOMAIN auctions
    /\ OpenIn(log, n) \subseteq DOMAIN st.pending

(* The rows of an auction are different.                                   *)
LEMMA RowsShape ==
    ASSUME SettlementInv, NEW a \in DOMAIN auctions, NEW b \in Ids, b.auction = a
    PROVE  Rows(a) \in Seq(Ids) /\ RowsOf(b, Rows(a))
  <1> DEFINE n == auctions[a].chunks
             f == [k \in 1..n |-> [auction |-> a, k |-> k]]
  <1>1. n \in Nat /\ a \in Nat
    <2>1. auctions \in Seq(AuctionRecords)
      BY DEF SettlementInv, TypeOK
    <2>2. auctions[a] \in AuctionRecords
      BY <2>1, SeqShape
    <2> QED
      BY <2>2 DEF AuctionRecords, Ids
  <1>2. Rows(a) = f
    BY DEF Rows
  <1> HIDE DEF n
  <1>3. \A k \in 1..n : [auction |-> a, k |-> k] \in Ids
    BY <1>1 DEF Ids
  <1>4. f \in [1..n -> Ids]
    BY <1>3
  <1>5. f \in Seq(Ids)
    BY <1>1, <1>4, SeqDef
  <1>6. \A i \in 1..n : f[i].auction = a /\ f[i].k = i
    OBVIOUS
  <1>7. DOMAIN f = 1..n
    OBVIOUS
  <1> HIDE DEF f
  <1>8. RowsOf(b, f)
    BY <1>6, <1>7 DEF RowsOf
  <1> QED
    BY <1>2, <1>5, <1>8

(* The batch that replay makes.                                            *)
LEMMA RecoveredShape ==
    ASSUME NEW b, NEW rows \in Seq(Ids), RowsOf(b, rows)
    PROVE  /\ Recovered(rows) \in Batches /\ RowsOf(b, Recovered(rows).rows)
           /\ Recovered(rows).payload = NoPayload
  <1>1. << >> \in Seq(Ids)
    BY EmptySeq
  <1>2. Recovered(rows).rows = rows /\ Recovered(rows).payload = NoPayload
    BY DEF Recovered
  <1> QED
    BY <1>1, <1>2 DEF Recovered, Batches, NoPayload

(* A batch without a proof joins the pending ones.                         *)
LEMMA SubmittedShape ==
    ASSUME NEW p \in Partial(Batches), Sound(p), NEW b \in Ids, b \notin DOMAIN p,
           NEW v \in Batches, RowsOf(b, v.rows), v.payload = NoPayload
    PROVE  /\ With(p, b, v) \in Partial(Batches) /\ Sound(With(p, b, v))
           /\ DOMAIN With(p, b, v) = DOMAIN p \cup {b}
  <1> DEFINE w == With(p, b, v)
  <1>a. w \in Partial(Batches)
    BY WithShape
  <1>1. /\ w \in Partial(Batches) /\ DOMAIN w = DOMAIN p \cup {b} /\ w[b] = v
        /\ \A x \in DOMAIN p : x # b => w[x] = p[x]
    BY <1>a DEF With
  <1> HIDE DEF w
  <1>2. Sound(w)
    BY <1>1 DEF Sound
  <1> QED
    BY <1>1, <1>2 DEF w

(* One event replayed.                                                     *)
LEMMA ReplayStep ==
    ASSUME SettlementInv, NEW n \in Nat, n < Len(log), NEW st, Rebuilt(n, st)
    PROVE  Rebuilt(n + 1, replay_event(st, log[n + 1]))
  <1> DEFINE ev == log[n + 1]
             new == replay_event(st, ev)
  <1>1. log \in Seq(Entries) /\ n + 1 \in DOMAIN log /\ ev \in Entries
    <2>1. log \in Seq(Entries)
      BY DEF SettlementInv, TypeOK
    <2>2. Len(log) \in Nat /\ DOMAIN log = 1..Len(log)
      BY <2>1, SeqShape
    <2>3. n + 1 \in DOMAIN log
      BY <2>2
    <2> QED
      BY <2>1, <2>3, SeqShape
  <1>2. /\ LoggedIn(log, n + 1, {"BatchSubmitted"}) =
              LoggedIn(log, n, {"BatchSubmitted"}) \cup Named(ev, {"BatchSubmitted"})
        /\ LoggedIn(log, n + 1, Closings) = LoggedIn(log, n, Closings) \cup Named(ev, Closings)
    BY <1>1, LoggedStep
  <1>3. /\ OpenIn(log, n + 1) \subseteq OpenIn(log, n) \cup Named(ev, {"BatchSubmitted"})
        /\ \A b \in Named(ev, Closings) : b \notin OpenIn(log, n + 1)
    BY <1>2 DEF OpenIn
  <1>4. /\ st \in Replays /\ Sound(st.pending) /\ st.orphans \subseteq DOMAIN auctions
        /\ OpenIn(log, n) \subseteq DOMAIN st.pending
    BY DEF Rebuilt
  <1>5. /\ st.pending \in Partial(Batches) /\ st.orphans \subseteq Nat
        /\ st.round \in [Pairs -> Nat]
    BY <1>4 DEF Replays
  <1>6. /\ ev.type \in {"AuctionExecuted", "BatchFolded"} \cup BatchTypes
        /\ ev.type = "AuctionExecuted" => ev.auction \in DOMAIN auctions /\ ev.auction \in Nat
        /\ ev.type = "BatchFolded" => ev.pair \in Pairs /\ ev.round \in Nat
        /\ ev.type \in BatchTypes => ev.batch \in Ids
    <2>1. ev.type = "AuctionExecuted" => ev.auction \in DOMAIN auctions
      BY <1>1 DEF SettlementInv, Known
    <2> QED
      BY <1>1, <2>1, EntryShape
  <1> HIDE DEF ev
  <1>7. CASE ev.type = "AuctionExecuted"
    <2> DEFINE o == st.orphans \cup {ev.auction}
    <2>1. new = [st EXCEPT !.orphans = o]
      BY <1>7 DEF replay_event
    <2>2. o \subseteq Nat /\ o \subseteq DOMAIN auctions
      BY <1>4, <1>5, <1>6, <1>7
    <2> HIDE DEF o
    <2>3. new \in Replays /\ new.pending = st.pending /\ new.orphans = o
      BY <1>4, <2>1, <2>2 DEF Replays
    <2>4. OpenIn(log, n + 1) \subseteq OpenIn(log, n)
      BY <1>3, <1>7 DEF Named
    <2> HIDE DEF new
    <2> QED
      BY <1>4, <2>2, <2>3, <2>4 DEF Rebuilt, new, ev
  <1>8. CASE ev.type = "BatchFolded"
    <2> DEFINE r == [st.round EXCEPT ![ev.pair] = IF ev.round > @ THEN ev.round ELSE @]
    <2>1. new = [st EXCEPT !.round = r]
      BY <1>8 DEF replay_event
    <2>2. r \in [Pairs -> Nat]
      BY <1>5, <1>6, <1>8
    <2> HIDE DEF r
    <2>3. new \in Replays /\ new.pending = st.pending /\ new.orphans = st.orphans
      BY <1>4, <2>1, <2>2 DEF Replays
    <2>4. OpenIn(log, n + 1) \subseteq OpenIn(log, n)
      BY <1>3, <1>8 DEF Named
    <2> HIDE DEF new
    <2> QED
      BY <1>4, <2>3, <2>4 DEF Rebuilt, new, ev
  <1>9. CASE ev.type \in Closings
    <2> DEFINE f == Without(st.pending, ev.batch)
    <2>1. new = [st EXCEPT !.pending = f]
      BY <1>9 DEF replay_event, Closings
    <2>2. /\ f \in Partial(Batches) /\ DOMAIN f = DOMAIN st.pending \ {ev.batch}
          /\ \A x \in DOMAIN st.pending \ {ev.batch} : f[x] = st.pending[x]
      <3> DEFINE p == st.pending
                 b == ev.batch
      <3>1. p \in Partial(Batches)
        BY <1>5
      <3> HIDE DEF p, b
      <3>2. /\ Without(p, b) \in Partial(Batches) /\ DOMAIN Without(p, b) = DOMAIN p \ {b}
            /\ \A x \in DOMAIN p \ {b} : Without(p, b)[x] = p[x]
        BY <3>1, WithoutShape
      <3> QED
        BY <3>2 DEF p, b
    <2> HIDE DEF f
    <2>3. new \in Replays /\ new.pending = f /\ new.orphans = st.orphans
      BY <1>4, <2>1, <2>2 DEF Replays
    <2>4. OpenIn(log, n + 1) \subseteq OpenIn(log, n) \ {ev.batch}
      BY <1>3, <1>9 DEF Named, Closings
    <2>5. Sound(f)
      BY <1>4, <2>2 DEF Sound
    <2> HIDE DEF new
    <2>6. Rebuilt(n + 1, new)
      BY <1>4, <2>2, <2>3, <2>4, <2>5 DEF Rebuilt
    <2> QED
      BY <2>6 DEF new, ev
  <1>10. CASE ev.type = "BatchSubmitted"
    <2> DEFINE b == ev.batch
               rows == IF b.auction \in st.orphans THEN Rows(b.auction) ELSE <<>>
               v == Recovered(rows)
               f == IF b \in DOMAIN st.pending THEN st.pending ELSE With(st.pending, b, v)
               o == st.orphans \ {b.auction}
    <2>1. new = [st EXCEPT !.orphans = o, !.pending = f]
      BY <1>10 DEF replay_event, ReplaySubmitted
    <2>2. b \in Ids
      BY <1>6, <1>10 DEF BatchTypes
    <2> HIDE DEF b
    <2>3. rows \in Seq(Ids) /\ RowsOf(b, rows)
      <3>1. CASE b.auction \in st.orphans
        BY <1>4, <2>2, <3>1, RowsShape
      <3>2. CASE b.auction \notin st.orphans
        <4>1. rows = << >> /\ DOMAIN rows = {} /\ rows \in Seq(Ids)
          BY <3>2, EmptySeq
        <4> QED
          BY <4>1 DEF RowsOf
      <3> QED
        BY <3>1, <3>2
    <2> HIDE DEF rows
    <2>4. v \in Batches /\ RowsOf(b, v.rows) /\ v.payload = NoPayload
      BY <2>3, RecoveredShape
    <2> HIDE DEF v
    <2>5. f \in Partial(Batches) /\ Sound(f) /\ DOMAIN f = DOMAIN st.pending \cup {b}
      <3>1. CASE b \in DOMAIN st.pending
        BY <1>4, <1>5, <3>1
      <3>2. CASE b \notin DOMAIN st.pending
        <4> DEFINE q == st.pending
        <4>1. q \in Partial(Batches) /\ Sound(q) /\ b \notin DOMAIN q
          BY <1>4, <1>5, <3>2
        <4>2. f = With(q, b, v)
          BY <3>2
        <4> HIDE DEF q, f
        <4>3. /\ With(q, b, v) \in Partial(Batches) /\ Sound(With(q, b, v))
              /\ DOMAIN With(q, b, v) = DOMAIN q \cup {b}
          BY <2>2, <2>4, <4>1, SubmittedShape
        <4>4. f \in Partial(Batches) /\ Sound(f) /\ DOMAIN f = DOMAIN q \cup {b}
          BY <4>2, <4>3, Zenon
        <4> QED
          BY <4>4 DEF q
      <3> QED
        BY <3>1, <3>2
    <2>6. o \subseteq Nat /\ o \subseteq DOMAIN auctions
      BY <1>4, <1>5
    <2> HIDE DEF f, o
    <2>7. new \in Replays /\ new.pending = f /\ new.orphans = o
      BY <1>4, <2>1, <2>5, <2>6 DEF Replays
    <2>8. OpenIn(log, n + 1) \subseteq OpenIn(log, n) \cup {b}
      BY <1>3, <1>10 DEF Named, b
    <2> HIDE DEF new
    <2>9. Rebuilt(n + 1, new)
      BY <1>4, <2>5, <2>6, <2>7, <2>8 DEF Rebuilt
    <2> QED
      BY <2>9 DEF new, ev
  <1> QED
    BY <1>6, <1>7, <1>8, <1>9, <1>10 DEF BatchTypes, Closings

(* All events behind the snapshot replayed.                                *)
LEMMA ReplayedIsSound ==
    ASSUME SettlementInv
    PROVE  Rebuilt(Len(log), Replayed)
  <1> DEFINE a == snapshot.seq
             z == Len(log)
             step(q, i) == replay_event(q, log[i])
             loop(k, r) == r = [i \in a..(a + k) |-> IF i = a THEN Restored ELSE step(r[i - 1], i)]
             built == CHOOSE r : r = [i \in a..z |-> IF i = a THEN Restored ELSE step(r[i - 1], i)]
  <1>1. a \in Nat /\ z \in Nat /\ a <= z
    BY SeqShape DEF SettlementInv, TypeOK, Snapshots_
  <1>2. Replayed = built[z]
    BY DEF Replayed
  <1>3. Rebuilt(a, Restored)
    <2>1. /\ snapshot.pending \in Partial(Batches) /\ Sound(snapshot.pending)
          /\ OpenIn(log, a) \subseteq DOMAIN snapshot.pending
      BY DEF SettlementInv, TypeOK, Snapshots_, Carried, Remembered
    <2>2. /\ Restored \in Replays /\ Restored.pending = snapshot.pending
          /\ Restored.orphans = {}
      BY <2>1 DEF Restored, Replays
    <2> QED
      BY <2>1, <2>2 DEF Rebuilt
  <1>4. \A n \in Nat : \A q : n < z /\ Rebuilt(n, q) => Rebuilt(n + 1, step(q, n + 1))
    BY ReplayStep
  <1> HIDE DEF a, z, step
  <1>5. \E r : loop(z - a, r)
    <2> DEFINE S == {k \in Nat : \E r : loop(k, r)}
    <2>1. 0 \in S
      <3>1. a..(a + 0) = {a}
        BY <1>1
      <3>2. loop(0, [i \in a..(a + 0) |-> Restored])
        BY <3>1
      <3> QED
        BY <3>2
    <2>2. ASSUME NEW k \in Nat, k \in S PROVE k + 1 \in S
      <3>1. PICK r : loop(k, r)
        BY <2>2
      <3> DEFINE e == a + k
                 D == a..(a + (k + 1))
                 q == [i \in D |-> IF i <= e THEN r[i] ELSE step(r[e], e + 1)]
      <3>2. e \in Nat /\ a <= e /\ D = a..(e + 1)
        BY <1>1
      <3>3. \A i \in a..e : r[i] = IF i = a THEN Restored ELSE step(r[i - 1], i)
        BY <3>1
      <3> HIDE DEF e, D
      <3>4. \A i \in D : q[i] = IF i = a THEN Restored ELSE step(q[i - 1], i)
        <4>1. \A i \in a..e : i \in D /\ q[i] = r[i]
          BY <1>1, <3>2
        <4>2. q[e + 1] = step(r[e], e + 1)
          <5>1. e + 1 \in D /\ ~(e + 1 <= e)
            BY <1>1, <3>2
          <5> QED
            BY <5>1
        <4> HIDE DEF q
        <4>3. ASSUME NEW i \in D PROVE q[i] = IF i = a THEN Restored ELSE step(q[i - 1], i)
          <5>1. CASE i = e + 1
            <6>1. i - 1 = e /\ e \in a..e /\ i # a
              BY <1>1, <3>2, <5>1
            <6>2. q[e] = r[e]
              BY <4>1, <6>1
            <6> QED
              BY <4>2, <5>1, <6>1, <6>2
          <5>2. CASE i \in a..e /\ i # a
            <6>1. i - 1 \in a..e
              BY <1>1, <3>2, <5>2
            <6>2. q[i] = r[i] /\ q[i - 1] = r[i - 1]
              BY <4>1, <5>2, <6>1
            <6>3. r[i] = step(r[i - 1], i)
              BY <3>3, <5>2
            <6> QED
              BY <5>2, <6>2, <6>3
          <5>3. CASE i = a
            <6>1. a \in a..e
              BY <1>1, <3>2
            <6>2. q[a] = r[a] /\ r[a] = Restored
              BY <3>3, <4>1, <6>1
            <6> QED
              BY <5>3, <6>2
          <5>4. i = e + 1 \/ i \in a..e
            BY <1>1, <3>2
          <5> QED
            BY <5>1, <5>2, <5>3, <5>4
        <4> QED
          BY <4>3
      <3>5. loop(k + 1, q)
        <4>1. q = [i \in D |-> q[i]]
          OBVIOUS
        <4> HIDE DEF q
        <4>2. q = [i \in D |-> IF i = a THEN Restored ELSE step(q[i - 1], i)]
          BY <3>4, <4>1
        <4> QED
          BY <4>2 DEF D
      <3> HIDE DEF q, loop
      <3>6. \E x : loop(k + 1, x)
        BY <3>5
      <3> QED
        BY <3>6
    <2>3. z - a \in Nat
      BY <1>1
    <2> HIDE DEF S
    <2>4. z - a \in S
      BY <2>1, <2>2, <2>3, SetInduction
    <2> QED
      BY <2>4 DEF S
  <1>6. a..(a + (z - a)) = a..z
    BY <1>1
  <1>7. built = [i \in a..z |-> IF i = a THEN Restored ELSE step(built[i - 1], i)]
    BY <1>5, <1>6
  <1> HIDE DEF built, loop
  <1>8. \A i \in a..z : built[i] = IF i = a THEN Restored ELSE step(built[i - 1], i)
    BY <1>7
  <1> DEFINE T == {k \in Nat : a + k <= z => Rebuilt(a + k, built[a + k])}
  <1>9. 0 \in T
    <2>1. a \in a..z /\ a + 0 = a
      BY <1>1
    <2>2. built[a] = Restored
      BY <1>8, <2>1
    <2>3. Rebuilt(a + 0, built[a + 0])
      BY <1>3, <2>1, <2>2
    <2> QED
      BY <2>3
  <1>10. ASSUME NEW k \in Nat, k \in T PROVE k + 1 \in T
    <2> DEFINE i == a + k
    <2>1. i \in Nat /\ a + (k + 1) = i + 1
      BY <1>1
    <2>2. ASSUME i + 1 <= z PROVE Rebuilt(i + 1, built[i + 1])
      <3>1. i < z /\ i <= z /\ i + 1 \in a..z /\ i + 1 # a /\ (i + 1) - 1 = i
        BY <1>1, <2>1, <2>2
      <3>2. Rebuilt(i, built[i])
        BY <1>10, <3>1
      <3> HIDE DEF i
      <3>3. built[i + 1] = step(built[i], i + 1)
        BY <1>8, <3>1
      <3> QED
        BY <1>4, <2>1, <3>1, <3>2, <3>3
    <2> HIDE DEF i
    <2>3. a + (k + 1) <= z => Rebuilt(a + (k + 1), built[a + (k + 1)])
      BY <2>1, <2>2
    <2> QED
      BY <2>3
  <1> HIDE DEF T
  <1>11. z - a \in T
    <2>1. z - a \in Nat
      BY <1>1
    <2> QED
      BY <1>9, <1>10, <2>1, SetInduction
  <1>12. a + (z - a) = z /\ z <= z
    BY <1>1
  <1>13. Rebuilt(z, built[z])
    BY <1>11, <1>12 DEF T
  <1> QED
    BY <1>2, <1>13 DEF z

(* The elements of a finite set, in some order.                            *)
LEMMA SetToSeqShape ==
    ASSUME NEW T, IsFiniteSet(T)
    PROVE  SetToSeq(T) \in Seq(T)
  <1>1. Cardinality(T) \in Nat /\ ExistsBijection(1..Cardinality(T), T)
    BY FS_CardinalityType
  <1>2. \E f \in [1..Cardinality(T) -> T] : IsInjective(f)
    BY <1>1 DEF ExistsBijection, Bijection, Injection
  <1>3. SetToSeq(T) \in [1..Cardinality(T) -> T]
    BY <1>2 DEF SetToSeq
  <1> QED
    BY <1>1, <1>3, SeqDef

(* The batches that recover makes of orphaned auctions.                    *)
LEMMA ReaggregatedShape ==
    ASSUME SettlementInv, NEW S \in SUBSET DOMAIN auctions
    PROVE  /\ Reaggregated(S) \in Seq(Ids)
           /\ \A b \in ToSet(Reaggregated(S)) : b \in Ids /\ b.auction \in DOMAIN auctions
  <1> DEFINE T == {[auction |-> a, k |-> 0] : a \in S}
             f == [a \in S |-> [auction |-> a, k |-> 0]]
             n == Len(auctions)
  <1>1. auctions \in Seq(AuctionRecords)
    BY DEF SettlementInv, TypeOK
  <1>2. n \in Nat /\ DOMAIN auctions = 1..n
    BY <1>1, SeqShape
  <1>3. IsFiniteSet(S)
    <2>1. IsFiniteSet(1..n)
      BY <1>2, FS_Interval
    <2> QED
      BY <1>2, <2>1, FS_Subset
  <1>4. IsFiniteSet(T)
    <2>1. f \in Surjection(S, T)
      BY DEF Surjection
    <2> HIDE DEF f, T
    <2> QED
      BY <1>3, <2>1, FS_Surjection
  <1>5. \A b \in T : b \in Ids /\ b.auction \in DOMAIN auctions
    BY <1>2 DEF Ids
  <1>6. Reaggregated(S) = SetToSeq(T)
    BY DEF Reaggregated
  <1> HIDE DEF T
  <1>7. Reaggregated(S) \in Seq(T)
    BY <1>4, <1>6, SetToSeqShape
  <1> DEFINE R == Reaggregated(S)
  <1> HIDE DEF R
  <1>8. R \in Seq(T)
    BY <1>7 DEF R
  <1>9. Len(R) \in Nat /\ DOMAIN R = 1..Len(R) /\ \A i \in DOMAIN R : R[i] \in T
    BY <1>8, SeqShape
  <1>10. R \in Seq(Ids)
    <2>1. T \subseteq Ids
      BY <1>5
    <2>2. R \in [1..Len(R) -> T]
      BY <1>8, LenProperties
    <2>3. R \in [1..Len(R) -> Ids]
      BY <2>1, <2>2
    <2> QED
      BY <1>9, <2>3, SeqDef
  <1>11. \A b \in ToSet(R) : b \in T
    BY <1>9 DEF ToSet
  <1> QED
    BY <1>5, <1>10, <1>11 DEF R

(* A crash and the boot after it.                                          *)
LEMMA RestartKeeps ==
    ASSUME SettlementInv, Restart
    PROVE  SettlementInv'
  <1> DEFINE st == Replayed
  <1>1. PICK S \in SUBSET st.orphans :
          /\ log' = log \o [i \in DOMAIN Reaggregated(S) |->
                              [type |-> "BatchSubmitted", batch |-> Reaggregated(S)[i]]]
          /\ pending_batches' = [b \in DOMAIN st.pending \cup ToSet(Reaggregated(S)) |->
                                    IF b \in DOMAIN st.pending THEN st.pending[b]
                                    ELSE Recovered(Rows(b.auction))]
    BY DEF Restart
  <1>2. /\ ivc_round' = st.round /\ ivc' = [p \in Pairs |-> <<>>]
        /\ sub' = NoSubmit /\ mempool' = Unawaited /\ chain' = [chain EXCEPT !.logs = {}]
        /\ tick' = [pc |-> "retrying", ids |-> DOMAIN pending_batches']
        /\ UNCHANGED <<auctions, snapshot>>
    BY DEF Restart
  <1>3. Rebuilt(Len(log), st)
    BY ReplayedIsSound
  <1> HIDE DEF st
  <1>4. /\ st \in Replays /\ Sound(st.pending) /\ st.orphans \subseteq DOMAIN auctions
        /\ OpenIn(log, Len(log)) \subseteq DOMAIN st.pending
    BY <1>3 DEF Rebuilt
  <1>5. st.pending \in Partial(Batches) /\ st.round \in [Pairs -> Nat]
    BY <1>4 DEF Replays
  <1> DEFINE R == Reaggregated(S)
             m == [i \in DOMAIN R |-> [type |-> "BatchSubmitted", batch |-> R[i]]]
             l == log \o m
             p == st.pending
             D == DOMAIN p \cup ToSet(R)
             g == [b \in D |-> IF b \in DOMAIN p THEN p[b] ELSE Recovered(Rows(b.auction))]
  <1>6. log' = l /\ pending_batches' = g
    BY <1>1
  <1>7. R \in Seq(Ids) /\ \A b \in ToSet(R) : b \in Ids /\ b.auction \in DOMAIN auctions
    BY <1>1, <1>4, ReaggregatedShape
  <1> HIDE DEF R
  <1>8. Len(R) \in Nat /\ DOMAIN R = 1..Len(R) /\ \A i \in DOMAIN R : R[i] \in Ids
    BY <1>7, SeqShape
  <1>9. /\ m \in Seq(Entries) /\ \A i \in DOMAIN m : m[i].type = "BatchSubmitted"
        /\ {m[i].batch : i \in DOMAIN m} \subseteq ToSet(R)
    <2>1. \A i \in DOMAIN R : [type |-> "BatchSubmitted", batch |-> R[i]] \in BatchLogs
      BY <1>8 DEF BatchLogs, BatchTypes
    <2>2. \A i \in DOMAIN R : [type |-> "BatchSubmitted", batch |-> R[i]] \in Entries
      BY <2>1 DEF Entries
    <2>3. m \in [1..Len(R) -> Entries]
      BY <1>8, <2>2
    <2>4. m \in Seq(Entries)
      BY <1>8, <2>3, SeqDef
    <2>5. \A i \in DOMAIN R : m[i].type = "BatchSubmitted" /\ m[i].batch = R[i]
      OBVIOUS
    <2>6. DOMAIN m = DOMAIN R
      OBVIOUS
    <2> HIDE DEF m
    <2> QED
      BY <2>4, <2>5, <2>6 DEF ToSet
  <1>10. g \in Partial(Batches) /\ DOMAIN g = D /\ Sound(g)
    <2>1. p \in Partial(Batches) /\ Sound(p)
      BY <1>4, <1>5
    <2> HIDE DEF p
    <2>2. \A b \in DOMAIN p : b \in Ids /\ p[b] \in Batches
      BY <2>1, PartialShape
    <2>3. ASSUME NEW b \in ToSet(R)
          PROVE  /\ Recovered(Rows(b.auction)) \in Batches
                 /\ RowsOf(b, Recovered(Rows(b.auction)).rows)
                 /\ Recovered(Rows(b.auction)).payload = NoPayload
      <3> DEFINE a == b.auction
      <3>1. b \in Ids /\ a \in DOMAIN auctions
        BY <1>7, <2>3
      <3>2. Rows(a) \in Seq(Ids) /\ RowsOf(b, Rows(a))
        BY <3>1, RowsShape
      <3> HIDE DEF a
      <3>3. /\ Recovered(Rows(a)) \in Batches /\ RowsOf(b, Recovered(Rows(a)).rows)
            /\ Recovered(Rows(a)).payload = NoPayload
        BY <3>2, RecoveredShape
      <3> QED
        BY <3>3 DEF a
    <2>4. D \in SUBSET Ids
      BY <1>7, <2>2
    <2>5. \A b \in D : /\ b \in DOMAIN p => g[b] = p[b]
                       /\ b \notin DOMAIN p => g[b] = Recovered(Rows(b.auction))
      OBVIOUS
    <2>6. g = [b \in D |-> g[b]]
      OBVIOUS
    <2>7. \A b \in D : b \in DOMAIN p \/ b \in ToSet(R)
      OBVIOUS
    <2> HIDE DEF g, D
    <2>8. g \in [D -> Batches]
      BY <2>2, <2>3, <2>5, <2>6, <2>7
    <2>9. g \in Partial(Batches) /\ DOMAIN g = D
      BY <2>4, <2>8, PartialIntro
    <2>10. Sound(g)
      BY <2>1, <2>3, <2>5, <2>7, <2>9 DEF Sound
    <2> QED
      BY <2>9, <2>10
  <1>11. log \in Seq(Entries) /\ snapshot.seq \in Nat /\ snapshot.seq <= Len(log)
    BY DEF SettlementInv, TypeOK, Snapshots_
  <1> HIDE DEF m
  <1>12. /\ l \in Seq(Entries) /\ Len(l) = Len(log) + Len(m) /\ Len(m) \in Nat
         /\ \A i \in DOMAIN l :
               (i \in DOMAIN log /\ l[i] = log[i]) \/ l[i].type = "BatchSubmitted"
    <2>1. /\ l \in Seq(Entries) /\ Len(l) = Len(log) + Len(m) /\ Len(log) \in Nat /\ Len(m) \in Nat
          /\ \A i \in DOMAIN log : l[i] = log[i]
          /\ \A i \in DOMAIN m : l[Len(log) + i] = m[i]
          /\ \A i \in DOMAIN l : i \in DOMAIN log \/ i - Len(log) \in DOMAIN m
      BY <1>9, <1>11, ConcatShape, SeqShape
    <2>2. DOMAIN l = 1..Len(l)
      BY <2>1, SeqShape
    <2> DEFINE k == Len(log)
    <2> HIDE DEF l, k
    <2>3. \A i \in DOMAIN l : k + (i - k) = i
      BY <2>1, <2>2 DEF k
    <2>4. \A i \in DOMAIN l : i - k \in DOMAIN m => l[i] = m[i - k]
      BY <2>1, <2>3 DEF k
    <2> QED
      BY <1>9, <2>1, <2>4 DEF k
  <1>13. /\ OpenIn(l, snapshot.seq) = OpenIn(log, snapshot.seq)
         /\ OpenIn(l, Len(l)) \subseteq OpenIn(log, Len(log)) \cup ToSet(R)
         /\ LoggedIn(l, Len(l), {"BatchConfirmed"}) = LoggedIn(log, Len(log), {"BatchConfirmed"})
    <2>1. \A types :
            /\ LoggedIn(l, snapshot.seq, types) = LoggedIn(log, snapshot.seq, types)
            /\ LoggedIn(l, Len(l), types) \subseteq LoggedIn(log, Len(log), types) \cup ToSet(R)
            /\ LoggedIn(log, Len(log), types) \subseteq LoggedIn(l, Len(l), types)
            /\ "BatchSubmitted" \notin types =>
                  LoggedIn(l, Len(l), types) = LoggedIn(log, Len(log), types)
      <3> TAKE types
      <3>1. /\ \A n \in Nat : n <= Len(log) =>
                  LoggedIn(l, n, types) = LoggedIn(log, n, types)
            /\ LoggedIn(l, Len(l), types) \subseteq
                  LoggedIn(log, Len(log), types) \cup {m[i].batch : i \in DOMAIN m}
            /\ LoggedIn(log, Len(log), types) \subseteq LoggedIn(l, Len(l), types)
            /\ "BatchSubmitted" \notin types =>
                  LoggedIn(l, Len(l), types) = LoggedIn(log, Len(log), types)
        BY <1>9, <1>11, LoggedConcat
      <3> HIDE DEF l
      <3> QED
        BY <1>9, <1>11, <3>1
    <2> HIDE DEF l
    <2> QED
      BY <2>1 DEF OpenIn
  <1>14. /\ mempool' \in Seq(Txs)
         /\ \A i \in DOMAIN mempool' :
               /\ ~mempool'[i].awaited
               /\ mempool'[i].kind = "settle" => mempool'[i].data = <<mempool'[i].batch>>
    BY <1>2, UnawaitedShape
  <1>15. chain' \in Contracts /\ Guarded' /\ (\A b : Settled(b) => Settled(b)')
    <2>1. {} \in SUBSET Ids
      OBVIOUS
    <2> QED
      BY <1>2, <2>1, LogsOnly
  <1>16. /\ tick' \in Ticks /\ tick'.pc = "retrying" /\ sub' = NoSubmit /\ sub'.pc = "none"
         /\ NoSubmit \in Subs
    <2>1. DOMAIN g \subseteq Ids
      BY <1>10, PartialShape
    <2> HIDE DEF g
    <2>2. tick' = [pc |-> "retrying", ids |-> DOMAIN g]
      BY <1>2, <1>6
    <2>3. tick' \in Retriers /\ tick'.pc = "retrying"
      BY <2>1, <2>2 DEF Retriers
    <2> QED
      BY <1>2, <2>3 DEF Ticks, Subs, NoSubmit
  <1>17. ivc' \in [Pairs -> Seq(Ids)] /\ ivc_round' \in [Pairs -> Nat]
    BY <1>2, <1>5
  <1> HIDE DEF l, g
  <1>18. TypeOK'
    <2>1. snapshot.seq <= Len(l)
      <3> DEFINE x == Len(log)
                 y == Len(m)
                 z == Len(l)
                 s == snapshot.seq
      <3>1. x \in Nat /\ y \in Nat /\ z = x + y /\ s \in Nat /\ s <= x
        BY <1>11, <1>12, SeqShape
      <3> HIDE DEF x, y, z, s
      <3>2. s <= z
        BY <3>1
      <3> QED
        BY <3>2 DEF s, z
    <2> QED
      BY <1>2, <1>6, <1>10, <1>12, <1>14, <1>15, <1>16, <1>17, <2>1 DEF SettlementInv, TypeOK
  <1>19. Known'
    <2>1. \A i \in DOMAIN l : l[i].type = "AuctionExecuted" => l[i].auction \in DOMAIN auctions
      BY <1>12 DEF SettlementInv, Known
    <2> QED
      BY <1>2, <1>6, <1>16, <2>1 DEF Known, Working
  <1>20. Carried'
    BY <1>2, <1>6, <1>10, <1>14, <1>16 DEF SettlementInv, Carried
  <1>21. Answered'
    <2>1. Logged({"BatchConfirmed"})' = LoggedIn(l, Len(l), {"BatchConfirmed"})
      <3>1. \A i \in DOMAIN l : i <= Len(l)
        BY <1>12, SeqShape
      <3> QED
        BY <1>6, <3>1 DEF Logged, LoggedIn
    <2>2. Logged({"BatchConfirmed"}) = LoggedIn(log, Len(log), {"BatchConfirmed"})
      BY <1>11, LoggedWhole
    <2>3. \A b \in Logged({"BatchConfirmed"}) : Settled(b)'
      BY <1>15 DEF SettlementInv, Answered, ConfirmedIsSettled, Settled
    <2>4. ConfirmedIsSettled'
      BY <1>13, <2>1, <2>2, <2>3 DEF ConfirmedIsSettled, Settled
    <2> QED
      BY <1>14, <1>16, <2>4 DEF Answered
  <1>22. Remembered'
    <2>1. OpenIn(l, Len(l)) \subseteq DOMAIN g
      BY <1>4, <1>10, <1>13
    <2>2. OpenIn(l, snapshot.seq) \subseteq DOMAIN snapshot.pending
      BY <1>13 DEF SettlementInv, Remembered
    <2> QED
      BY <1>2, <1>6, <1>16, <2>1, <2>2 DEF Remembered
  <1> QED
    BY <1>15, <1>18, <1>19, <1>20, <1>21, <1>22 DEF SettlementInv

-----------------------------------------------------------------------------
(* The first state has nothing to be wrong about.                          *)
LEMMA SettlementInit == Init => SettlementInv
  <1> SUFFICES ASSUME Init PROVE SettlementInv
    OBVIOUS
  <1>1. /\ log = << >> /\ auctions = << >> /\ pending_batches = << >>
        /\ ivc = [p \in Pairs |-> << >>] /\ ivc_round = [p \in Pairs |-> 0]
        /\ tick = Idle /\ sub = NoSubmit /\ mempool = << >>
        /\ chain = [sessions |-> << >>, sessionSettled |-> {}, settledAuction |-> {},
                    paid |-> << >>, logs |-> {}]
        /\ snapshot = [seq |-> 0, pending |-> << >>]
    BY DEF Init
  <1>2. \A S : << >> \in Seq(S) /\ Len(<< >>) = 0
    BY EmptySeq
  <1>3. DOMAIN << >> = {}
    BY <1>2, SeqShape
  <1>4. \A V : << >> \in Partial(V)
    <2> TAKE V
    <2>1. << >> \in [{} -> V] /\ {} \in SUBSET Ids
      BY <1>3
    <2> QED
      BY <2>1, PartialIntro
  <1>5. chain \in Contracts /\ chain.paid = << >>
    BY <1>1, <1>2, <1>4 DEF Contracts
  <1>6. snapshot \in Snapshots_ /\ snapshot.seq = 0 /\ snapshot.pending = << >>
    BY <1>1, <1>4 DEF Snapshots_
  <1>7. tick \in Ticks /\ tick.pc = "idle" /\ sub \in Subs /\ sub.pc = "none"
    BY <1>1 DEF Ticks, Subs, Idle, NoSubmit
  <1>8. ivc \in [Pairs -> Seq(Ids)] /\ ivc_round \in [Pairs -> Nat]
    BY <1>1, <1>2
  <1>9. TypeOK
    BY <1>1, <1>2, <1>4, <1>5, <1>6, <1>7, <1>8 DEF TypeOK
  <1>10. Known
    BY <1>1, <1>3, <1>7 DEF Known, Working
  <1>11. Sound(<< >>)
    BY <1>3 DEF Sound
  <1>12. Carried
    BY <1>1, <1>3, <1>6, <1>7, <1>11 DEF Carried
  <1>13. Guarded
    BY <1>3, <1>5 DEF Guarded, RowsPaidOnce
  <1>14. \A types : Logged(types) = {} /\ \A n : LoggedIn(log, n, types) = {}
    BY <1>1, <1>3 DEF Logged, LoggedIn
  <1>15. Answered
    BY <1>1, <1>3, <1>7, <1>14 DEF Answered, ConfirmedIsSettled
  <1>16. Remembered
    BY <1>7, <1>14 DEF Remembered, OpenIn
  <1> QED
    BY <1>9, <1>10, <1>12, <1>13, <1>15, <1>16 DEF SettlementInv

(* Every step of the engine's task keeps the invariant ...                 *)
LEMMA RunTaskKeeps ==
    ASSUME SettlementInv, RunTask
    PROVE  SettlementInv'
  <1>1. CASE StartTick
    BY <1>1, StartKeeps
  <1>2. ASSUME NEW p \in Pairs, NEW n \in 0..MaxChunks, MatchPair(p, n) PROVE SettlementInv'
    <2>1. n \in Nat
      BY SettlementAssumption
    <2> QED
      BY <1>2, <2>1, MatchKeeps
  <1>3. CASE EndMatching
    BY <1>3, EndMatchingKeeps
  <1>4. CASE SkipChunk
    BY <1>4, SkipKeeps
  <1>5. CASE FoldChunk
    BY <1>5, FoldKeeps
  <1>6. CASE finalize_pending_batch
    BY <1>6, FinalizeKeeps
  <1>7. CASE StorePayload
    BY <1>7, StoreKeeps
  <1>8. CASE EndProving
    BY <1>8, EndProvingKeeps
  <1>9. CASE SubmitQueued
    BY <1>9, SubmitQueuedKeeps
  <1>10. CASE resubmit_pending_except
    BY <1>10, RetriesKeeps
  <1>11. CASE ResubmitOne
    BY <1>11, ResubmitKeeps
  <1>12. CASE EndTick
    BY <1>12, EndTickKeeps
  <1>13. CASE SendSession \/ SendSettle
    BY <1>13, SendKeeps
  <1>14. CASE AwaitSession \/ AwaitSettle
    BY <1>14, AwaitKeeps
  <1>15. CASE SubmitFails
    BY <1>15, SubmitFailsKeeps
  <1>16. CASE PersistConfirmed
    BY <1>16, PersistConfirmedKeeps
  <1>17. CASE ApplyConfirmed
    BY <1>17, ApplyConfirmedKeeps
  <1> QED
    BY <1>1, <1>2, <1>3, <1>4, <1>5, <1>6, <1>7, <1>8, <1>9, <1>10, <1>11, <1>12, <1>13,
       <1>14, <1>15, <1>16, <1>17 DEF RunTask

(* ... and so does every other one.                                        *)
LEMMA SettlementNext == SettlementInv /\ [Next]_vars => SettlementInv'
  <1> SUFFICES ASSUME SettlementInv, [Next]_vars PROVE SettlementInv'
    OBVIOUS
  <1>1. CASE RunTask
    BY <1>1, RunTaskKeeps
  <1>2. CASE Mine
    BY <1>2, MineKeeps
  <1>3. ASSUME NEW b \in DOMAIN pending_batches, BackoffElapses(b) PROVE SettlementInv'
    BY <1>3, BackoffKeeps
  <1>4. ASSUME NEW b \in DOMAIN pending_batches, ManualReplay(b) PROVE SettlementInv'
    BY <1>4, ManualKeeps
  <1>5. ASSUME NEW b \in chain.logs, on_batch_settled(b) PROVE SettlementInv'
    BY <1>5, SettledKeeps
  <1>6. CASE run_once
    BY <1>6, RunOnceKeeps
  <1>7. CASE TakeSnapshot
    BY <1>7, SnapshotKeeps
  <1>8. CASE Restart
    BY <1>8, RestartKeeps
  <1>9. CASE UNCHANGED vars
    <2>1. UNCHANGED <<log, auctions, pending_batches, ivc, ivc_round, tick, sub, mempool, chain,
                      snapshot>>
      BY <1>9 DEF vars
    <2>2. /\ chain' \in Contracts /\ Guarded' /\ \A b : Settled(b) => Settled(b)'
      <3>1. chain' \in Contracts
        BY <2>1 DEF SettlementInv, TypeOK
      <3>2. Guarded'
        BY <2>1 DEF SettlementInv, Guarded, RowsPaidOnce
      <3> QED
        BY <2>1, <3>1, <3>2 DEF Settled
    <2> QED
      BY <2>1, <2>2, ChainOnly
  <1> QED
    BY <1>1, <1>2, <1>3, <1>4, <1>5, <1>6, <1>7, <1>8, <1>9 DEF Next

(* The inductive invariant holds.                                          *)
LEMMA SettlementIsInvariant == Spec => []SettlementInv
  BY SettlementInit, SettlementNext, PTL DEF Spec

(* settleAuction and submitBatch: no row is paid twice, whichever arm      *)
(* settles it and whatever was retried, left in the mempool, recovered     *)
(* under another id or replayed by hand.                                   *)
THEOREM NoRowIsPaidTwice == Spec => []RowsPaidOnce
  <1>1. SettlementInv => RowsPaidOnce
    BY DEF SettlementInv, Guarded
  <1> QED
    BY <1>1, SettlementIsInvariant, PTL

(* submit_batch: a batch confirmed in the log has been settled by the      *)
(* contract and its row paid, across time-outs, late transactions and      *)
(* restarts.                                                               *)
THEOREM ConfirmedBatchesAreSettled == Spec => []ConfirmedIsSettled
  <1>1. SettlementInv => ConfirmedIsSettled
    BY DEF SettlementInv, Answered
  <1> QED
    BY <1>1, SettlementIsInvariant, PTL

(* finalize_pending_batch and recover: a batch submitted and not closed in *)
(* the log is pending, across snapshots and restarts.                      *)
THEOREM NoBatchIsForgotten == Spec => []NoBatchForgotten
  <1>1. SettlementInv => NoBatchForgotten
    <2> SUFFICES ASSUME SettlementInv PROVE NoBatchForgotten
      OBVIOUS
    <2>1. log \in Seq(Entries)
      BY DEF SettlementInv, TypeOK
    <2>2. \A types : Logged(types) = LoggedIn(log, Len(log), types)
      BY <2>1, LoggedWhole
    <2>3. OpenIn(log, Len(log)) \subseteq DOMAIN pending_batches
      BY DEF SettlementInv, Remembered
    <2> QED
      BY <2>2, <2>3 DEF NoBatchForgotten, OpenIn, Closings
  <1> QED
    BY <1>1, SettlementIsInvariant, PTL
=============================================================================
