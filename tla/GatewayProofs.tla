---------------------------- MODULE GatewayProofs -----------------------------
(***************************************************************************)
(* Proofs about the limits in front of the handlers, for any number of     *)
(* clients, stream tasks and proxies: the client key is the one who makes  *)
(* the request, the limiter keeps one bucket for each, and no client key   *)
(* has more streams open than it may.                                      *)
(***************************************************************************)
EXTENDS Gateway, FiniteSetTheorems, SequenceTheorems, WellFoundedInduction, TLAPS

BucketStates == [tokens : 0..Capacity, age : 0..(StaleAfter + 1)]

Phases       == {"idle", "cloned", "open", "released", "leaving"}
StreamKeys   == Principals \cup {"none"}
StreamStates == [phase : Phases, key : StreamKeys, sem : Nat]

TypeOK ==
    /\ \A k \in DOMAIN buckets : buckets[k] \in BucketStates
    /\ streams \in [Tasks -> StreamStates]
    /\ DOMAIN semaphores \subseteq Principals
    /\ \A k \in DOMAIN semaphores : semaphores[k] \in Nat

(* A task that may take or holds a permit has the semaphore in the map.    *)
Held ==
    \A t \in Tasks : streams[t].phase \in {"cloned", "open", "released"} =>
        /\ streams[t].key \in DOMAIN semaphores
        /\ semaphores[streams[t].key] = streams[t].sem

(* No two keys share a semaphore.                                          *)
Own ==
    \A j, k \in DOMAIN semaphores : semaphores[j] = semaphores[k] => j = k

(* No semaphore has given out more permits than it had.                    *)
Capped ==
    \A s \in Nat : Cardinality(In("open", s)) <= max_per_key

(* The inductive invariant.                                                *)
GateInv == TypeOK /\ Held /\ Own /\ Capped

-----------------------------------------------------------------------------
(* Numbers.                                                                *)

(* A set of natural numbers has a least one.                               *)
LEMMA LeastNatural ==
    ASSUME NEW T \in SUBSET Nat, T # {}
    PROVE  \E x \in T : \A y \in T : x <= y
  <1> DEFINE R == OpToRel(<, Nat)
  <1>1. IsWellFoundedOn(R, Nat)
    BY NatLessThanWellFounded
  <1>2. \A y, x \in Nat : <<y, x>> \in R <=> y < x
    BY DEF OpToRel
  <1> HIDE DEF R
  <1>3. PICK x \in T : \A y \in T : ~(<<y, x>> \in R)
    BY <1>1, WFMin
  <1>4. \A y \in T : y \in Nat /\ x \in Nat /\ ~(y < x)
    BY <1>2, <1>3
  <1>5. \A y \in T : x <= y
    BY <1>4
  <1> QED
    BY <1>5

(* The lesser of two numbers.                                              *)
LEMMA MinOfTwo ==
    ASSUME NEW a \in Int, NEW b \in Int
    PROVE  Min({a, b}) = IF a <= b THEN a ELSE b
  BY DEF Min

(* Times as many ticks, at least as many units.                            *)
LEMMA MoreTicks ==
    ASSUME NEW a \in Nat, NEW b \in Nat, a >= b, NEW c \in Nat
    PROVE  a * c >= b * c /\ a * c \in Nat /\ b * c \in Nat
  OBVIOUS

(* One more tick.                                                          *)
LEMMA OneMoreTick ==
    ASSUME NEW a \in Nat, NEW c \in Nat
    PROVE  (a + 1) * c = a * c + c /\ a * c \in Nat
  OBVIOUS

-----------------------------------------------------------------------------
(* The client key.                                                         *)

(* Whatever a client puts in front of the forwarding chain, its address is *)
(* the one the trusted proxies vouch for.                                  *)
LEMMA AddressIsClient ==
    ASSUME NEW r \in Requests
    PROVE  resolve_client_ip(r) = r.client
  <1>1. /\ r.client \notin Trusted /\ r.hops \in Seq(Trusted)
        /\ Len(r.forged) \in Nat
        /\ r.forged = [i \in 1..Len(r.forged) |-> r.forged[i]]
    BY GatewayAssumption
  <1>2. CASE r.hops = << >>
    BY <1>1, <1>2 DEF resolve_client_ip, Peer
  <1>3. CASE r.hops # << >>
    <2> DEFINE n == Len(r.hops)
               m == Len(r.forged)
               seen == SubSeq(r.hops, 1, n - 1)
               mine == <<r.client>>
               S == Trusted \cup {r.client} \cup {r.forged[i] : i \in 1..m}
               chain == r.forged \o (mine \o seen)
    <2>1. n \in Nat \ {0} /\ \A i \in 1..n : r.hops[i] \in Trusted
      BY <1>1, <1>3, EmptySeq, LenProperties, ElementOfSeq
    <2>2. Peer(r) \in Trusted /\ Chain(r) = chain
      <3>1. Peer(r) = r.hops[n] /\ n \in 1..n
        BY <1>3, <2>1 DEF Peer
      <3>2. Chain(r) = chain
        BY <1>3, Zenon DEF Chain
      <3> QED
        BY <2>1, <3>1, <3>2
    <2>3. /\ seen \in Seq(Trusted) /\ Len(seen) = n - 1
          /\ \A i \in 1..(n - 1) : seen[i] = r.hops[i]
      BY <2>1, SubSeqProperties
    <2>4. r.forged \in Seq(S)
      <3>1. r.forged \in [1..m -> S]
        BY <1>1
      <3> QED
        BY <1>1, <3>1, SeqDef
    <2>5. mine \in Seq(S) /\ Len(mine) = 1 /\ mine[1] = r.client
      <3>1. r.client \in S
        OBVIOUS
      <3> HIDE DEF S
      <3> QED
        BY <3>1
    <2>6. seen \in Seq(S)
      <3>1. seen \in [1..(n - 1) -> Trusted]
        BY <2>3, LenProperties
      <3>2. seen \in [1..(n - 1) -> S] /\ n - 1 \in Nat
        BY <2>1, <3>1
      <3> HIDE DEF S, seen
      <3> QED
        BY <3>2, SeqDef
    <2> HIDE DEF S, seen, mine
    <2>7. /\ mine \o seen \in Seq(S) /\ Len(mine \o seen) = n
          /\ (mine \o seen)[1] = r.client
          /\ \A i \in 2..n : (mine \o seen)[i] = seen[i - 1]
      <3>1. /\ mine \o seen \in Seq(S) /\ Len(mine \o seen) = Len(mine) + Len(seen)
            /\ \A i \in 1..(Len(mine) + Len(seen)) : (mine \o seen)[i] =
                  IF i <= Len(mine) THEN mine[i] ELSE seen[i - Len(mine)]
        BY <2>5, <2>6, ConcatProperties
      <3>2. Len(mine) = 1 /\ Len(seen) = n - 1 /\ 1 + (n - 1) = n
        BY <2>1, <2>3, <2>5
      <3> QED
        BY <2>1, <2>5, <3>1, <3>2
    <2> DEFINE rest == mine \o seen
    <2> HIDE DEF rest
    <2>8. /\ chain \in Seq(S) /\ Len(chain) = m + n
          /\ \A i \in 1..(m + n) : chain[i] = IF i <= m THEN r.forged[i] ELSE rest[i - m]
      <3>1. rest \in Seq(S) /\ Len(rest) = n /\ chain = r.forged \o rest
        BY <2>7 DEF rest
      <3> HIDE DEF chain, m, n
      <3>2. /\ chain \in Seq(S) /\ Len(chain) = Len(r.forged) + Len(rest)
            /\ \A i \in 1..(Len(r.forged) + Len(rest)) : chain[i] =
                  IF i <= Len(r.forged) THEN r.forged[i] ELSE rest[i - Len(r.forged)]
        BY <2>4, <3>1, ConcatProperties
      <3> QED
        BY <3>1, <3>2 DEF m
    <2>a. m \in Nat
      BY <1>1
    <2> HIDE DEF chain, m, n
    <2>9. /\ chain # << >> /\ DOMAIN chain = 1..(m + n)
          /\ m + 1 \in 1..(m + n) /\ chain[m + 1] = r.client
      <3>1. DOMAIN chain = 1..(m + n) /\ m + 1 \in 1..(m + n)
        BY <2>a, <2>1, <2>8, LenProperties
      <3>2. ~(m + 1 <= m) /\ (m + 1) - m = 1
        BY <2>a
      <3>3. chain[m + 1] = r.client
        BY <2>7, <2>8, <3>1, <3>2 DEF rest
      <3>4. chain # << >>
        BY <2>a, <2>1, <2>8, EmptySeq
      <3> QED
        BY <3>1, <3>3, <3>4
    <2>10. ASSUME NEW i \in 1..(m + n), i > m + 1 PROVE chain[i] \in Trusted
      <3>1. ~(i <= m) /\ i - m \in 2..n /\ (i - m) - 1 \in 1..(n - 1)
            /\ (i - m) - 1 \in 1..n
        BY <2>a, <2>1, <2>10
      <3>2. chain[i] = seen[(i - m) - 1]
        BY <2>7, <2>8, <3>1 DEF rest
      <3> QED
        BY <2>1, <2>3, <3>1, <3>2
    <2> DEFINE untrusted == {i \in DOMAIN chain : chain[i] \notin Trusted}
    <2>11. m + 1 \in untrusted /\ \A i \in untrusted : i \in Int /\ m + 1 >= i
      <3>1. m + 1 \in untrusted
        BY <1>1, <2>9
      <3>2. ASSUME NEW i \in untrusted PROVE i \in Int /\ m + 1 >= i
        <4>1. i \in 1..(m + n) /\ chain[i] \notin Trusted
          BY <2>9
        <4>2. i \in Int /\ ~(i > m + 1)
          BY <2>10, <4>1
        <4> QED
          BY <2>a, <4>2
      <3> QED
        BY <3>1, <3>2
    <2>12. Max(untrusted) = m + 1
      <3> HIDE DEF untrusted
      <3> QED
        BY <2>a, <2>11 DEF Max
    <2>13. forwarded_for_client(chain) = r.client
      BY <2>9, <2>11, <2>12 DEF forwarded_for_client
    <2> QED
      BY <2>2, <2>9, <2>13 DEF resolve_client_ip
  <1> QED
    BY <1>2, <1>3

(* A request is counted against the one who makes it.                      *)
LEMMA KeyIsCaller ==
    ASSUME NEW r \in Requests
    PROVE  /\ KeyOf(r) = r.by /\ r.by \in Principals
           /\ r.route = "stream" => client_key(r) = r.by
  <1>1. r.by = MadeBy(r) /\ r.by \in Principals
    BY GatewayAssumption
  <1>2. resolve_client_ip(r) = r.client
    BY AddressIsClient
  <1> QED
    BY <1>1, <1>2 DEF KeyOf, ip_client_key, client_key, MadeBy

-----------------------------------------------------------------------------
(* References to a semaphore.                                              *)

Mapped(sem) == {k \in DOMAIN semaphores : semaphores[k] = sem}
Users(sem)  == {t \in Tasks : streams[t].phase # "idle" /\ streams[t].sem = sem}

(* The three counts behind strong_count.                                   *)
LEMMA Counts ==
    ASSUME TypeOK, NEW sem
    PROVE  /\ IsFiniteSet(Mapped(sem)) /\ IsFiniteSet(Users(sem))
           /\ IsFiniteSet(In("open", sem))
           /\ Cardinality(Mapped(sem)) \in Nat /\ Cardinality(Users(sem)) \in Nat
           /\ Cardinality(In("open", sem)) \in Nat
           /\ strong_count(sem) = Cardinality(Mapped(sem)) + Cardinality(Users(sem))
                                  + Cardinality(In("open", sem))
  <1>1. /\ Mapped(sem) \in SUBSET Principals /\ Users(sem) \in SUBSET Tasks
        /\ In("open", sem) \in SUBSET Tasks
    BY DEF Mapped, Users, In, TypeOK
  <1>2. /\ IsFiniteSet(Mapped(sem)) /\ IsFiniteSet(Users(sem))
        /\ IsFiniteSet(In("open", sem))
    BY <1>1, FS_Subset, GatewayAssumption
  <1>3. /\ Cardinality(Mapped(sem)) \in Nat /\ Cardinality(Users(sem)) \in Nat
        /\ Cardinality(In("open", sem)) \in Nat
    BY <1>2, FS_CardinalityType
  <1>4. strong_count(sem) = Cardinality(Mapped(sem)) + Cardinality(Users(sem))
                            + Cardinality(In("open", sem))
    BY DEF strong_count, Mapped, Users
  <1> QED
    BY <1>2, <1>3, <1>4

(* A semaphore without references is in no entry and with no task.         *)
LEMMA Unreferenced ==
    ASSUME TypeOK, NEW sem
    PROVE  strong_count(sem) = 0 <=> Mapped(sem) = {} /\ Users(sem) = {}
  <1> DEFINE a == Cardinality(Mapped(sem))
             b == Cardinality(Users(sem))
             c == Cardinality(In("open", sem))
  <1>1. a \in Nat /\ b \in Nat /\ c \in Nat /\ strong_count(sem) = a + b + c
    BY Counts
  <1>2. (a = 0 <=> Mapped(sem) = {}) /\ (b = 0 <=> Users(sem) = {})
        /\ (c = 0 <=> In("open", sem) = {})
    BY Counts, FS_EmptySet
  <1>3. Users(sem) = {} => In("open", sem) = {}
    BY DEF Users, In
  <1> HIDE DEF a, b, c
  <1> QED
    BY <1>1, <1>2, <1>3

(* An entry and a task are two references, a second task is a third.       *)
LEMMA Referenced ==
    ASSUME TypeOK, NEW sem, NEW k \in Mapped(sem), NEW t \in Users(sem)
    PROVE  /\ strong_count(sem) > 1
           /\ \A u \in Users(sem) : u # t => strong_count(sem) > 2
  <1> DEFINE a == Cardinality(Mapped(sem))
             b == Cardinality(Users(sem))
             c == Cardinality(In("open", sem))
  <1>1. a \in Nat /\ b \in Nat /\ c \in Nat /\ strong_count(sem) = a + b + c
    BY Counts
  <1>2. a # 0 /\ b # 0
    BY Counts, FS_EmptySet
  <1>3. ASSUME NEW u \in Users(sem), u # t PROVE b # 1
    <2>1. IsFiniteSet(Users(sem))
      BY Counts
    <2>2. b = 1 <=> \E x : Users(sem) = {x}
      BY <2>1, FS_Singleton
    <2> QED
      BY <1>3, <2>2
  <1> HIDE DEF a, b, c
  <1> QED
    BY <1>1, <1>2, <1>3

(* There is memory for one more semaphore.                                 *)
LEMMA FreshIsUnreferenced ==
    ASSUME TypeOK
    PROVE  FreshSemaphore \in Nat /\ strong_count(FreshSemaphore) = 0
  <1> DEFINE N == Cardinality(Tasks) + Cardinality(Principals) + 1
             D == DOMAIN semaphores
             f == [k \in D |-> semaphores[k]]
             g == [t \in Tasks |-> streams[t].sem]
             F == {semaphores[k] : k \in D}
             G == {streams[t].sem : t \in Tasks}
             free == {s \in 1..N : strong_count(s) = 0}
  <1>1. IsFiniteSet(Tasks) /\ IsFiniteSet(Principals)
    BY GatewayAssumption
  <1>2. Cardinality(Tasks) \in Nat /\ Cardinality(Principals) \in Nat
    BY <1>1, FS_CardinalityType
  <1>3. IsFiniteSet(D) /\ Cardinality(D) <= Cardinality(Principals)
    BY <1>1, FS_Subset DEF TypeOK
  <1>4. /\ IsFiniteSet(F) /\ Cardinality(F) <= Cardinality(D)
    <2>1. f \in Surjection(D, F)
      BY DEF Surjection
    <2> HIDE DEF D, F, f
    <2> QED
      BY <1>3, <2>1, FS_Surjection
  <1>5. /\ IsFiniteSet(G) /\ Cardinality(G) <= Cardinality(Tasks)
    <2>1. g \in Surjection(Tasks, G)
      BY DEF Surjection
    <2> HIDE DEF G, g
    <2> QED
      BY <1>1, <2>1, FS_Surjection
  <1>6. \A s : s \notin F \cup G => strong_count(s) = 0
    <2> SUFFICES ASSUME NEW s, s \notin F \cup G
                 PROVE  Mapped(s) = {} /\ Users(s) = {}
      BY Unreferenced
    <2> QED
      BY DEF Mapped, Users
  <1>7. /\ IsFiniteSet(F \cup G)
        /\ Cardinality(F \cup G) <= Cardinality(Tasks) + Cardinality(Principals)
    <2> HIDE DEF F, G, D
    <2>1. /\ IsFiniteSet(F \cup G)
          /\ Cardinality(F \cup G) = Cardinality(F) + Cardinality(G) - Cardinality(F \cap G)
      BY <1>4, <1>5, FS_Union
    <2>2. IsFiniteSet(F \cap G)
      BY <1>4, FS_Subset
    <2>3. /\ Cardinality(F) \in Nat /\ Cardinality(G) \in Nat /\ Cardinality(D) \in Nat
          /\ Cardinality(F \cap G) \in Nat
      BY <1>3, <1>4, <1>5, <2>2, FS_CardinalityType
    <2> QED
      BY <1>2, <1>3, <1>4, <1>5, <2>1, <2>3
  <1>8. free # {}
    <2> HIDE DEF F, G
    <2>1. N \in Nat /\ N > Cardinality(F \cup G) /\ Cardinality(F \cup G) \in Nat
      <3>1. Cardinality(F \cup G) \in Nat
        BY <1>7, FS_CardinalityType
      <3> QED
        BY <1>2, <1>7, <3>1
    <2> HIDE DEF N
    <2>2. Cardinality(1..N) = N
      BY <2>1, FS_Interval
    <2>3. ~(1..N \subseteq F \cup G)
      <3> SUFFICES ASSUME 1..N \in SUBSET (F \cup G) PROVE FALSE
        OBVIOUS
      <3>1. Cardinality(1..N) <= Cardinality(F \cup G)
        BY <1>7, FS_Subset
      <3> QED
        BY <2>1, <2>2, <3>1
    <2> QED
      BY <1>6, <2>3
  <1>9. FreshSemaphore = Min(free)
    BY DEF FreshSemaphore
  <1>10. free \in SUBSET Nat
    BY <1>2
  <1>11. Min(free) \in free
    <2> HIDE DEF free
    <2>1. \E x \in free : \A y \in free : x <= y
      BY <1>8, <1>10, LeastNatural
    <2> QED
      BY <2>1 DEF Min
  <1> QED
    BY <1>9, <1>10, <1>11

-----------------------------------------------------------------------------
(* The steps of the stream limiter.                                        *)

(* A step that leaves the streams and the map alone.                       *)
LEMMA StreamsUntouched ==
    ASSUME GateInv, UNCHANGED <<semaphores, streams>>,
           \A k \in DOMAIN buckets' : buckets'[k] \in BucketStates
    PROVE  GateInv'
  <1>1. TypeOK'
    BY DEF GateInv, TypeOK
  <1>2. Held' /\ Own'
    BY DEF GateInv, Held, Own
  <1>3. Capped'
    BY DEF GateInv, Capped, In
  <1> QED
    BY <1>1, <1>2, <1>3 DEF GateInv

(* What keeps an entry in the map when try_acquire cleans up.              *)
LEMMA UsedIsRetained ==
    ASSUME GateInv, NEW t \in Tasks,
           streams[t].phase \in {"cloned", "open", "released"}
    PROVE  streams[t].key \in retain /\ semaphores[streams[t].key] = streams[t].sem
  <1> DEFINE s == streams[t].sem
             k == streams[t].key
  <1>1. k \in DOMAIN semaphores /\ semaphores[k] = s
    BY DEF GateInv, Held
  <1>2. k \in Mapped(s) /\ t \in Users(s)
    BY <1>1 DEF Mapped, Users
  <1>3. strong_count(s) > 1
    BY <1>2, Referenced DEF GateInv
  <1> QED
    BY <1>1, <1>3 DEF retain

(* try_acquire under the lock.                                             *)
LEMMA TakeSemaphoreKeeps ==
    ASSUME GateInv, NEW t \in Tasks, NEW k \in Principals, TakeSemaphore(t, k),
           \A j \in DOMAIN buckets' : buckets'[j] \in BucketStates
    PROVE  GateInv'
  <1> DEFINE sem == IF k \in retain THEN semaphores[k] ELSE FreshSemaphore
             new == [phase |-> "cloned", key |-> k, sem |-> sem]
  <1>1. /\ streams[t] = NoStream
        /\ semaphores' = [j \in retain \union {k} |-> IF j = k THEN sem ELSE semaphores[j]]
        /\ streams' = [streams EXCEPT ![t] = new]
    BY DEF TakeSemaphore
  <1>2. /\ streams \in [Tasks -> StreamStates] /\ retain \subseteq DOMAIN semaphores
        /\ DOMAIN semaphores \subseteq Principals
        /\ \A j \in DOMAIN semaphores : semaphores[j] \in Nat
    BY DEF GateInv, TypeOK, retain
  <1>3. /\ k \in retain => sem = semaphores[k]
        /\ k \notin retain => /\ sem \in Nat
                              /\ \A j \in DOMAIN semaphores : semaphores[j] # sem
    BY FreshIsUnreferenced, Unreferenced DEF GateInv, Mapped
  <1>4. sem \in Nat
    BY <1>2, <1>3
  <1> HIDE DEF sem
  <1>5. new \in StreamStates /\ new.phase = "cloned" /\ new.key = k /\ new.sem = sem
    BY <1>4 DEF StreamStates, Phases, StreamKeys
  <1> HIDE DEF new
  <1>6. /\ \A u \in Tasks : u # t => streams'[u] = streams[u]
        /\ streams'[t] = new /\ streams' \in [Tasks -> StreamStates]
    BY <1>1, <1>2, <1>5
  <1>7. /\ DOMAIN semaphores' = retain \union {k} /\ semaphores'[k] = sem
        /\ \A j \in retain : semaphores'[j] = semaphores[j]
    BY <1>1, <1>3
  <1>8. TypeOK'
    BY <1>2, <1>4, <1>6, <1>7 DEF TypeOK
  <1>9. Held'
    <2> SUFFICES ASSUME NEW u \in Tasks,
                        streams'[u].phase \in {"cloned", "open", "released"}
                 PROVE  /\ streams'[u].key \in DOMAIN semaphores'
                        /\ semaphores'[streams'[u].key] = streams'[u].sem
      BY DEF Held
    <2>1. CASE u = t
      BY <1>5, <1>6, <1>7, <2>1
    <2>2. CASE u # t
      <3>1. /\ streams'[u] = streams[u] /\ streams[u].key \in retain
            /\ semaphores[streams[u].key] = streams[u].sem
        BY <1>6, <2>2, UsedIsRetained
      <3> QED
        BY <1>7, <3>1
    <2> QED
      BY <2>1, <2>2
  <1>10. Own'
    <2>1. \A i, j \in DOMAIN semaphores : semaphores[i] = semaphores[j] => i = j
      BY DEF GateInv, Own
    <2>2. \A j \in retain : semaphores[j] = sem => j = k
      BY <1>2, <1>3, <2>1
    <2> QED
      BY <1>2, <1>7, <2>1, <2>2 DEF Own
  <1>11. Capped'
    <2>1. \A s : In("open", s)' = In("open", s)
      BY <1>1, <1>5, <1>6 DEF In, NoStream
    <2> QED
      BY <2>1 DEF GateInv, Capped
  <1> QED
    BY <1>8, <1>9, <1>10, <1>11 DEF GateInv

(* try_acquire after the lock: the last permit is not given twice.         *)
LEMMA AcquireKeeps ==
    ASSUME GateInv, NEW t \in Tasks, try_acquire_owned(t)
    PROVE  GateInv'
  <1> DEFINE old == streams[t]
             sem == old.sem
             new == IF available_permits(sem) > 0 THEN [old EXCEPT !.phase = "open"]
                    ELSE NoStream
  <1>1. /\ old.phase = "cloned" /\ streams' = [streams EXCEPT ![t] = new]
        /\ UNCHANGED <<buckets, semaphores>>
    BY DEF try_acquire_owned
  <1>2. streams \in [Tasks -> StreamStates] /\ old \in StreamStates
    BY DEF GateInv, TypeOK
  <1>3. /\ new \in StreamStates
        /\ new.phase \in {"open", "idle"}
        /\ new.phase = "open" =>
              new.key = old.key /\ new.sem = sem /\ available_permits(sem) > 0
    BY <1>2 DEF StreamStates, Phases, StreamKeys, NoStream
  <1>4. sem \in Nat
    BY <1>2 DEF StreamStates
  <1> HIDE DEF new, old
  <1>5. /\ \A u \in Tasks : u # t => streams'[u] = streams[u]
        /\ streams'[t] = new /\ streams' \in [Tasks -> StreamStates]
    BY <1>1, <1>2, <1>3
  <1>6. TypeOK'
    BY <1>1, <1>5 DEF GateInv, TypeOK
  <1>7. Held' /\ Own'
    BY <1>1, <1>3, <1>5 DEF GateInv, Held, Own, old
  <1>8. Capped'
    <2> SUFFICES ASSUME NEW s \in Nat PROVE Cardinality(In("open", s)') <= max_per_key
      BY DEF Capped
    <2>1. /\ IsFiniteSet(In("open", s)) /\ Cardinality(In("open", s)) \in Nat
          /\ Cardinality(In("open", s)) <= max_per_key
      BY Counts DEF GateInv, Capped
    <2>2. CASE new.phase = "open" /\ s = sem
      <3>1. In("open", s)' = In("open", s) \cup {t}
        BY <1>3, <1>5, <2>2 DEF In
      <3>2. Cardinality(In("open", s)) < max_per_key
        BY <1>3, <2>1, <2>2, GatewayAssumption DEF available_permits
      <3>3. Cardinality(In("open", s) \cup {t}) <= max_per_key
        <4>1. \/ Cardinality(In("open", s) \cup {t}) = Cardinality(In("open", s))
              \/ Cardinality(In("open", s) \cup {t}) = Cardinality(In("open", s)) + 1
          BY <2>1, FS_AddElement
        <4> QED
          BY <2>1, <3>2, <4>1, GatewayAssumption
      <3> QED
        BY <3>1, <3>3
    <2>3. CASE ~(new.phase = "open" /\ s = sem)
      <3>1. In("open", s)' = In("open", s)
        BY <1>1, <1>3, <1>5, <2>3 DEF In, old
      <3> QED
        BY <2>1, <3>1
    <2> QED
      BY <2>2, <2>3
  <1> QED
    BY <1>6, <1>7, <1>8 DEF GateInv

(* A task leaves one phase for a later one, and the map loses at most the  *)
(* entry that only this task still used.                                   *)
LEMMA LeavePhaseKeeps ==
    ASSUME GateInv, NEW t \in Tasks, NEW new \in StreamStates,
           new.phase \in {"released", "leaving", "idle"},
           new.phase = "released" => new.key = streams[t].key /\ new.sem = streams[t].sem,
           streams[t].phase # "idle",
           new.phase = "released" => streams[t].phase \in {"cloned", "open", "released"},
           streams' = [streams EXCEPT ![t] = new], buckets' = buckets,
           \/ semaphores' = semaphores
           \/ /\ new.phase # "released" /\ streams[t].phase = "released"
              /\ strong_count(streams[t].sem) <= 2
              /\ semaphores' = [k \in DOMAIN semaphores \ {streams[t].key} |-> semaphores[k]]
    PROVE  GateInv'
  <1>1. /\ streams \in [Tasks -> StreamStates]
        /\ \A u \in Tasks : u # t => streams'[u] = streams[u]
        /\ streams'[t] = new /\ streams' \in [Tasks -> StreamStates]
    BY DEF GateInv, TypeOK
  <1>2. /\ DOMAIN semaphores' \subseteq DOMAIN semaphores
        /\ \A k \in DOMAIN semaphores' : semaphores'[k] = semaphores[k]
    OBVIOUS
  <1>3. TypeOK' /\ Own'
    BY <1>1, <1>2 DEF GateInv, TypeOK, Own
  <1>4. Held'
    <2> SUFFICES ASSUME NEW u \in Tasks,
                        streams'[u].phase \in {"cloned", "open", "released"}
                 PROVE  /\ streams'[u].key \in DOMAIN semaphores'
                        /\ semaphores'[streams'[u].key] = streams'[u].sem
      BY DEF Held
    <2>1. CASE u = t
      <3>1. /\ new.phase = "released" /\ streams'[u] = new
            /\ streams[t].phase \in {"cloned", "open", "released"}
        BY <1>1, <2>1
      <3>2. /\ streams[t].key \in DOMAIN semaphores
            /\ semaphores[streams[t].key] = streams[t].sem
        BY <3>1 DEF GateInv, Held
      <3> QED
        BY <3>1, <3>2
    <2>2. CASE u # t
      <3>1. /\ streams'[u] = streams[u] /\ streams[u].key \in DOMAIN semaphores
            /\ semaphores[streams[u].key] = streams[u].sem
        BY <1>1, <2>2 DEF GateInv, Held
      <3>2. streams[u].key \in DOMAIN semaphores'
        <4> SUFFICES ASSUME streams[t].phase = "released", streams[u].key = streams[t].key,
                            strong_count(streams[t].sem) <= 2
                     PROVE  FALSE
          BY <3>1
        <4>1. semaphores[streams[t].key] = streams[t].sem
          BY DEF GateInv, Held
        <4>2. /\ streams[t].key \in Mapped(streams[t].sem)
              /\ t \in Users(streams[t].sem) /\ u \in Users(streams[t].sem)
          BY <3>1, <4>1 DEF Mapped, Users
        <4>3. strong_count(streams[t].sem) > 2
          BY <2>2, <4>2, Referenced DEF GateInv
        <4>4. strong_count(streams[t].sem) \in Int
          BY Counts DEF GateInv
        <4> QED
          BY <4>3, <4>4
      <3> QED
        BY <1>2, <3>1, <3>2
    <2> QED
      BY <2>1, <2>2
  <1>5. Capped'
    <2> SUFFICES ASSUME NEW s \in Nat PROVE Cardinality(In("open", s)') <= max_per_key
      BY DEF Capped
    <2>1. /\ IsFiniteSet(In("open", s)) /\ Cardinality(In("open", s)) \in Nat
          /\ Cardinality(In("open", s)) <= max_per_key
      BY Counts DEF GateInv, Capped
    <2>2. In("open", s)' \in SUBSET In("open", s)
      BY <1>1 DEF In
    <2>3. /\ Cardinality(In("open", s)') <= Cardinality(In("open", s))
          /\ Cardinality(In("open", s)') \in Nat
      BY <2>1, <2>2, FS_Subset, FS_CardinalityType
    <2> QED
      BY <2>1, <2>3, GatewayAssumption
  <1> QED
    BY <1>3, <1>4, <1>5 DEF GateInv

(* The three steps of a closing stream.                                    *)
LEMMA CloseKeeps ==
    ASSUME GateInv, NEW t \in Tasks, DropPermit(t) \/ DropEntry(t) \/ DropSemaphore(t)
    PROVE  GateInv'
  <1>0. streams \in [Tasks -> StreamStates] /\ streams[t] \in StreamStates
    BY DEF GateInv, TypeOK
  <1>1. CASE DropPermit(t)
    <2> DEFINE new == [streams[t] EXCEPT !.phase = "released"]
    <2>1. /\ streams[t].phase = "open" /\ streams' = [streams EXCEPT ![t] = new]
          /\ UNCHANGED <<buckets, semaphores>>
      BY <1>1 DEF DropPermit
    <2>2. /\ new \in StreamStates /\ new.phase = "released"
          /\ new.key = streams[t].key /\ new.sem = streams[t].sem
      BY <1>0 DEF StreamStates, Phases
    <2> HIDE DEF new
    <2> QED
      BY <2>1, <2>2, LeavePhaseKeeps
  <1>2. CASE DropEntry(t)
    <2> DEFINE new == [streams[t] EXCEPT !.phase = "leaving"]
    <2>1. /\ streams[t].phase = "released" /\ streams' = [streams EXCEPT ![t] = new]
          /\ buckets' = buckets
          /\ \/ semaphores' = semaphores
             \/ /\ strong_count(streams[t].sem) <= 2
                /\ semaphores' = [k \in DOMAIN semaphores \ {streams[t].key} |-> semaphores[k]]
      BY <1>2 DEF DropEntry
    <2>2. new \in StreamStates /\ new.phase = "leaving"
      BY <1>0 DEF StreamStates, Phases
    <2> HIDE DEF new
    <2> QED
      BY <2>1, <2>2, LeavePhaseKeeps
  <1>3. CASE DropSemaphore(t)
    <2>1. /\ streams[t].phase = "leaving" /\ streams' = [streams EXCEPT ![t] = NoStream]
          /\ UNCHANGED <<buckets, semaphores>>
      BY <1>3 DEF DropSemaphore
    <2>2. NoStream \in StreamStates /\ NoStream.phase = "idle"
      BY DEF NoStream, StreamStates, Phases, StreamKeys
    <2> QED
      BY <2>1, <2>2, LeavePhaseKeeps
  <1> QED
    BY <1>1, <1>2, <1>3

-----------------------------------------------------------------------------
(* The buckets.                                                            *)

(* A bucket's level lies between empty and full.                           *)
LEMMA LevelBounds ==
    ASSUME TypeOK, NEW k
    PROVE  Level(k) \in 0..Capacity
  <1>1. CASE k \in DOMAIN buckets
    <2>1. buckets[k].tokens \in 0..Capacity /\ buckets[k].age \in Nat
      BY <1>1, GatewayAssumption DEF TypeOK, BucketStates
    <2>2. buckets[k].age * Rate \in Nat
      BY <2>1, OneMoreTick, GatewayAssumption
    <2>3. Filled(buckets[k]) \in 0..Capacity
      <3> DEFINE x == buckets[k].tokens + buckets[k].age * Rate
      <3>0. Capacity \in Nat
        BY GatewayAssumption
      <3>1. x \in Nat /\ Capacity \in Nat
        <4> DEFINE g == buckets[k].age * Rate
                   t == buckets[k].tokens
        <4>1. g \in Nat /\ t \in 0..Capacity
          BY <2>1, <2>2
        <4> HIDE DEF g, t
        <4>2. t + g \in Nat
          BY <3>0, <4>1
        <4> QED
          BY <3>0, <4>2 DEF g, t
      <3>2. Filled(buckets[k]) = Min({Capacity, x})
        BY DEF Filled
      <3> HIDE DEF x
      <3> QED
        BY <3>1, <3>2, MinOfTwo
    <2> QED
      BY <1>1, <2>3 DEF Level
  <1>2. CASE k \notin DOMAIN buckets
    BY <1>2, GatewayAssumption DEF Level, NewBucket
  <1> QED
    BY <1>1, <1>2

(* A bucket written now has the level it was given; the others keep theirs.*)
LEMMA SetBucketLevels ==
    ASSUME TypeOK, NEW k, NEW n \in 0..Capacity, SetBucket(k, n)
    PROVE  /\ \A j \in DOMAIN buckets' : buckets'[j] \in BucketStates
           /\ Level(k)' = n
           /\ \A j : j # k => Level(j)' = Level(j)
  <1> DEFINE b == [tokens |-> n, age |-> 0]
  <1>1. buckets' = [j \in DOMAIN buckets \union {k} |-> IF j = k THEN b ELSE buckets[j]]
    BY DEF SetBucket
  <1>2. b \in BucketStates /\ b.tokens = n /\ b.age = 0
    BY GatewayAssumption DEF BucketStates
  <1> HIDE DEF b
  <1>3. \A j \in DOMAIN buckets' : buckets'[j] \in BucketStates
    BY <1>1, <1>2 DEF TypeOK
  <1>4. Filled(b) = n
    <2>1. b.tokens + b.age * Rate = n
      BY <1>2, GatewayAssumption
    <2> QED
      BY <2>1, MinOfTwo, GatewayAssumption DEF Filled
  <1>5. Level(k)' = n
    BY <1>1, <1>4 DEF Level, Filled
  <1>6. \A j : j # k => Level(j)' = Level(j)
    BY <1>1 DEF Level, Filled
  <1> QED
    BY <1>3, <1>5, <1>6

(* An evicted bucket was full.                                             *)
LEMMA EvictLevels ==
    ASSUME TypeOK, evict_stale
    PROVE  /\ \A j \in DOMAIN buckets' : buckets'[j] \in BucketStates
           /\ \A k : Level(k)' = Level(k)
  <1> DEFINE stale == {k \in DOMAIN buckets : buckets[k].age > StaleAfter}
  <1>1. buckets' = [k \in DOMAIN buckets \ stale |-> buckets[k]]
    BY DEF evict_stale
  <1>2. \A j \in DOMAIN buckets' : buckets'[j] \in BucketStates
    BY <1>1 DEF TypeOK
  <1>3. ASSUME NEW k \in stale PROVE Level(k) = Capacity
    <2> DEFINE n == buckets[k].tokens
               a == buckets[k].age
    <2>1. n \in Nat /\ a \in Nat /\ a >= StaleAfter /\ k \in DOMAIN buckets
      BY GatewayAssumption DEF TypeOK, BucketStates
    <2>2. Level(k) = Min({Capacity, n + a * Rate})
      BY <2>1 DEF Level, Filled
    <2> HIDE DEF n, a
    <2>3. a * Rate >= StaleAfter * Rate /\ a * Rate \in Nat /\ StaleAfter * Rate \in Nat
      BY <2>1, MoreTicks, GatewayAssumption
    <2>4. n + a * Rate \in Int /\ Capacity <= n + a * Rate /\ Capacity \in Int
      BY <2>1, <2>3, GatewayAssumption
    <2> DEFINE x == n + a * Rate
    <2> HIDE DEF x
    <2>5. x \in Int /\ Capacity <= x /\ Capacity \in Int /\ Level(k) = Min({Capacity, x})
      BY <2>2, <2>4 DEF x
    <2> QED
      BY <2>5, MinOfTwo
  <1>4. ASSUME NEW k PROVE Level(k)' = Level(k)
    <2>1. CASE k \in stale
      <3>1. Level(k)' = Capacity
        BY <1>1, <2>1 DEF Level, NewBucket
      <3> QED
        BY <1>3, <2>1, <3>1
    <2>2. CASE k \notin stale
      <3> HIDE DEF stale
      <3> QED
        BY <1>1, <2>2 DEF Level, Filled
    <2> QED
      BY <2>1, <2>2
  <1> QED
    BY <1>2, <1>4

(* A tick fills every bucket by Rate, up to the brim.                      *)
LEMMA TickLevels ==
    ASSUME TypeOK, ClockTick
    PROVE  /\ \A j \in DOMAIN buckets' : buckets'[j] \in BucketStates
           /\ \A k : Level(k)' = Min({Capacity, Level(k) + Rate})
  <1>0. Capacity \in Nat /\ Rate \in Nat /\ StaleAfter \in Nat
        /\ StaleAfter * Rate >= Capacity
    BY GatewayAssumption
  <1>1. buckets' = [k \in DOMAIN buckets |->
                      [buckets[k] EXCEPT !.age = Min({StaleAfter + 1, @ + 1})]]
    BY DEF ClockTick
  <1>2. ASSUME NEW k \in DOMAIN buckets
        PROVE  /\ buckets'[k] \in BucketStates
               /\ Filled(buckets'[k]) = Min({Capacity, Filled(buckets[k]) + Rate})
    <2> DEFINE n == buckets[k].tokens
               a == buckets[k].age
               b == IF StaleAfter + 1 <= a + 1 THEN StaleAfter + 1 ELSE a + 1
    <2>1. n \in 0..Capacity /\ a \in 0..(StaleAfter + 1)
      BY DEF TypeOK, BucketStates
    <2>2. Min({StaleAfter + 1, a + 1}) = b
      BY <1>0, <2>1, MinOfTwo
    <2>3. buckets[k] \in BucketStates /\ b \in 0..(StaleAfter + 1)
      BY <1>0, <2>1 DEF TypeOK
    <2>4. buckets'[k] = [buckets[k] EXCEPT !.age = b]
      BY <1>1, <2>2
    <2>5. buckets'[k] \in BucketStates /\ buckets'[k].tokens = n /\ buckets'[k].age = b
      <3> HIDE DEF b
      <3> QED
        BY <2>3, <2>4 DEF BucketStates
    <2>6. /\ Filled(buckets'[k]) = Min({Capacity, n + b * Rate})
          /\ Filled(buckets[k]) = Min({Capacity, n + a * Rate})
      BY <2>5 DEF Filled
    <2> DEFINE x == a * Rate
               y == b * Rate
    <2>7. /\ x \in Nat /\ y \in Nat
          /\ y = x + Rate \/ (x >= Capacity /\ y >= Capacity)
      <3>1. CASE a < StaleAfter + 1
        <4>1. b = a + 1
          BY <1>0, <2>1, <3>1
        <4>2. (a + 1) * Rate = a * Rate + Rate /\ a * Rate \in Nat
          BY <1>0, <2>1, OneMoreTick
        <4> QED
          BY <1>0, <4>1, <4>2
      <3>2. CASE a = StaleAfter + 1
        <4>1. b = StaleAfter + 1
          BY <1>0, <2>1, <3>2
        <4>2. (StaleAfter + 1) * Rate = StaleAfter * Rate + Rate /\ StaleAfter * Rate \in Nat
          BY <1>0, OneMoreTick
        <4> QED
          BY <1>0, <3>2, <4>1, <4>2
      <3> QED
        BY <1>0, <2>1, <3>1, <3>2
    <2> HIDE DEF x, y, n
    <2>8. /\ Filled(buckets'[k]) = Min({Capacity, n + y})
          /\ Filled(buckets[k]) = Min({Capacity, n + x})
      BY <2>6 DEF x, y, n
    <2>9. n \in Nat
      BY <1>0, <2>1
    <2>10. /\ Min({Capacity, n + y}) = IF Capacity <= n + y THEN Capacity ELSE n + y
           /\ Min({Capacity, n + x}) = IF Capacity <= n + x THEN Capacity ELSE n + x
      BY <1>0, <2>7, <2>9, MinOfTwo
    <2> DEFINE f == Filled(buckets[k])
    <2>11. f = IF Capacity <= n + x THEN Capacity ELSE n + x
      BY <2>8, <2>10
    <2> HIDE DEF f
    <2>12. f \in Nat
      BY <1>0, <2>7, <2>9, <2>11
    <2>13. Min({Capacity, f + Rate}) = IF Capacity <= f + Rate THEN Capacity ELSE f + Rate
      BY <1>0, <2>12, MinOfTwo
    <2>14. Filled(buckets'[k]) = Min({Capacity, f + Rate})
      BY <1>0, <2>7, <2>8, <2>9, <2>10, <2>11, <2>12, <2>13
    <2> QED
      BY <2>5, <2>14 DEF f
  <1>3. ASSUME NEW k PROVE Level(k)' = Min({Capacity, Level(k) + Rate})
    <2>1. CASE k \in DOMAIN buckets
      <3>1. Level(k)' = Filled(buckets'[k]) /\ Level(k) = Filled(buckets[k])
        BY <1>1, <2>1 DEF Level, Filled
      <3> QED
        BY <1>2, <2>1, <3>1
    <2>2. CASE k \notin DOMAIN buckets
      <3>1. Level(k)' = Capacity /\ Level(k) = Capacity
        BY <1>1, <2>2 DEF Level, NewBucket
      <3>2. Min({Capacity, Capacity + Rate}) = Capacity
        BY <1>0, MinOfTwo
      <3> QED
        BY <3>1, <3>2
    <2> QED
      BY <2>1, <2>2
  <1> QED
    BY <1>1, <1>2, <1>3

-----------------------------------------------------------------------------
(* The theorems.                                                           *)

(* No streams are within the limit.                                        *)
LEMMA NoneIsFew == Cardinality({}) <= max_per_key
  <1>1. Cardinality({}) = 0
    BY FS_EmptySet
  <1>2. 0 <= max_per_key
    BY GatewayAssumption
  <1> QED
    BY <1>1, <1>2

(* The invariant holds at the start.                                       *)
LEMMA GateInit == Init => GateInv
  <1> SUFFICES ASSUME Init PROVE GateInv
    OBVIOUS
  <1>1. NoStream \in StreamStates /\ NoStream.phase = "idle"
    BY DEF NoStream, StreamStates, Phases, StreamKeys
  <1>2. /\ streams = [t \in Tasks |-> NoStream] /\ DOMAIN buckets = {}
        /\ DOMAIN semaphores = {}
    BY DEF Init
  <1>3. TypeOK /\ Own
    BY <1>1, <1>2 DEF TypeOK, Own
  <1>4. Held
    BY <1>1, <1>2 DEF Held
  <1>5. Capped
    <2>1. \A s : In("open", s) = {}
      BY <1>1, <1>2 DEF In
    <2> QED
      BY <2>1, NoneIsFew DEF Capped
  <1> QED
    BY <1>3, <1>4, <1>5 DEF GateInv

(* Every step keeps the invariant and is a step of one bucket per caller.  *)
LEMMA GateNext ==
    GateInv /\ [Next]_vars => GateInv' /\ [Promise!Next]_(Promise!vars)
  <1> SUFFICES ASSUME GateInv, [Next]_vars
               PROVE  GateInv' /\ [Promise!Next]_(Promise!vars)
    OBVIOUS
  <1> DEFINE level == [p \in Principals |-> Level(p)]
  <1>0. TypeOK
    BY DEF GateInv
  <1>1. ASSUME UNCHANGED served, \A p : Level(p)' = Level(p)
        PROVE  [Promise!Next]_(Promise!vars)
    BY <1>1 DEF Promise!vars
  <1>2. ASSUME UNCHANGED <<buckets, served>> PROVE [Promise!Next]_(Promise!vars)
    <2>1. \A p : Level(p)' = Level(p)
      BY <1>2 DEF Level, Filled
    <2> QED
      BY <1>1, <1>2, <2>1
  <1>3. ASSUME NEW r \in Requests, Refuse(KeyOf(r))
        PROVE  GateInv' /\ [Promise!Next]_(Promise!vars)
    <2> DEFINE k == KeyOf(r)
    <2>1. SetBucket(k, Level(k)) /\ UNCHANGED <<served, semaphores, streams>>
      BY <1>3 DEF Refuse
    <2> HIDE DEF k
    <2>2. /\ \A j \in DOMAIN buckets' : buckets'[j] \in BucketStates
          /\ \A p : Level(p)' = Level(p)
      BY <1>0, <2>1, LevelBounds, SetBucketLevels
    <2> QED
      BY <1>1, <2>1, <2>2, StreamsUntouched
  <1>4. ASSUME NEW r \in Requests, allow(r)
        PROVE  /\ \A j \in DOMAIN buckets' : buckets'[j] \in BucketStates
               /\ Promise!Next
    <2> DEFINE p == r.by
    <2>1. KeyOf(r) = p /\ p \in Principals
      BY KeyIsCaller
    <2> HIDE DEF p
    <2>2. /\ Level(p) >= Cost /\ SetBucket(p, Level(p) - Cost) /\ served' = p
      BY <1>4, <2>1 DEF allow, p
    <2>3. Level(p) - Cost \in 0..Capacity
      BY <1>0, <2>2, LevelBounds, GatewayAssumption
    <2>4. /\ \A j \in DOMAIN buckets' : buckets'[j] \in BucketStates
          /\ Level(p)' = Level(p) - Cost
          /\ \A q : q # p => Level(q)' = Level(q)
      BY <1>0, <2>2, <2>3, SetBucketLevels
    <2>5. Promise!Serve(p)
      <3>1. level' = [level EXCEPT ![p] = @ - Cost]
        BY <2>1, <2>4
      <3>2. level[p] >= Cost
        BY <2>1, <2>2
      <3> QED
        BY <2>2, <3>1, <3>2 DEF Promise!Serve
    <2> QED
      BY <2>1, <2>4, <2>5 DEF Promise!Next
  <1>5. ASSUME NEW r \in Requests, OrdinaryRequest(r)
        PROVE  GateInv' /\ [Promise!Next]_(Promise!vars)
    BY <1>4, <1>5, StreamsUntouched DEF OrdinaryRequest
  <1>6. ASSUME NEW r \in Requests, NEW t \in Tasks, rest_stream_auctions(r, t)
        PROVE  GateInv' /\ [Promise!Next]_(Promise!vars)
    <2>1. r.route = "stream" /\ allow(r) /\ TakeSemaphore(t, client_key(r))
      BY <1>6 DEF rest_stream_auctions
    <2>2. client_key(r) \in Principals
      BY <2>1, KeyIsCaller
    <2> QED
      BY <1>4, <2>1, <2>2, TakeSemaphoreKeeps
  <1>7. ASSUME NEW t \in Tasks, try_acquire_owned(t)
        PROVE  GateInv' /\ [Promise!Next]_(Promise!vars)
    BY <1>2, <1>7, AcquireKeeps DEF try_acquire_owned
  <1>8. ASSUME NEW t \in Tasks, DropPermit(t) \/ DropEntry(t) \/ DropSemaphore(t)
        PROVE  GateInv' /\ [Promise!Next]_(Promise!vars)
    <2>1. UNCHANGED <<buckets, served>>
      BY <1>8 DEF DropPermit, DropEntry, DropSemaphore
    <2> QED
      BY <1>2, <1>8, <2>1, CloseKeeps
  <1>9. CASE evict_stale
    <2>1. UNCHANGED <<served, semaphores, streams>>
      BY <1>9 DEF evict_stale
    <2> QED
      BY <1>0, <1>1, <1>9, <2>1, EvictLevels, StreamsUntouched
  <1>10. CASE ClockTick
    <2>1. UNCHANGED <<served, semaphores, streams>>
      BY <1>10 DEF ClockTick
    <2>2. level' = [p \in Principals |-> Min({Capacity, level[p] + Rate})]
      BY <1>0, <1>10, TickLevels
    <2>3. Promise!Next
      BY <2>1, <2>2 DEF Promise!Next, Promise!Refill, Promise!Min, Min
    <2> QED
      BY <1>0, <1>10, <2>1, <2>3, TickLevels, StreamsUntouched
  <1>11. CASE UNCHANGED vars
    <2>1. UNCHANGED <<buckets, served, semaphores, streams>>
      BY <1>11 DEF vars
    <2> QED
      BY <1>0, <1>2, <2>1, StreamsUntouched DEF TypeOK
  <1> QED
    BY <1>3, <1>5, <1>6, <1>7, <1>8, <1>9, <1>10, <1>11 DEF Next

(* A client key never has more than max_per_key auction streams open,      *)
(* however try_acquire, the steps of closing streams and the clean-up by   *)
(* other keys interleave.                                                  *)
THEOREM StreamsAreBounded == Spec => []StreamsBounded
  <1>1. GateInv => StreamsBounded
    <2> SUFFICES ASSUME GateInv, NEW k \in Principals
                 PROVE  Cardinality({t \in Tasks : streams[t].phase = "open" /\ streams[t].key = k})
                           <= max_per_key
      BY DEF StreamsBounded
    <2> DEFINE mine == {t \in Tasks : streams[t].phase = "open" /\ streams[t].key = k}
    <2>1. CASE mine = {}
      BY <2>1, NoneIsFew
    <2>2. CASE mine # {}
      <3> DEFINE s == semaphores[k]
      <3>1. k \in DOMAIN semaphores /\ mine \in SUBSET In("open", s)
        BY <2>2 DEF GateInv, Held, In
      <3>2. s \in Nat
        BY <3>1 DEF GateInv, TypeOK
      <3>3. /\ IsFiniteSet(In("open", s)) /\ Cardinality(In("open", s)) \in Nat
            /\ Cardinality(In("open", s)) <= max_per_key
        BY <3>2, Counts DEF GateInv, Capped
      <3> HIDE DEF mine, s
      <3>4. /\ Cardinality(mine) <= Cardinality(In("open", s))
            /\ Cardinality(mine) \in Nat
        BY <3>1, <3>3, FS_Subset, FS_CardinalityType
      <3>5. Cardinality(mine) <= max_per_key
        BY <3>3, <3>4, GatewayAssumption
      <3> QED
        BY <3>5 DEF mine
    <2> QED
      BY <2>1, <2>2
  <1> QED
    BY <1>1, GateInit, GateNext, PTL DEF Spec

(* The limiter implements one bucket per principal: no header a client     *)
(* makes up moves its requests to another bucket, and an evicted bucket    *)
(* was full.                                                               *)
THEOREM OneBucketEach == Spec => BucketPromise
  <1>1. Init => Promise!Init
    <2> SUFFICES ASSUME Init PROVE Promise!Init
      OBVIOUS
    <2>1. \A p : Level(p) = Capacity
      BY DEF Init, Level, NewBucket
    <2> QED
      BY <2>1 DEF Init, Promise!Init
  <1> QED
    BY <1>1, GateInit, GateNext, PTL DEF Spec, BucketPromise, Promise!Spec
=============================================================================
