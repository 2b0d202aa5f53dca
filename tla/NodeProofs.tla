----------------------------- MODULE NodeProofs ------------------------------
(***************************************************************************)
(* Proofs about one dp-api process over its life, for any configurations,  *)
(* keys, clients and cache time: what a refused boot leaves, what the      *)
(* listeners serve with, that recovery reads the whole log, and that a     *)
(* published key opens what is sealed to it.                               *)
(***************************************************************************)
EXTENDS Node, SequenceTheorems, WellFoundedInduction, TLAPS

Booting == {"validate", "stores", "keys", "recover", "seed"}
Up      == {"seed", "tasks", "grpc", "rest", "serving", "drain"}
Keyed   == Up \cup {"recover"}

PairNames == UNION {{c.seed[i].pair : i \in DOMAIN c.seed} : c \in Configs}
Events    == [kind : {"pair"}, pair : PairNames] \cup [kind : {"order"}, key : Keys]
Entries   == [id : Keys, status : Statuses]
Listeners == [up : BOOLEAN, cert : Nat, key : Nat]

KeyIds(c) == {c.keys[i].id : i \in DOMAIN c.keys}

TypeOK ==
    /\ pc \in {"down", "validate", "stores", "keys"} \cup Keyed
    /\ pc \in Booting => cfg \in Configs
    /\ log \in Seq(Events) /\ ring \in Seq(Entries)
    /\ mark \in Nat
    /\ disk \in [cert : Nat \ {0}, key : Nat \ {0}]
    /\ grpc \in Listeners /\ rest \in Listeners
    /\ cached \in [Clients -> Keys \cup {NoKey}] /\ age \in [Clients -> Nat]
    /\ quiet \in [Keys -> Nat]

(* Where each part of the process stands at each stage of the boot.        *)
Stages ==
    /\ pc # "down" => why = ""
    /\ pc \in {"validate", "stores", "keys", "recover"} \/
       (pc = "down" /\ why \in {"validate", "stores", "keys"}) => Len(log) = mark
    /\ pc \in Booting => mark <= Len(log)
    /\ pc \in Up => loaded = DOMAIN log
    /\ pc \in {"down", "validate", "stores", "keys"} => ring = << >>
    /\ pc \in {"down", "validate", "stores", "keys", "recover"} => loaded = {}
    /\ pc \in Keyed \cup {"stores", "keys"} => Validated(cfg)

(* A listener is up only behind the checks, with files that go together.   *)
Served ==
    \A l \in {grpc, rest} : l.up =>
        /\ pc \in {"rest", "serving", "drain"}
        /\ l.cert = l.key
        /\ l.cert = 0 => tls_mode(cfg) = "plaintext"

(* A key a client may still use is configured and then in the ring; a copy *)
(* is at least as old as its key has been out of use.                      *)
KeysKept ==
    /\ pc \in {"validate", "stores", "keys"} =>
          \A k \in Keys : quiet[k] <= Window => k \in KeyIds(cfg)
    /\ pc \in Keyed =>
          /\ \A k \in Keys : quiet[k] <= Window => k \in Ids(ring)
          /\ \A k \in Active(ring) : quiet[k] = 0
    /\ pc = "recover" => Ids(ring) = KeyIds(cfg)
    /\ \A cl \in Clients : cached[cl] # NoKey =>
          quiet[cached[cl]] <= age[cl] /\ age[cl] <= Window

(* The inductive invariant.                                                *)
NodeInv == TypeOK /\ Stages /\ Served /\ KeysKept

-----------------------------------------------------------------------------
(* Induction, on sets of natural numbers.                                  *)

(* A set of natural numbers has a least one.                               *)
LEMMA LeastNatural ==
    ASSUME NEW T \in SUBSET Nat, T # {}
    PROVE  \E x \in T : \A y \in T : x <= y
  <1> DEFINE R == OpToRel(<, Nat)
  <1>1. IsWellFoundedOn(R, Nat)
    BY NatLessThanWellFounded
  <1>2. \A y, x \in Nat : <<y, x>> \in R <=> y < x
    BY DEF OpToRel
  <1> HIDE DEF R
  <1>3. PICK x \in T : \A y \in T : ~(<<y, x>> \in R)
    BY <1>1, WFMin
  <1>4. \A y \in T : y \in Nat /\ x \in Nat /\ ~(y < x)
    BY <1>2, <1>3
  <1>5. \A y \in T : x <= y
    BY <1>4
  <1> QED
    BY <1>5

(* What holds of 0 and goes from each number to the next holds of all.     *)
LEMMA SetInduction ==
    ASSUME NEW S, 0 \in S, \A n \in Nat : n \in S => n + 1 \in S
    PROVE  \A n \in Nat : n \in S
  <1> SUFFICES ASSUME NEW k \in Nat, k \notin S PROVE FALSE
    OBVIOUS
  <1>1. PICK x \in Nat \ S : \A y \in Nat \ S : x <= y
    <2>1. Nat \ S \in SUBSET Nat /\ Nat \ S # {}
      OBVIOUS
    <2> QED
      BY <2>1, LeastNatural
  <1>2. x # 0 /\ x - 1 \in Nat /\ (x - 1) + 1 = x
    BY <1>1
  <1>3. x - 1 \in S
    BY <1>1, <1>2
  <1> QED
    BY <1>1, <1>2, <1>3

-----------------------------------------------------------------------------
(* The ring of keys.                                                       *)

(* A ring's entries, by index.                                             *)
LEMMA RingShape ==
    ASSUME NEW S, NEW r \in Seq(S)
    PROVE  /\ Len(r) \in Nat /\ DOMAIN r = 1..Len(r)
           /\ \A i \in DOMAIN r : r[i] \in S
  BY LenProperties, ElementOfSeq

(* insert adds its id and takes none away; only it can become active.      *)
LEMMA InsertKeeps ==
    ASSUME NEW r \in Seq(Entries), NEW e \in Entries
    PROVE  /\ insert(r, e) \in Seq(Entries)
           /\ Ids(insert(r, e)) = Ids(r) \cup {e.id}
           /\ \A k \in Active(insert(r, e)) :
                 k \in Active(r) \/ (k = e.id /\ e.status = "active")
  <1>1. /\ Len(r) \in Nat /\ DOMAIN r = 1..Len(r)
        /\ \A i \in DOMAIN r : r[i] \in Entries
    BY RingShape
  <1>2. CASE e.id \in Ids(r)
    <2> DEFINE q == [i \in DOMAIN r |-> IF r[i].id = e.id THEN e ELSE r[i]]
    <2>1. insert(r, e) = q
      BY <1>2 DEF insert
    <2>2. q \in [1..Len(r) -> Entries]
      BY <1>1
    <2>3. q \in Seq(Entries)
      BY <1>1, <2>2, SeqDef
    <2>4. Ids(q) = Ids(r) \cup {e.id}
      BY <1>1, <1>2 DEF Ids
    <2>5. \A k \in Active(q) : k \in Active(r) \/ (k = e.id /\ e.status = "active")
      BY <1>1 DEF Active
    <2> QED
      BY <2>1, <2>3, <2>4, <2>5
  <1>3. CASE e.id \notin Ids(r)
    <2> DEFINE q == Append(r, e)
    <2>1. insert(r, e) = q
      BY <1>3 DEF insert
    <2>2. /\ q \in Seq(Entries) /\ DOMAIN q = DOMAIN r \cup {Len(r) + 1}
          /\ \A i \in DOMAIN r : q[i] = r[i]
          /\ q[Len(r) + 1] = e
      BY <1>1, AppendProperties, LenProperties
    <2> HIDE DEF q
    <2>3. Ids(q) = Ids(r) \cup {e.id}
      BY <2>2 DEF Ids
    <2>4. \A k \in Active(q) : k \in Active(r) \/ (k = e.id /\ e.status = "active")
      BY <2>2 DEF Active
    <2> QED
      BY <2>1, <2>2, <2>3, <2>4
  <1> QED
    BY <1>2, <1>3

(* remove takes no other id away, and makes none active.                   *)
LEMMA RemoveKeeps ==
    ASSUME NEW r \in Seq(Entries), NEW k \in Ids(r)
    PROVE  /\ remove(r, k) \in Seq(Entries)
           /\ Ids(r) \ {k} \subseteq Ids(remove(r, k))
           /\ Active(remove(r, k)) \subseteq Active(r)
  <1>1. /\ Len(r) \in Nat /\ DOMAIN r = 1..Len(r)
        /\ \A i \in DOMAIN r : r[i] \in Entries
    BY RingShape
  <1> DEFINE n == CHOOSE i \in DOMAIN r : r[i].id = k
             q == RemoveAt(r, n)
  <1>2. n \in 1..Len(r) /\ r[n].id = k
    BY <1>1 DEF Ids
  <1>3. remove(r, k) = q
    BY DEF remove
  <1> HIDE DEF n
  <1>4. /\ q \in Seq(Entries) /\ Len(q) = Len(r) - 1 /\ DOMAIN q = 1..(Len(r) - 1)
        /\ \A i \in 1..(Len(r) - 1) : q[i] = r[IF i < n THEN i ELSE i + 1]
    <2> DEFINE before == SubSeq(r, 1, n - 1)
               after == SubSeq(r, n + 1, Len(r))
    <2>1. /\ before \in Seq(Entries) /\ Len(before) = n - 1
          /\ \A i \in 1..(n - 1) : before[i] = r[i]
      BY <1>1, <1>2, SubSeqProperties
    <2>2. /\ after \in Seq(Entries) /\ Len(after) = Len(r) - n
          /\ \A i \in 1..(Len(r) - n) : after[i] = r[n + i]
      <3> DEFINE m == n + 1
                 h == Len(r)
      <3>1. /\ m \in 1..(Len(r) + 1) /\ h \in (m - 1)..Len(r)
            /\ h - m + 1 = Len(r) - n
            /\ \A i \in 1..(Len(r) - n) : m + i - 1 = n + i
        BY <1>1, <1>2
      <3> HIDE DEF m, h
      <3>2. /\ SubSeq(r, m, h) \in Seq(Entries)
            /\ Len(SubSeq(r, m, h)) = h - m + 1
            /\ \A i \in 1..(h - m + 1) : SubSeq(r, m, h)[i] = r[m + i - 1]
        BY <1>1, <3>1, SubSeqProperties
      <3> QED
        BY <3>1, <3>2 DEF m, h
    <2>3. q = before \o after
      BY DEF RemoveAt
    <2> HIDE DEF before, after, q
    <2>4. /\ q \in Seq(Entries) /\ Len(q) = (n - 1) + (Len(r) - n)
          /\ \A i \in 1..((n - 1) + (Len(r) - n)) :
                q[i] = IF i <= n - 1 THEN before[i] ELSE after[i - (n - 1)]
      <3>1. /\ before \o after \in Seq(Entries)
            /\ Len(before \o after) = Len(before) + Len(after)
            /\ \A i \in 1..(Len(before) + Len(after)) : (before \o after)[i] =
                  IF i <= Len(before) THEN before[i] ELSE after[i - Len(before)]
        BY <2>1, <2>2, ConcatProperties
      <3> QED
        BY <2>1, <2>2, <2>3, <3>1
    <2>5. (n - 1) + (Len(r) - n) = Len(r) - 1
      BY <1>1, <1>2
    <2>6. DOMAIN q = 1..(Len(r) - 1)
      BY <2>4, <2>5, LenProperties
    <2>7. ASSUME NEW i \in 1..(Len(r) - 1)
          PROVE  q[i] = r[IF i < n THEN i ELSE i + 1]
      <3>1. CASE i < n
        <4>1. i \in 1..(n - 1) /\ i <= n - 1
          BY <1>1, <1>2, <3>1
        <4> QED
          BY <2>1, <2>4, <2>5, <3>1, <4>1
      <3>2. CASE ~(i < n)
        <4>1. /\ i - (n - 1) \in 1..(Len(r) - n) /\ ~(i <= n - 1)
              /\ n + (i - (n - 1)) = i + 1
          BY <1>1, <1>2, <3>2
        <4> QED
          BY <2>2, <2>4, <2>5, <3>2, <4>1
      <3> QED
        BY <3>1, <3>2
    <2> QED
      BY <2>4, <2>5, <2>6, <2>7
  <1> HIDE DEF q
  <1>5. Ids(r) \ {k} \subseteq Ids(q)
    <2> SUFFICES ASSUME NEW j \in DOMAIN r, r[j].id # k PROVE r[j].id \in Ids(q)
      BY DEF Ids
    <2>1. CASE j < n
      <3>1. j \in 1..(Len(r) - 1) /\ q[j] = r[j]
        BY <1>1, <1>2, <1>4, <2>1
      <3> QED
        BY <1>4, <3>1 DEF Ids
    <2>2. CASE j > n
      <3>1. j - 1 \in 1..(Len(r) - 1) /\ q[j - 1] = r[j]
        BY <1>1, <1>2, <1>4, <2>2
      <3> QED
        BY <1>4, <3>1 DEF Ids
    <2> QED
      BY <1>1, <1>2, <2>1, <2>2
  <1>6. Active(q) \subseteq Active(r)
    <2>1. \A i \in DOMAIN q : (IF i < n THEN i ELSE i + 1) \in DOMAIN r
      BY <1>1, <1>2, <1>4
    <2> QED
      BY <1>4, <2>1 DEF Active
  <1> QED
    BY <1>3, <1>4, <1>5, <1>6

(* The loop over the configured entries ends with exactly their ids.       *)
LEMMA RingFromIds ==
    ASSUME NEW specs \in Seq(KeySpecs)
    PROVE  /\ RingFrom(specs) \in Seq(Entries)
           /\ Ids(RingFrom(specs)) = {specs[i].id : i \in DOMAIN specs}
  <1> DEFINE n == Len(specs)
             entry(i) == parse_key_uri_spec(specs[i], i > 1)
             step(q, i) == insert(q, entry(i))
             loop(k, r) == r = [i \in 0..k |-> IF i = 0 THEN << >> ELSE step(r[i - 1], i)]
             built == CHOOSE r : loop(n, r)
  <1>1. n \in Nat /\ DOMAIN specs = 1..n
        /\ \A i \in 1..n : specs[i] \in KeySpecs
    BY RingShape
  <1>2. \A i \in 1..n : entry(i) \in Entries /\ entry(i).id = specs[i].id
    BY <1>1 DEF parse_key_uri_spec, KeySpecs, Entries, Statuses
  <1>3. RingFrom(specs) = built[n]
    BY DEF RingFrom
  <1> HIDE DEF entry, step
  <1>4. \E r : loop(n, r)
    <2> DEFINE S == {k \in Nat : \E r : loop(k, r)}
    <2>1. 0 \in S
      <3>1. loop(0, [i \in 0..0 |-> << >>])
        OBVIOUS
      <3> QED
        BY <3>1
    <2>2. ASSUME NEW k \in Nat, k \in S PROVE k + 1 \in S
      <3>1. PICK r : loop(k, r)
        BY <2>2
      <3> DEFINE q == [i \in 0..(k + 1) |-> IF i <= k THEN r[i] ELSE step(r[k], k + 1)]
      <3>2. \A i \in 0..(k + 1) : q[i] = IF i = 0 THEN << >> ELSE step(q[i - 1], i)
        <4>1. \A i \in 0..k : q[i] = r[i]
          OBVIOUS
        <4>2. \A i \in 0..k : r[i] = IF i = 0 THEN << >> ELSE step(r[i - 1], i)
          BY <3>1
        <4>3. q[k + 1] = step(r[k], k + 1)
          OBVIOUS
        <4> HIDE DEF q
        <4>4. ASSUME NEW i \in 1..k PROVE q[i] = step(q[i - 1], i)
          <5>1. i - 1 \in 0..k /\ i \in 0..k /\ i # 0
            OBVIOUS
          <5>2. q[i] = r[i] /\ q[i - 1] = r[i - 1]
            BY <4>1, <5>1
          <5>3. r[i] = step(r[i - 1], i)
            BY <4>2, <5>1
          <5> QED
            BY <5>2, <5>3
        <4>5. q[0] = << >>
          BY <4>1, <4>2
        <4>6. (k + 1) - 1 = k /\ q[k] = r[k] /\ k + 1 # 0
          BY <4>1
        <4>7. ASSUME NEW i \in 0..(k + 1)
              PROVE  q[i] = IF i = 0 THEN << >> ELSE step(q[i - 1], i)
          <5>1. i = 0 \/ i = k + 1 \/ (i \in 1..k /\ i # 0)
            OBVIOUS
          <5> QED
            BY <4>3, <4>4, <4>5, <4>6, <5>1
        <4> QED
          BY <4>7
      <3>3. loop(k + 1, q)
        <4> DEFINE f == [i \in 0..(k + 1) |-> IF i = 0 THEN << >> ELSE step(q[i - 1], i)]
        <4>1. q = [i \in 0..(k + 1) |-> q[i]]
          OBVIOUS
        <4> HIDE DEF q
        <4> QED
          BY <3>2, <4>1
      <3> HIDE DEF q, loop
      <3>4. \E x : loop(k + 1, x)
        BY <3>3
      <3> QED
        BY <3>4
    <2> HIDE DEF S
    <2>3. n \in S
      BY <1>1, <2>1, <2>2, SetInduction
    <2> QED
      BY <2>3 DEF S
  <1>5. loop(n, built)
    BY <1>4
  <1>6. /\ built[0] = << >>
        /\ \A i \in 1..n : built[i] = step(built[i - 1], i)
    <2> HIDE DEF built
    <2>1. \A i \in 0..n : built[i] = IF i = 0 THEN << >> ELSE step(built[i - 1], i)
      BY <1>5
    <2>2. 0 \in 0..n /\ \A i \in 1..n : i \in 0..n /\ i # 0
      BY <1>1
    <2> QED
      BY <2>1, <2>2
  <1> HIDE DEF built, loop
  <1> DEFINE good(i) == /\ built[i] \in Seq(Entries)
                        /\ Ids(built[i]) = {specs[j].id : j \in 1..i}
             T == {i \in Nat : i <= n => good(i)}
  <1>7. 0 \in T
    <2>1. Ids(<< >>) = {}
      BY DEF Ids
    <2>2. {specs[j].id : j \in 1..0} = {}
      OBVIOUS
    <2>3. << >> \in Seq(Entries)
      BY EmptySeq
    <2> QED
      BY <1>6, <2>1, <2>2, <2>3
  <1>8. ASSUME NEW i \in Nat, i \in T PROVE i + 1 \in T
    <2> SUFFICES ASSUME i + 1 <= n PROVE good(i + 1)
      OBVIOUS
    <2>1. good(i) /\ i + 1 \in 1..n /\ (i + 1) - 1 = i
      BY <1>1, <1>8
    <2>2. /\ built[i + 1] = insert(built[i], entry(i + 1))
          /\ entry(i + 1) \in Entries /\ entry(i + 1).id = specs[i + 1].id
      BY <1>2, <1>6, <2>1 DEF step
    <2> HIDE DEF entry
    <2>3. /\ built[i + 1] \in Seq(Entries)
          /\ Ids(built[i + 1]) = Ids(built[i]) \cup {specs[i + 1].id}
      BY <1>2, <2>1, <2>2, InsertKeeps
    <2>4. 1..(i + 1) = (1..i) \cup {i + 1}
      OBVIOUS
    <2> QED
      BY <2>1, <2>3, <2>4
  <1> HIDE DEF T
  <1>9. n \in T
    BY <1>1, <1>7, <1>8, SetInduction
  <1> QED
    BY <1>1, <1>3, <1>9 DEF T
-----------------------------------------------------------------------------
(* The steps.                                                              *)

(* Where the boot goes from each of its stages.                            *)
LEMMA ProceedGoes ==
    ASSUME Proceed
    PROVE  /\ UNCHANGED <<cfg, why, mark, boots>>
           /\ pc = "validate" => pc' = "stores"
           /\ pc = "stores" => pc' = "keys"
           /\ pc = "keys" => pc' = "recover"
           /\ pc = "recover" => pc' = "seed"
           /\ pc = "tasks" => pc' = "grpc"
           /\ pc = "grpc" => pc' = "rest"
           /\ pc = "rest" => pc' = "serving"
  <1> DEFINE i == CHOOSE j \in DOMAIN BootOrder : BootOrder[j] = pc
  <1>1. pc' = BootOrder[i + 1] /\ UNCHANGED <<cfg, why, mark, boots>>
    BY DEF Proceed, Goto
  <1>2. /\ DOMAIN BootOrder = 1..9
        /\ BootOrder[1] = "validate" /\ BootOrder[2] = "stores"
        /\ BootOrder[3] = "keys" /\ BootOrder[4] = "recover"
        /\ BootOrder[5] = "seed" /\ BootOrder[6] = "tasks"
        /\ BootOrder[7] = "grpc" /\ BootOrder[8] = "rest"
        /\ BootOrder[9] = "serving"
    BY DEF BootOrder
  <1>3. ASSUME NEW j \in DOMAIN BootOrder, BootOrder[j] = pc
        PROVE  i \in 1..9 /\ BootOrder[i] = pc
    BY <1>2, <1>3
  <1> HIDE DEF i
  <1>4. /\ pc = "validate" => i = 1
        /\ pc = "stores" => i = 2
        /\ pc = "keys" => i = 3
        /\ pc = "recover" => i = 4
        /\ pc = "tasks" => i = 6
        /\ pc = "grpc" => i = 7
        /\ pc = "rest" => i = 8
    BY <1>2, <1>3
  <1> QED
    BY <1>1, <1>2, <1>4

(* The process may end anywhere, as long as a refusal wrote nothing.       *)
LEMMA GoneKeeps ==
    ASSUME NodeInv, Gone,
           why' \in {"validate", "stores", "keys"} => Len(log) = mark
    PROVE  NodeInv'
  <1>1. TypeOK'
    <2>1. << >> \in Seq(Entries)
      BY EmptySeq
    <2> QED
      BY <2>1 DEF NodeInv, TypeOK, Gone, Off, Listeners, Booting, durable, clients
  <1>2. Stages'
    BY DEF NodeInv, Stages, Gone, Booting, Up, Keyed, durable
  <1>3. Served'
    BY DEF Served, Gone, Off
  <1>4. KeysKept'
    BY DEF NodeInv, KeysKept, Gone, Keyed, Up, clients
  <1> QED
    BY <1>1, <1>2, <1>3, <1>4 DEF NodeInv

(* A refusal at one of the checks, or later.                               *)
LEMMA RefuseKeeps ==
    ASSUME NodeInv, Refuse
    PROVE  NodeInv'
  <1>1. why' \in {"validate", "stores", "keys"} => Len(log) = mark
    BY DEF Refuse, NodeInv, Stages
  <1> QED
    BY <1>1, GoneKeeps DEF Refuse

(* The process starts: the operator kept the keys in use configured.       *)
LEMMA StartKeeps ==
    ASSUME NodeInv, NEW c \in Configs, StartProcess(c)
    PROVE  NodeInv'
  <1>0. pc = "down" /\ pc' = "validate"
    BY DEF StartProcess, BootOrder
  <1> USE DEF StartProcess, durable, tls, clients
  <1>1. TypeOK'
    BY <1>0, RingShape DEF NodeInv, TypeOK, Booting, Keyed, Up
  <1>2. Stages'
    <2>1. Len(log) \in Nat
      BY RingShape DEF NodeInv, TypeOK
    <2>2. /\ why' = "" /\ mark' = Len(log) /\ log' = log
          /\ ring' = << >> /\ loaded' = {}
      BY <1>0 DEF NodeInv, Stages
    <2> HIDE DEF StartProcess
    <2>3. Len(log') = mark' /\ mark' <= Len(log')
      <3>1. Len(log') = mark' /\ mark' \in Nat
        BY <2>1, <2>2, Zenon
      <3>2. \A m, n : m = n /\ n \in Nat => n <= m
        OBVIOUS
      <3> QED
        BY <3>1, <3>2, Zenon
    <2> QED
      BY <1>0, <2>2, <2>3 DEF Stages, Booting, Up, Keyed
  <1>3. Served'
    BY <1>0 DEF NodeInv, Served
  <1>4. KeysKept'
    <2>1. \A k \in Keys : quiet'[k] <= Window => k \in KeyIds(cfg)'
      BY DEF KeyIds
    <2> QED
      BY <1>0, <2>1 DEF NodeInv, KeysKept, Keyed, Up
  <1> QED
    BY <1>1, <1>2, <1>3, <1>4 DEF NodeInv

(* The checks before the first connection, and those of the stores.        *)
LEMMA ChecksKeep ==
    ASSUME NodeInv, Validate \/ OpenStores
    PROVE  NodeInv'
  <1>1. CASE Refuse
    BY <1>1, RefuseKeeps
  <1>2. CASE ~Refuse
    <2>1. /\ \/ pc = "validate" /\ pc' = "stores"
             \/ pc = "stores" /\ pc' = "keys"
          /\ Validated(cfg)
          /\ UNCHANGED <<cfg, why, mark, durable, ring, loaded, tls, clients>>
      BY <1>2, ProceedGoes DEF Validate, OpenStores, NodeInv, Stages
    <2> USE <2>1 DEF durable, tls, clients
    <2>2. TypeOK'
      BY DEF NodeInv, TypeOK, Booting, Keyed, Up
    <2>3. Validated(cfg)'
      BY DEF Validated, validate_siwe_config, validate_admin_auth,
             validate_server_limits, validate_settlement_transport, tls_mode,
             validate_plaintext_bind, Has
    <2>4. Stages'
      BY <2>3 DEF NodeInv, Stages, Booting, Up, Keyed
    <2>5. Served'
      BY DEF NodeInv, Served
    <2>6. KeysKept'
      BY DEF NodeInv, KeysKept, KeyIds, Keyed, Up
    <2> QED
      BY <2>2, <2>4, <2>5, <2>6 DEF NodeInv
  <1> QED
    BY <1>1, <1>2

(* The keys are loaded: those in use are among the configured ones.        *)
LEMMA LoadKeysKeeps ==
    ASSUME NodeInv, LoadKeys
    PROVE  NodeInv'
  <1>1. CASE Refuse
    BY <1>1, RefuseKeeps
  <1>2. CASE ~Refuse
    <2>1. /\ pc = "keys" /\ pc' = "recover"
          /\ ring' = RingFrom(cfg.keys) /\ quiet' = Quietened(ring')
          /\ UNCHANGED <<cfg, why, mark, durable, loaded, tls, cached, age>>
      BY <1>2, ProceedGoes DEF LoadKeys
    <2>2. /\ ring' \in Seq(Entries) /\ Ids(ring') = KeyIds(cfg)
      <3>1. cfg.keys \in Seq(KeySpecs)
        BY <2>1, NodeAssumption DEF NodeInv, TypeOK, Booting
      <3> QED
        BY <2>1, <3>1, RingFromIds DEF KeyIds
    <2>3. \A k \in Keys :
             /\ quiet'[k] \in Nat
             /\ quiet'[k] <= quiet[k]
             /\ k \in Active(ring') => quiet'[k] = 0
             /\ k \notin Active(ring') => quiet'[k] = quiet[k]
      BY <2>1 DEF Quietened, NodeInv, TypeOK
    <2>4. Active(ring') \subseteq Ids(ring') /\ Ids(ring') \subseteq Keys
      <3>1. \A i \in DOMAIN ring' : ring'[i] \in Entries
        BY <2>2, RingShape
      <3>2. \A i \in DOMAIN ring' : ring'[i].id \in Keys
        BY <3>1 DEF Entries
      <3> QED
        BY <3>2 DEF Active, Ids
    <2> USE DEF durable, tls
    <2>5. TypeOK'
      <3>1. quiet' \in [Keys -> Nat]
        BY <2>1, <2>3 DEF Quietened
      <3> QED
        BY <2>1, <2>2, <3>1 DEF NodeInv, TypeOK, Booting, Keyed, Up
    <2>6. Stages'
      <3>1. Validated(cfg)'
        BY <2>1 DEF NodeInv, Stages, Validated, validate_siwe_config,
               validate_admin_auth, validate_server_limits,
               validate_settlement_transport, tls_mode,
               validate_plaintext_bind, Has
      <3>2. mark' <= Len(log') /\ Len(log') = mark'
        BY <2>1 DEF NodeInv, Stages, Booting
      <3> QED
        BY <2>1, <3>1, <3>2 DEF NodeInv, Stages, Booting, Up, Keyed
    <2>7. Served'
      BY <2>1 DEF NodeInv, Served
    <2>8. KeysKept'
      <3>1. \A k \in Keys : quiet[k] <= Window => k \in Ids(ring')
        BY <2>1, <2>2 DEF NodeInv, KeysKept
      <3>2. \A k \in Keys : quiet'[k] <= Window => k \in Ids(ring')
        BY <2>3, <2>4, <3>1
      <3>3. \A k \in Active(ring') : quiet'[k] = 0
        BY <2>3, <2>4
      <3>4. Ids(ring') = KeyIds(cfg')
        BY <2>1, <2>2
      <3>5. \A cl \in Clients : cached[cl] # NoKey =>
                quiet'[cached[cl]] <= age[cl] /\ age[cl] <= Window
        <4>1. \A cl \in Clients : cached[cl] # NoKey =>
                /\ cached[cl] \in Keys /\ quiet[cached[cl]] \in Nat
                /\ age[cl] \in Nat
                /\ quiet[cached[cl]] <= age[cl] /\ age[cl] <= Window
          BY DEF NodeInv, KeysKept, TypeOK
        <4> QED
          BY <2>3, <4>1
      <3> QED
        BY <2>1, <3>2, <3>3, <3>4, <3>5 DEF KeysKept, Keyed, Up
    <2> QED
      BY <2>5, <2>6, <2>7, <2>8 DEF NodeInv
  <1> QED
    BY <1>1, <1>2

(* A step that moves pc between two stages behind recovery, perhaps with a *)
(* listener, and leaves the log, the keys and the clients alone.           *)
LEMMA LaterStageKeeps ==
    ASSUME NodeInv, pc \in Up \ {"seed"}, pc' \in Up \ {"seed"},
           UNCHANGED <<cfg, why, mark, durable, ring, loaded, clients>>,
           disk' \in [cert : Nat \ {0}, key : Nat \ {0}],
           grpc' \in Listeners, rest' \in Listeners, Served'
    PROVE  NodeInv'
  <1> USE DEF durable, clients
  <1>1. TypeOK'
    BY DEF NodeInv, TypeOK, Booting, Keyed, Up
  <1>2. Stages'
    <2>1. Validated(cfg)'
      BY DEF NodeInv, Stages, Keyed, Validated, validate_siwe_config,
             validate_admin_auth, validate_server_limits,
             validate_settlement_transport, tls_mode,
             validate_plaintext_bind, Has
    <2>2. why' = "" /\ loaded' = DOMAIN log'
      BY DEF NodeInv, Stages, Up
    <2> QED
      BY <2>1, <2>2 DEF Stages, Booting, Up, Keyed
  <1>3. KeysKept'
    BY DEF NodeInv, KeysKept, KeyIds, Ids, Active, Keyed, Up
  <1> QED
    BY <1>1, <1>2, <1>3 DEF NodeInv

(* Recovery takes in the whole log, or refuses it.                         *)
LEMMA RecoverKeeps ==
    ASSUME NodeInv, Recover
    PROVE  NodeInv'
  <1>1. CASE Refuse
    BY <1>1, RefuseKeeps
  <1>2. CASE ~Refuse
    <2>1. /\ pc = "recover" /\ pc' = "seed" /\ loaded' = DOMAIN log
          /\ UNCHANGED <<cfg, why, mark, durable, ring, tls, clients>>
      BY <1>2, ProceedGoes DEF Recover
    <2> USE DEF durable, tls, clients
    <2>2. TypeOK'
      BY <2>1 DEF NodeInv, TypeOK, Booting, Keyed, Up
    <2>3. Stages'
      <3>1. Validated(cfg)'
        BY <2>1 DEF NodeInv, Stages, Keyed, Validated, validate_siwe_config,
               validate_admin_auth, validate_server_limits,
               validate_settlement_transport, tls_mode,
               validate_plaintext_bind, Has
      <3>2. mark' <= Len(log') /\ why' = "" /\ loaded' = DOMAIN log'
        BY <2>1 DEF NodeInv, Stages, Booting
      <3> QED
        BY <2>1, <3>1, <3>2 DEF Stages, Booting, Up, Keyed
    <2>4. Served'
      BY <2>1 DEF NodeInv, Served
    <2>5. KeysKept'
      BY <2>1 DEF NodeInv, KeysKept, Ids, Active, Keyed, Up
    <2> QED
      BY <2>2, <2>3, <2>4, <2>5 DEF NodeInv
  <1> QED
    BY <1>1, <1>2

(* A step that appends one event and takes it in.                          *)
LEMMA AppendEvent ==
    ASSUME NodeInv, pc \in Up, NEW e \in Events,
           log' = Append(log, e), loaded' = loaded \cup {Len(log')},
           UNCHANGED <<boot, ring, tls, clients>>
    PROVE  NodeInv'
  <1>1. /\ log' \in Seq(Events) /\ Len(log) \in Nat
        /\ Len(log') = Len(log) + 1
        /\ DOMAIN log = 1..Len(log) /\ DOMAIN log' = 1..(Len(log) + 1)
    <2>1. log \in Seq(Events)
      BY DEF NodeInv, TypeOK
    <2>2. log' \in Seq(Events) /\ Len(log') = Len(log) + 1
      BY <2>1, AppendProperties
    <2> QED
      BY <2>1, <2>2, LenProperties
  <1>2. UNCHANGED <<pc, cfg, why, mark, ring, disk, grpc, rest, cached, age, quiet>>
    BY DEF boot, tls, clients
  <1>3. TypeOK'
    BY <1>1, <1>2 DEF NodeInv, TypeOK, Booting, Keyed, Up
  <1>4. Stages'
    <2>1. Validated(cfg)'
      BY <1>2 DEF NodeInv, Stages, Keyed, Validated, validate_siwe_config,
             validate_admin_auth, validate_server_limits,
             validate_settlement_transport, tls_mode,
             validate_plaintext_bind, Has
    <2>2. why' = "" /\ loaded' = DOMAIN log'
      <3>1. why = "" /\ loaded = DOMAIN log
        BY DEF NodeInv, Stages, Up
      <3>2. \A n \in Nat : (1..n) \cup {n + 1} = 1..(n + 1)
        OBVIOUS
      <3>3. loaded' = (1..Len(log)) \cup {Len(log) + 1}
        BY <1>1, <3>1
      <3> QED
        BY <1>1, <1>2, <3>1, <3>2, <3>3, Zenon
    <2>3. pc \in Booting => mark' <= Len(log')
      <3>1. pc \in Booting => mark <= Len(log) /\ mark \in Nat
        BY DEF NodeInv, TypeOK, Stages
      <3> QED
        BY <1>1, <1>2, <3>1
    <2> QED
      BY <1>2, <2>1, <2>2, <2>3 DEF Stages, Booting, Up, Keyed
  <1>5. Served'
    BY <1>2 DEF NodeInv, Served, tls_mode
  <1>6. KeysKept'
    BY <1>2 DEF NodeInv, KeysKept, KeyIds, Ids, Active, Keyed, Up
  <1> QED
    BY <1>3, <1>4, <1>5, <1>6 DEF NodeInv

(* One seeded pair, or the bad entry that ends the boot.                   *)
LEMMA SeedPairKeeps ==
    ASSUME NodeInv, SeedPair
    PROVE  NodeInv'
  <1>1. CASE Refuse
    BY <1>1, RefuseKeeps
  <1>2. CASE ~Refuse
    <2> DEFINE e == [kind |-> "pair", pair |-> cfg.seed[Seeded + 1].pair]
    <2>1. /\ pc = "seed" /\ log' = Append(log, e)
          /\ loaded' = loaded \cup {Len(log')} /\ Seeded < Len(cfg.seed)
          /\ UNCHANGED <<boot, ring, tls, clients>>
      BY <1>2 DEF SeedPair
    <2>2. e \in Events
      <3>1. Len(log) \in Nat /\ mark \in Nat /\ mark <= Len(log)
        BY <2>1, RingShape DEF NodeInv, TypeOK, Stages, Booting
      <3>2. /\ cfg \in Configs /\ Len(cfg.seed) \in Nat
            /\ DOMAIN cfg.seed = 1..Len(cfg.seed)
        BY <2>1, NodeAssumption DEF NodeInv, TypeOK, Booting
      <3>3. Seeded + 1 \in DOMAIN cfg.seed
        BY <2>1, <3>1, <3>2 DEF Seeded
      <3>4. cfg.seed[Seeded + 1].pair \in PairNames
        BY <3>2, <3>3 DEF PairNames
      <3> QED
        BY <3>4 DEF Events
    <2> HIDE DEF e
    <2> QED
      BY <2>1, <2>2, AppendEvent DEF Up
  <1> QED
    BY <1>1, <1>2

(* The tasks start: the options stay, the key list and the seed go.        *)
LEMMA SpawnTasksKeeps ==
    ASSUME NodeInv, SpawnTasks
    PROVE  NodeInv'
  <1>1. /\ pc = "seed" /\ pc' = "tasks" /\ mark' = 0
        /\ cfg'.opts = cfg.opts
        /\ UNCHANGED <<why, durable, ring, loaded, tls, clients>>
    BY DEF SpawnTasks, NoCfg
  <1> USE DEF durable, tls, clients
  <1>2. TypeOK'
    BY <1>1 DEF NodeInv, TypeOK, Booting, Keyed, Up
  <1>3. Stages'
    <2>1. Validated(cfg)'
      BY <1>1 DEF NodeInv, Stages, Keyed, Up, Validated, validate_siwe_config,
             validate_admin_auth, validate_server_limits,
             validate_settlement_transport, tls_mode,
             validate_plaintext_bind, Has
    <2>2. why' = "" /\ loaded' = DOMAIN log'
      BY <1>1 DEF NodeInv, Stages, Up
    <2> QED
      BY <1>1, <2>1, <2>2 DEF Stages, Booting, Up, Keyed
  <1>4. Served'
    BY <1>1 DEF NodeInv, Served
  <1>5. KeysKept'
    BY <1>1 DEF NodeInv, KeysKept, Ids, Active, Keyed, Up
  <1> QED
    BY <1>2, <1>3, <1>4, <1>5 DEF NodeInv

(* The proxy list: a bad one ends the boot before a listener is up.        *)
LEMMA BuildGatewayKeeps ==
    ASSUME NodeInv, BuildGateway
    PROVE  NodeInv'
  <1>1. CASE Refuse
    BY <1>1, RefuseKeeps
  <1>2. CASE ~Refuse
    <2>1. /\ pc = "tasks" /\ pc' = "grpc"
          /\ UNCHANGED <<cfg, why, mark, durable, ring, loaded, tls, clients>>
      BY <1>2, ProceedGoes DEF BuildGateway
    <2>2. Served'
      BY <2>1 DEF NodeInv, Served, tls
    <2>3. /\ disk' \in [cert : Nat \ {0}, key : Nat \ {0}]
          /\ grpc' \in Listeners /\ rest' \in Listeners
      BY <2>1 DEF NodeInv, TypeOK, tls
    <2> QED
      BY <2>1, <2>2, <2>3, LaterStageKeeps DEF Up
  <1> QED
    BY <1>1, <1>2

(* What a listener is given: a pair of files that go together, or none.    *)
LEMMA ServingPairs ==
    ASSUME TypeOK, tls_mode(cfg) = "plaintext" \/ with_single_cert(disk)
    PROVE  /\ Serving(cfg) \in Listeners
           /\ Serving(cfg).cert = Serving(cfg).key
           /\ Serving(cfg).cert = 0 => tls_mode(cfg) = "plaintext"
  <1>1. disk.cert \in Nat \ {0} /\ disk.key \in Nat \ {0}
    BY DEF TypeOK
  <1> QED
    BY <1>1 DEF Serving, Off, with_single_cert, Listeners

(* The gRPC listener comes up, or its task ends unseen.                    *)
LEMMA ListenGrpcKeeps ==
    ASSUME NodeInv, ListenGrpc
    PROVE  NodeInv'
  <1>1. /\ pc = "grpc" /\ pc' = "rest"
        /\ UNCHANGED <<cfg, why, mark, durable, ring, loaded, disk, rest, clients>>
    BY ProceedGoes DEF ListenGrpc
  <1>2. \/ /\ tls_mode(cfg) = "plaintext" \/ with_single_cert(disk)
           /\ grpc' = Serving(cfg)
        \/ grpc' = grpc
    BY DEF ListenGrpc
  <1>3. ~grpc.up /\ ~rest.up
    BY <1>1 DEF NodeInv, Served
  <1>4. Served'
    BY <1>1, <1>2, <1>3, ServingPairs DEF NodeInv, Served, tls_mode
  <1>5. /\ disk' \in [cert : Nat \ {0}, key : Nat \ {0}]
        /\ grpc' \in Listeners /\ rest' \in Listeners
    BY <1>1, <1>2, ServingPairs DEF NodeInv, TypeOK
  <1> QED
    BY <1>1, <1>4, <1>5, LaterStageKeeps DEF Up

(* The REST listener comes up, or the boot ends.                           *)
LEMMA ListenRestKeeps ==
    ASSUME NodeInv, ListenRest
    PROVE  NodeInv'
  <1>1. CASE Refuse
    BY <1>1, RefuseKeeps
  <1>2. CASE ~Refuse
    <2>1. /\ pc = "rest" /\ pc' = "serving" /\ rest' = Serving(cfg)
          /\ tls_mode(cfg) = "plaintext" \/ with_single_cert(disk)
          /\ UNCHANGED <<cfg, why, mark, durable, ring, loaded, disk, grpc, clients>>
      BY <1>2, ProceedGoes DEF ListenRest
    <2>2. Served'
      BY <2>1, ServingPairs DEF NodeInv, Served, tls_mode
    <2>3. /\ disk' \in [cert : Nat \ {0}, key : Nat \ {0}]
          /\ grpc' \in Listeners /\ rest' \in Listeners
      BY <2>1, ServingPairs DEF NodeInv, TypeOK
    <2> QED
      BY <2>1, <2>2, <2>3, LaterStageKeeps DEF Up
  <1> QED
    BY <1>1, <1>2

(* A renewal writes one file; no listener serves with it yet.              *)
LEMMA WriteFileKeeps ==
    ASSUME NodeInv, NEW f \in {"cert", "key"}, WriteFile(f)
    PROVE  NodeInv'
  <1>1. /\ pc \in {"grpc", "rest", "serving"}
        /\ disk' = [disk EXCEPT ![f] = @ + 1]
        /\ UNCHANGED <<pc, cfg, why, mark, durable, ring, loaded, grpc, rest, clients>>
    BY DEF WriteFile, boot
  <1>2. Served'
    BY <1>1 DEF NodeInv, Served, tls_mode
  <1>3. /\ disk' \in [cert : Nat \ {0}, key : Nat \ {0}]
        /\ grpc' \in Listeners /\ rest' \in Listeners
    BY <1>1 DEF NodeInv, TypeOK
  <1> QED
    BY <1>1, <1>2, <1>3, LaterStageKeeps DEF Up

(* A reload takes the new pair, or keeps the old one.                      *)
LEMMA SighupKeeps ==
    ASSUME NodeInv, Sighup
    PROVE  NodeInv'
  <1>1. /\ pc = "serving" /\ rest' = ReloadCert(Serving(cfg))
        /\ UNCHANGED <<pc, cfg, why, mark, durable, ring, loaded, disk, grpc, clients>>
    BY DEF Sighup, boot
  <1>2. rest' = rest \/ (with_single_cert(disk) /\ rest' = Serving(cfg))
    BY <1>1 DEF ReloadCert
  <1>3. Served'
    BY <1>1, <1>2, ServingPairs DEF NodeInv, Served, tls_mode
  <1>4. /\ disk' \in [cert : Nat \ {0}, key : Nat \ {0}]
        /\ grpc' \in Listeners /\ rest' \in Listeners
    BY <1>1, <1>2, ServingPairs DEF NodeInv, TypeOK
  <1> QED
    BY <1>1, <1>3, <1>4, LaterStageKeeps DEF Up

(* The shutdown begins.                                                    *)
LEMMA CancelKeeps ==
    ASSUME NodeInv, Cancel
    PROVE  NodeInv'
  <1>1. /\ pc = "serving" /\ pc' = "drain"
        /\ UNCHANGED <<cfg, why, mark, durable, ring, loaded, tls, clients>>
    BY DEF Cancel, Goto
  <1>2. Served'
    BY <1>1 DEF NodeInv, Served, tls, tls_mode
  <1>3. /\ disk' \in [cert : Nat \ {0}, key : Nat \ {0}]
        /\ grpc' \in Listeners /\ rest' \in Listeners
    BY <1>1 DEF NodeInv, TypeOK, tls
  <1> QED
    BY <1>1, <1>2, <1>3, LaterStageKeeps DEF Up

(* A placed order is sealed to the client's copy of the key.               *)
LEMMA PlaceOrderKeeps ==
    ASSUME NodeInv, NEW cl \in Clients, PlaceOrder(cl)
    PROVE  NodeInv'
  <1> DEFINE e == [kind |-> "order", key |-> cached[cl]]
  <1>1. /\ pc \in {"rest", "serving"} /\ cached[cl] # NoKey
        /\ log' = Append(log, e) /\ loaded' = loaded \cup {Len(log')}
        /\ UNCHANGED <<boot, ring, tls, clients>>
    BY DEF PlaceOrder
  <1>2. cached[cl] \in Keys
    BY <1>1 DEF NodeInv, TypeOK
  <1>3. e \in Events
    BY <1>2 DEF Events
  <1> HIDE DEF e
  <1> QED
    BY <1>1, <1>3, AppendEvent DEF Up

(* What NodeInv does not look at.                                          *)
LEMMA OutsideKeeps ==
    ASSUME NodeInv,
           UNCHANGED <<pc, cfg, why, mark, log, ring, loaded, tls, clients>>
    PROVE  NodeInv'
  <1> USE DEF tls, clients
  <1>1. TypeOK'
    BY DEF NodeInv, TypeOK
  <1>2. Stages'
    BY ZenonT(60) DEF NodeInv, Stages, Validated, validate_siwe_config,
           validate_admin_auth, validate_server_limits,
           validate_settlement_transport, tls_mode, validate_plaintext_bind, Has
  <1>3. Served'
    BY DEF NodeInv, Served, tls_mode
  <1>4. KeysKept'
    BY DEF NodeInv, KeysKept
  <1> QED
    BY <1>1, <1>2, <1>3, <1>4 DEF NodeInv

(* A step on the keys and the clients of a node that serves, or is down.   *)
LEMMA KeyStepKeeps ==
    ASSUME NodeInv, pc = "serving" \/ (pc = "down" /\ ring' = ring),
           UNCHANGED <<boot, durable, loaded, tls>>,
           ring' \in Seq(Entries), age' \in [Clients -> Nat],
           cached' \in [Clients -> Keys \cup {NoKey}], quiet' \in [Keys -> Nat],
           KeysKept'
    PROVE  NodeInv'
  <1>0. UNCHANGED <<pc, cfg, why, mark, log, loaded, disk, grpc, rest>>
    BY DEF boot, durable, tls
  <1>1. TypeOK'
    BY <1>0 DEF NodeInv, TypeOK
  <1>2. Stages'
    <2>1. pc = "serving" \/ pc' = "down"
      BY <1>0
    <2>2. CASE pc = "serving"
      <3>1. Validated(cfg)' /\ why' = "" /\ loaded' = DOMAIN log'
        BY <1>0, <2>2 DEF NodeInv, Stages, Up, Keyed, Validated,
               validate_siwe_config, validate_admin_auth,
               validate_server_limits, validate_settlement_transport, tls_mode,
               validate_plaintext_bind, Has
      <3> QED
        BY <1>0, <2>2, <3>1 DEF Stages, Booting, Up, Keyed
    <2>3. CASE pc = "down" /\ ring' = ring
      BY <1>0, <2>3 DEF NodeInv, Stages, Booting, Up, Keyed
    <2> QED
      BY <2>2, <2>3
  <1>3. Served'
    BY <1>0 DEF NodeInv, Served, tls_mode
  <1> QED
    BY <1>1, <1>2, <1>3 DEF NodeInv

(* What serving with the keys in place means for a copy of a key.          *)
LEMMA CopyBounds ==
    ASSUME NodeInv, NEW cl \in Clients, cached[cl] # NoKey
    PROVE  /\ cached[cl] \in Keys /\ quiet[cached[cl]] \in Nat
           /\ age[cl] \in Nat /\ quiet[cached[cl]] <= age[cl]
           /\ age[cl] <= Window
  BY DEF NodeInv, TypeOK, KeysKept

(* The active ids of a ring are ids of it, and keys.                       *)
LEMMA ActiveIds ==
    ASSUME NEW r \in Seq(Entries)
    PROVE  Active(r) \subseteq Ids(r) /\ Ids(r) \subseteq Keys
  <1>1. \A i \in DOMAIN r : r[i] \in Entries
    BY RingShape
  <1>2. \A i \in DOMAIN r : r[i].id \in Keys
    BY <1>1 DEF Entries
  <1> QED
    BY <1>2 DEF Active, Ids

(* The published key is an active one.                                     *)
LEMMA PublishedIsActive ==
    ASSUME NEW r \in Seq(Entries), active_public_key(r) # NoKey
    PROVE  active_public_key(r) \in Active(r)
  <1> DEFINE actives == {i \in DOMAIN r : r[i].status = "active"}
             n == CHOOSE i \in actives : \A j \in actives : i <= j
  <1>1. actives # {} /\ active_public_key(r) = r[n].id
    BY DEF active_public_key
  <1>2. actives \in SUBSET Nat
    <2>1. DOMAIN r = 1..Len(r) /\ Len(r) \in Nat
      BY RingShape
    <2> QED
      BY <2>1
  <1>3. n \in actives
    <2> HIDE DEF actives
    <2>1. \E i \in actives : \A j \in actives : i <= j
      BY <1>1, <1>2, LeastNatural
    <2> QED
      BY <2>1
  <1> HIDE DEF n
  <1> QED
    BY <1>1, <1>3 DEF Active

(* A client fetches the published key.                                     *)
LEMMA FetchKeeps ==
    ASSUME NodeInv, NEW cl \in Clients, rest_operator_pubkey(cl)
    PROVE  NodeInv'
  <1> DEFINE k == active_public_key(ring)
  <1>1. /\ pc = "serving" /\ pc' = pc /\ k # NoKey
        /\ cached' = [cached EXCEPT ![cl] = k] /\ age' = [age EXCEPT ![cl] = 0]
        /\ UNCHANGED <<boot, durable, ring, loaded, tls, quiet>>
    BY DEF rest_operator_pubkey, boot
  <1> HIDE DEF k
  <1>2. ring \in Seq(Entries) /\ cached \in [Clients -> Keys \cup {NoKey}]
        /\ age \in [Clients -> Nat] /\ quiet \in [Keys -> Nat]
    BY DEF NodeInv, TypeOK
  <1>3. k \in Active(ring)
    BY <1>1, <1>2, PublishedIsActive DEF k
  <1>4. k \in Keys /\ quiet[k] = 0
    BY <1>1, <1>2, <1>3, ActiveIds DEF NodeInv, KeysKept, Keyed, Up
  <1>5. ASSUME NEW c \in Clients, cached'[c] # NoKey
        PROVE  quiet[cached'[c]] <= age'[c] /\ age'[c] <= Window
    <2>1. CASE c = cl
      BY <1>1, <1>2, <1>4, <2>1, NodeAssumption
    <2>2. CASE c # cl
      <3>1. cached'[c] = cached[c] /\ age'[c] = age[c]
        BY <1>1, <1>2, <2>2
      <3> QED
        BY <1>5, <3>1, CopyBounds
    <2> QED
      BY <2>1, <2>2
  <1>6. KeysKept'
    <2>1. /\ \A x \in Keys : quiet[x] <= Window => x \in Ids(ring)
          /\ \A x \in Active(ring) : quiet[x] = 0
      BY <1>1 DEF NodeInv, KeysKept, Keyed, Up
    <2> QED
      BY <1>1, <1>5, <2>1 DEF KeysKept, Keyed, Up
  <1>7. /\ cached' \in [Clients -> Keys \cup {NoKey}]
        /\ age' \in [Clients -> Nat]
    BY <1>1, <1>2, <1>4
  <1> QED
    BY <1>1, <1>2, <1>6, <1>7, KeyStepKeeps

(* The operator registers a key, promotes or demotes it.                   *)
LEMMA RegisterKeeps ==
    ASSUME NodeInv, NEW k \in Keys, NEW st \in Statuses, rest_register_key(k, st)
    PROVE  NodeInv'
  <1> DEFINE e == [id |-> k, status |-> st]
  <1>1. /\ pc = "serving" /\ pc' = pc
        /\ ring' = insert(ring, e) /\ quiet' = Quietened(ring')
        /\ UNCHANGED <<boot, durable, loaded, tls, cached, age>>
    BY DEF rest_register_key, boot
  <1>2. e \in Entries /\ ring \in Seq(Entries)
    BY DEF Entries, NodeInv, TypeOK
  <1> HIDE DEF e
  <1>3. ring' \in Seq(Entries) /\ Ids(ring) \subseteq Ids(ring')
    BY <1>1, <1>2, InsertKeeps
  <1>4. Active(ring') \subseteq Ids(ring') /\ Ids(ring') \subseteq Keys
    BY <1>3, ActiveIds
  <1>5. quiet \in [Keys -> Nat] /\ cached \in [Clients -> Keys \cup {NoKey}]
        /\ age \in [Clients -> Nat]
    BY DEF NodeInv, TypeOK
  <1>6. \A x \in Keys :
           /\ quiet'[x] \in Nat /\ quiet'[x] <= quiet[x]
           /\ x \in Active(ring') => quiet'[x] = 0
           /\ x \notin Active(ring') => quiet'[x] = quiet[x]
    BY <1>1, <1>5 DEF Quietened
  <1>7. quiet' \in [Keys -> Nat]
    BY <1>1, <1>6 DEF Quietened
  <1>8. KeysKept'
    <2>1. \A x \in Keys : quiet[x] <= Window => x \in Ids(ring)
      BY <1>1 DEF NodeInv, KeysKept, Keyed, Up
    <2>2. \A x \in Keys : quiet'[x] <= Window => x \in Ids(ring')
      BY <1>3, <1>4, <1>6, <2>1
    <2>3. \A x \in Active(ring') : quiet'[x] = 0
      BY <1>4, <1>6
    <2>4. \A cl \in Clients : cached[cl] # NoKey =>
              quiet'[cached[cl]] <= age[cl] /\ age[cl] <= Window
      BY <1>6, CopyBounds
    <2> QED
      BY <1>1, <2>2, <2>3, <2>4 DEF KeysKept, Keyed, Up
  <1> QED
    BY <1>1, <1>3, <1>5, <1>7, <1>8, KeyStepKeeps

(* The operator sunsets a key, or deletes one out of use for the window.   *)
LEMMA RetireKeeps ==
    ASSUME NodeInv, NEW k \in Keys, rest_sunset_key(k) \/ rest_delete_key(k)
    PROVE  NodeInv'
  <1>1. /\ pc = "serving" /\ pc' = pc
        /\ UNCHANGED <<boot, durable, loaded, tls, cached, age, quiet>>
    BY DEF rest_sunset_key, rest_delete_key, boot, clients
  <1>2. /\ ring \in Seq(Entries) /\ quiet \in [Keys -> Nat]
        /\ cached \in [Clients -> Keys \cup {NoKey}] /\ age \in [Clients -> Nat]
    BY DEF NodeInv, TypeOK
  <1>3. /\ ring' \in Seq(Entries) /\ Active(ring') \subseteq Active(ring)
        /\ \A x \in Ids(ring) : quiet[x] <= Window => x \in Ids(ring')
    <2>1. CASE rest_sunset_key(k)
      <3> DEFINE e == [id |-> k, status |-> "sunset"]
      <3>1. ring' = insert(ring, e)
        BY <2>1 DEF rest_sunset_key
      <3>2. e \in Entries /\ e.status # "active"
        BY DEF Entries, Statuses
      <3> HIDE DEF e
      <3> QED
        BY <1>2, <3>1, <3>2, InsertKeeps
    <2>2. CASE rest_delete_key(k)
      <3>1. k \in Ids(ring) /\ quiet[k] > Window /\ ring' = remove(ring, k)
        BY <2>2 DEF rest_delete_key
      <3>2. /\ ring' \in Seq(Entries) /\ Active(ring') \subseteq Active(ring)
            /\ Ids(ring) \ {k} \subseteq Ids(ring')
        BY <1>2, <3>1, RemoveKeeps
      <3>3. \A x \in Ids(ring) : quiet[x] <= Window => x # k
        BY <1>2, <3>1, NodeAssumption
      <3> QED
        BY <3>2, <3>3
    <2> QED
      BY <2>1, <2>2
  <1>4. KeysKept'
    <2>1. /\ \A x \in Keys : quiet[x] <= Window => x \in Ids(ring)
          /\ \A x \in Active(ring) : quiet[x] = 0
          /\ \A cl \in Clients : cached[cl] # NoKey =>
                quiet[cached[cl]] <= age[cl] /\ age[cl] <= Window
      BY <1>1 DEF NodeInv, KeysKept, Keyed, Up
    <2>2. /\ \A x \in Keys : quiet[x] <= Window => x \in Ids(ring')
          /\ \A x \in Active(ring') : quiet[x] = 0
      BY <1>3, <2>1
    <2> QED
      BY <1>1, <2>1, <2>2 DEF KeysKept, Keyed, Up
  <1> QED
    BY <1>1, <1>2, <1>3, <1>4, KeyStepKeeps

(* Time passes: a copy grows at least as old as its key is out of use.     *)
LEMMA TickKeeps ==
    ASSUME NodeInv, Tick
    PROVE  NodeInv'
  <1>1. /\ pc \in {"down", "serving"} /\ pc' = pc
        /\ UNCHANGED <<boot, durable, ring, loaded, tls>>
    BY DEF Tick, boot
  <1>2. /\ ring \in Seq(Entries) /\ quiet \in [Keys -> Nat]
        /\ cached \in [Clients -> Keys \cup {NoKey}] /\ age \in [Clients -> Nat]
    BY DEF NodeInv, TypeOK
  <1>3. /\ \A k \in Keys :
              quiet'[k] = IF k \in Active(ring) \/ quiet[k] > Window
                          THEN quiet[k] ELSE quiet[k] + 1
        /\ \A cl \in Clients :
              /\ cached'[cl] = IF age[cl] >= Window THEN NoKey ELSE cached[cl]
              /\ age'[cl] = IF cached'[cl] = NoKey THEN 0 ELSE age[cl] + 1
    BY DEF Tick
  <1>4. \A k \in Keys :
           /\ quiet'[k] \in Nat
           /\ quiet[k] <= quiet'[k] /\ quiet'[k] <= quiet[k] + 1
           /\ k \in Active(ring) => quiet'[k] = quiet[k]
    BY <1>2, <1>3, NodeAssumption
  <1>5. /\ quiet' \in [Keys -> Nat]
        /\ cached' \in [Clients -> Keys \cup {NoKey}] /\ age' \in [Clients -> Nat]
    <2>1. /\ quiet' = [k \in Keys |-> quiet'[k]]
          /\ cached' = [cl \in Clients |-> cached'[cl]]
          /\ age' = [cl \in Clients |-> age'[cl]]
      BY DEF Tick
    <2>2. \A cl \in Clients : cached'[cl] \in Keys \cup {NoKey} /\ age'[cl] \in Nat
      BY <1>2, <1>3
    <2> QED
      BY <1>4, <2>1, <2>2
  <1>6. ASSUME NEW cl \in Clients, cached'[cl] # NoKey
        PROVE  quiet'[cached'[cl]] <= age'[cl] /\ age'[cl] <= Window
    <2>1. /\ ~(age[cl] >= Window) /\ cached'[cl] = cached[cl]
          /\ cached[cl] # NoKey /\ age'[cl] = age[cl] + 1
      BY <1>3, <1>6
    <2>2. /\ cached[cl] \in Keys /\ quiet[cached[cl]] \in Nat
          /\ age[cl] \in Nat /\ quiet[cached[cl]] <= age[cl]
      BY <2>1, CopyBounds
    <2>3. quiet'[cached[cl]] \in Nat /\ quiet'[cached[cl]] <= quiet[cached[cl]] + 1
      BY <1>4, <2>2
    <2> QED
      BY <2>1, <2>2, <2>3, NodeAssumption
  <1>7. KeysKept'
    <2>1. CASE pc = "down"
      <3>1. pc' = "down"
        BY <2>1 DEF Tick, boot
      <3> QED
        BY <1>6, <3>1 DEF KeysKept, Keyed, Up
    <2>2. CASE pc = "serving" /\ pc' = pc
      <3>1. /\ \A x \in Keys : quiet[x] <= Window => x \in Ids(ring)
            /\ \A x \in Active(ring) : quiet[x] = 0
        BY <2>2 DEF NodeInv, KeysKept, Keyed, Up
      <3>2. /\ \A x \in Keys : quiet'[x] <= Window => x \in Ids(ring)
            /\ \A x \in Active(ring) : quiet'[x] = 0
        BY <1>2, <1>4, <3>1, ActiveIds, NodeAssumption
      <3> QED
        BY <1>1, <1>6, <2>2, <3>2 DEF KeysKept, Keyed, Up
    <2> QED
      BY <1>1, <2>1, <2>2
  <1> QED
    BY <1>1, <1>2, <1>5, <1>7, KeyStepKeeps

-----------------------------------------------------------------------------
(* The theorems.                                                           *)

(* The invariant holds before the first process starts.                    *)
LEMMA NodeInit == Init => NodeInv
  <1> SUFFICES ASSUME Init PROVE NodeInv
    OBVIOUS
  <1>1. TypeOK
    <2>1. << >> \in Seq(Entries) /\ << >> \in Seq(Events)
      BY EmptySeq
    <2>2. /\ Off \in Listeners
          /\ [cert |-> 1, key |-> 1] \in [cert : Nat \ {0}, key : Nat \ {0}]
      BY DEF Off, Listeners
    <2>3. /\ cached \in [Clients -> Keys \cup {NoKey}] /\ age \in [Clients -> Nat]
          /\ quiet \in [Keys -> Nat]
      <3>1. Window + 1 \in Nat
        BY NodeAssumption
      <3>2. /\ cached = [cl \in Clients |-> NoKey] /\ age = [cl \in Clients |-> 0]
            /\ quiet = [k \in Keys |-> Window + 1]
        BY DEF Init
      <3> QED
        BY <3>1, <3>2
    <2>4. /\ pc = "down" /\ mark = 0 /\ log = << >> /\ ring = << >>
          /\ disk = [cert |-> 1, key |-> 1] /\ grpc = Off /\ rest = Off
      BY DEF Init
    <2>5. pc \notin Booting
      BY <2>4 DEF Booting
    <2> QED
      BY <2>1, <2>2, <2>3, <2>4, <2>5 DEF TypeOK
  <1> USE NodeAssumption DEF Init
  <1>2. Stages
    BY DEF Stages, Booting, Up, Keyed
  <1>3. Served
    <2>1. ~grpc.up /\ ~rest.up
      BY DEF Off
    <2> QED
      BY <2>1 DEF Served
  <1>4. KeysKept
    BY DEF KeysKept, Keyed, Up
  <1> QED
    BY <1>1, <1>2, <1>3, <1>4 DEF NodeInv

(* Every step keeps it.                                                    *)
LEMMA NodeNext == NodeInv /\ [Next]_vars => NodeInv'
  <1> SUFFICES ASSUME NodeInv, [Next]_vars PROVE NodeInv'
    OBVIOUS
  <1>1. ASSUME NEW c \in Configs, StartProcess(c) PROVE NodeInv'
    BY <1>1, StartKeeps
  <1>2. CASE Validate \/ OpenStores
    BY <1>2, ChecksKeep
  <1>3. CASE LoadKeys \/ Recover \/ SeedPair \/ SpawnTasks
    BY <1>3, LoadKeysKeeps, RecoverKeeps, SeedPairKeeps, SpawnTasksKeeps
  <1>4. CASE BuildGateway \/ ListenGrpc \/ ListenRest
    BY <1>4, BuildGatewayKeeps, ListenGrpcKeeps, ListenRestKeeps
  <1>5. ASSUME NEW cl \in Clients, rest_operator_pubkey(cl) \/ PlaceOrder(cl)
        PROVE  NodeInv'
    BY <1>5, FetchKeeps, PlaceOrderKeeps
  <1>6. CASE TakeSnapshot
    BY <1>6, OutsideKeeps DEF TakeSnapshot, boot
  <1>7. ASSUME NEW k \in Keys, NEW st \in Statuses, rest_register_key(k, st)
        PROVE  NodeInv'
    BY <1>7, RegisterKeeps
  <1>8. ASSUME NEW k \in Keys, rest_sunset_key(k) \/ rest_delete_key(k)
        PROVE  NodeInv'
    BY <1>8, RetireKeeps
  <1>9. CASE Tick
    BY <1>9, TickKeeps
  <1>10. ASSUME NEW f \in {"cert", "key"}, WriteFile(f) PROVE NodeInv'
    BY <1>10, WriteFileKeeps
  <1>11. CASE Sighup \/ Cancel
    BY <1>11, SighupKeeps, CancelKeeps
  <1>12. CASE CloseStream
    BY <1>12, OutsideKeeps DEF CloseStream, boot, durable
  <1>13. CASE Exit \/ Kill
    <2>1. Gone /\ why' = why /\ pc # "down"
      BY <1>13 DEF Exit, Kill
    <2>2. why' = ""
      BY <2>1 DEF NodeInv, Stages
    <2> QED
      BY <2>1, <2>2, GoneKeeps
  <1>14. CASE UNCHANGED vars
    BY <1>14, OutsideKeeps DEF vars, boot, durable
  <1> QED
    BY <1>1, <1>2, <1>3, <1>4, <1>5, <1>6, <1>7, <1>8, <1>9, <1>10, <1>11,
       <1>12, <1>13, <1>14 DEF Next

(* The invariant holds throughout.                                         *)
LEMMA NodeHolds == FairSpec => []NodeInv
  BY NodeInit, NodeNext, PTL DEF FairSpec

(* "An invalid auth config fails closed without ever writing or ticking":  *)
(* a boot refused by its checks leaves the log as it found it, with no     *)
(* task and no listener.                                                   *)
THEOREM RefusedBootWritesNothing == FairSpec => []RefusalWritesNothing
  <1>1. NodeInv => RefusalWritesNothing
    <2> SUFFICES ASSUME NodeInv PROVE RefusalWritesNothing
      OBVIOUS
    <2>1. pc = "down" /\ why \in {"validate", "stores", "keys"} => Len(log) = mark
      BY DEF NodeInv, Stages
    <2>2. pc \in {"validate", "stores", "keys"} =>
             loaded = {} /\ ~grpc.up /\ ~rest.up
      BY DEF NodeInv, Stages, Served
    <2> QED
      BY <2>1, <2>2 DEF RefusalWritesNothing
  <1> QED
    BY <1>1, NodeHolds, PTL

(* No listener is up with half a renewal, in the clear on a public address *)
(* without the opt-in, or with open admin routes without theirs.           *)
THEOREM ListenersAreSafe == FairSpec => []ListenersSafe
  <1>1. NodeInv => ListenersSafe
    <2> SUFFICES ASSUME NodeInv, NEW l \in {grpc, rest}, l.up
                 PROVE  /\ l.cert = l.key
                        /\ l.cert = 0 /\ Has(cfg, "public_bind") => Has(cfg, "insecure")
                        /\ ~Has(cfg, "operator_api_keys") =>
                              Has(cfg, "allow_unauthenticated_admin")
      BY DEF ListenersSafe
    <2>1. /\ pc \in {"rest", "serving", "drain"} /\ l.cert = l.key
          /\ l.cert = 0 => tls_mode(cfg) = "plaintext"
      BY DEF NodeInv, Served
    <2>2. Validated(cfg)
      BY <2>1 DEF NodeInv, Stages, Keyed, Up
    <2>3. l.cert = 0 /\ Has(cfg, "public_bind") => Has(cfg, "insecure")
      BY <2>1, <2>2 DEF Validated, validate_plaintext_bind
    <2>4. Has(cfg, "operator_api_keys") \/ Has(cfg, "allow_unauthenticated_admin")
      BY <2>2 DEF Validated, validate_admin_auth
    <2> QED
      BY <2>1, <2>3, <2>4
  <1> QED
    BY <1>1, NodeHolds, PTL

(* A process past recovery has its whole log, and recovery is refused      *)
(* exactly when an order it must replay was sealed to a key not given.     *)
THEOREM BootReadsWholeLog == FairSpec => []BootReadsLog
  <1>1. NodeInv => BootReadsLog
    <2> SUFFICES ASSUME NodeInv PROVE BootReadsLog
      OBVIOUS
    <2>1. pc \in {"seed", "tasks", "grpc", "rest", "serving", "drain"} =>
              loaded = DOMAIN log
      BY DEF NodeInv, Stages, Up
    <2>2. ASSUME pc = "recover", NEW k
          PROVE  decrypts(ring, k) <=> \E j \in DOMAIN cfg.keys : cfg.keys[j].id = k
      <3>1. Ids(ring) = KeyIds(cfg)
        BY <2>2 DEF NodeInv, KeysKept
      <3>2. decrypts(ring, k) <=> k \in Ids(ring)
        BY DEF decrypts, opens, Ids
      <3> QED
        BY <3>1, <3>2 DEF KeyIds
    <2> QED
      BY <2>1, <2>2 DEF BootReadsLog, Readable
  <1> QED
    BY <1>1, NodeHolds, PTL

(* An order sealed to a key published within the cache time can be opened, *)
(* through promotions, demotions, deletions, restarts and any expiry.      *)
THEOREM PublishedKeysWork == FairSpec => []PublishedKeyWorks
  <1>1. NodeInv => PublishedKeyWorks
    <2> SUFFICES ASSUME NodeInv, pc = "serving", NEW cl \in Clients,
                        cached[cl] # NoKey
                 PROVE  decrypts(ring, cached[cl])
      BY DEF PublishedKeyWorks
    <2>1. cached[cl] \in Keys /\ quiet[cached[cl]] <= Window
      BY CopyBounds, NodeAssumption
    <2>2. cached[cl] \in Ids(ring)
      BY <2>1 DEF NodeInv, KeysKept, Keyed, Up
    <2> QED
      BY <2>2 DEF decrypts, opens, Ids
  <1> QED
    BY <1>1, NodeHolds, PTL
=============================================================================
