---------------------------- MODULE EngineProofs -----------------------------
(***************************************************************************)
(* Proofs about the auction rounds, for any traders, limit prices, sizes   *)
(* and number of orders, and about the matching engine, for any            *)
(* submissions, pairs, tasks, limits and bounds, with failed and torn      *)
(* appends and restarts.                                                   *)
(***************************************************************************)
EXTENDS Engine, AuctionRounds, SequenceTheorems, FiniteSetTheorems, WellFoundedInduction, TLAPS

-----------------------------------------------------------------------------
(* Induction over numbers, and the folds of the model by means of it.      *)

(* A set of natural numbers has a least one.                               *)
LEMMA LeastNatural ==
    ASSUME NEW T \in SUBSET Nat, T # {}
    PROVE  \E x \in T : \A y \in T : x <= y
  <1> DEFINE R == OpToRel(<, Nat)
  <1>1. IsWellFoundedOn(R, Nat)
    BY NatLessThanWellFounded
  <1>2. \A y, x \in Nat : <<y, x>> \in R <=> y < x
    BY DEF OpToRel
  <1> HIDE DEF R
  <1>3. PICK x \in T : \A y \in T : ~(<<y, x>> \in R)
    BY <1>1, WFMin
  <1>4. \A y \in T : y \in Nat /\ x \in Nat /\ ~(y < x)
    BY <1>2, <1>3
  <1>5. \A y \in T : x <= y
    BY <1>4
  <1> QED
    BY <1>5

(* What holds of 0 and goes from each number to the next holds of all.     *)
LEMMA SetInduction ==
    ASSUME NEW S, 0 \in S, \A n \in Nat : n \in S => n + 1 \in S
    PROVE  \A n \in Nat : n \in S
  <1> SUFFICES ASSUME NEW k \in Nat, k \notin S PROVE FALSE
    OBVIOUS
  <1>1. PICK x \in Nat \ S : \A y \in Nat \ S : x <= y
    <2>1. Nat \ S \in SUBSET Nat /\ Nat \ S # {}
      OBVIOUS
    <2> QED
      BY <2>1, LeastNatural
  <1>2. x # 0 /\ x - 1 \in Nat /\ (x - 1) + 1 = x
    BY <1>1
  <1>3. x - 1 \in S
    BY <1>1, <1>2
  <1> QED
    BY <1>1, <1>2, <1>3

(* A set of numbers up to N that has any has a greatest, which Max gives.  *)
LEMMA MaxOfInitial ==
    ASSUME NEW N \in Nat, NEW s \in SUBSET (0..N), s # {}
    PROVE  Max(s) \in s /\ \A y \in s : Max(s) >= y
  <1> DEFINE T == {N - y : y \in s}
  <1>1. T \in SUBSET Nat /\ T # {}
    <2>1. \A y \in s : y \in Nat /\ N - y \in Nat
      OBVIOUS
    <2> QED
      BY <2>1
  <1>2. PICK x \in T : \A y \in T : x <= y
    BY <1>1, LeastNatural
  <1>3. PICK m \in s : x = N - m
    BY <1>2
  <1>4. \A y \in s : m >= y
    <2> SUFFICES ASSUME NEW y \in s PROVE m >= y
      OBVIOUS
    <2>1. N - y \in T
      OBVIOUS
    <2>2. N - m <= N - y
      BY <1>2, <1>3, <2>1
    <2>3. m \in 0..N /\ y \in 0..N
      OBVIOUS
    <2> QED
      BY <2>2, <2>3
  <1> QED
    BY <1>4 DEF Max

(* The greatest of 1..i and what is left without it.                       *)
LEMMA MaxOfInterval ==
    ASSUME NEW i \in Nat, i # 0
    PROVE  Max(1..i) = i /\ (1..i) \ {Max(1..i)} = 1..(i - 1)
  <1>1. 1..i \in SUBSET (0..i) /\ 1..i # {}
    OBVIOUS
  <1>2. Max(1..i) \in 1..i /\ \A y \in 1..i : Max(1..i) >= y
    BY <1>1, MaxOfInitial
  <1>3. Max(1..i) = i
    BY <1>2
  <1> QED
    BY <1>3

(* Taking the greatest of a set of numbers up to n + 1 leaves numbers up   *)
(* to n.                                                                   *)
LEMMA WithoutMax ==
    ASSUME NEW n \in Nat, NEW x \in SUBSET (1..(n + 1)), x # {}
    PROVE  Max(x) \in x /\ x \ {Max(x)} \in SUBSET (1..n)
  <1>1. n + 1 \in Nat /\ x \in SUBSET (0..(n + 1))
    OBVIOUS
  <1>2. Max(x) \in x /\ \A y \in x : Max(x) >= y
    BY <1>1, MaxOfInitial
  <1>3. \A y \in x : y # Max(x) => y \in 1..n
    <2> SUFFICES ASSUME NEW y \in x, y # Max(x) PROVE y \in 1..n
      OBVIOUS
    <2>1. y \in 1..(n + 1) /\ Max(x) \in 1..(n + 1) /\ Max(x) >= y
      BY <1>2
    <2> QED
      BY <2>1
  <1> QED
    BY <1>2, <1>3

(* The step of a fold that keeps to a set of values: G is its table.       *)
Folds_(G, base, s, r, x) == IF x = {} THEN base ELSE G[<<r[x \ {Max(x)}], s[Max(x)]>>]

(* r is that fold over the indices of s up to N.                           *)
IsFold(Acc, G, base, s, N, r) ==
    /\ r \in [SUBSET (1..N) -> Acc]
    /\ \A x \in SUBSET (1..N) : r[x] = Folds_(G, base, s, r, x)

(* A fold whose values stay within a set exists as a function of the       *)
(* indices it has come to.                                                 *)
LEMMA FoldExists ==
    ASSUME NEW Acc, NEW E, NEW G \in [Acc \X E -> Acc], NEW base \in Acc,
           NEW N \in Nat, NEW s \in [1..N -> E]
    PROVE  \E r : IsFold(Acc, G, base, s, N, r)
  <1> DEFINE loop(n, r) == /\ r \in [SUBSET (1..n) -> Acc]
                           /\ \A x \in SUBSET (1..n) : r[x] = Folds_(G, base, s, r, x)
             has(n) == \E r : loop(n, r)
             S == {n \in Nat : n <= N => has(n)}
  <1>1. 0 \in S
    <2> DEFINE q == [x \in SUBSET (1..0) |-> base]
    <2>1. SUBSET (1..0) = {{}}
      OBVIOUS
    <2>2. loop(0, q)
      BY <2>1 DEF Folds_
    <2> HIDE DEF q, loop
    <2>3. has(0)
      BY <2>2
    <2> HIDE DEF has
    <2> QED
      BY <2>3
  <1>2. ASSUME NEW n \in Nat, n \in S PROVE n + 1 \in S
    <2> SUFFICES ASSUME n + 1 <= N PROVE has(n + 1)
      <3> HIDE DEF has
      <3> QED
        OBVIOUS
    <2>1. has(n)
      <3> HIDE DEF has
      <3> QED
        BY <1>2
    <2>11. PICK r : loop(n, r)
      BY <2>1
    <2> DEFINE q == [x \in SUBSET (1..(n + 1)) |-> Folds_(G, base, s, r, x)]
    <2>2. \A x \in SUBSET (1..n) : x \in SUBSET (1..(n + 1))
      OBVIOUS
    <2>3. \A x \in SUBSET (1..n) : q[x] = r[x]
      BY <2>11, <2>2
    <2>4. \A x \in SUBSET (1..(n + 1)) : x # {} => /\ Max(x) \in 1..N
                                                   /\ x \ {Max(x)} \in SUBSET (1..n)
      <3> SUFFICES ASSUME NEW x \in SUBSET (1..(n + 1)), x # {}
                   PROVE  Max(x) \in 1..N /\ x \ {Max(x)} \in SUBSET (1..n)
        OBVIOUS
      <3>1. Max(x) \in x /\ x \ {Max(x)} \in SUBSET (1..n)
        BY WithoutMax
      <3>2. Max(x) \in 1..(n + 1)
        BY <3>1
      <3> QED
        BY <3>1, <3>2
    <2>5. \A x \in SUBSET (1..(n + 1)) : Folds_(G, base, s, r, x) \in Acc
      <3> SUFFICES ASSUME NEW x \in SUBSET (1..(n + 1)) PROVE Folds_(G, base, s, r, x) \in Acc
        OBVIOUS
      <3>1. CASE x = {}
        BY <3>1 DEF Folds_
      <3>2. CASE x # {}
        <4>1. r[x \ {Max(x)}] \in Acc /\ s[Max(x)] \in E
          BY <2>11, <2>4, <3>2
        <4>2. <<r[x \ {Max(x)}], s[Max(x)]>> \in Acc \X E
          BY <4>1
        <4> QED
          BY <4>2, <3>2 DEF Folds_
      <3> QED
        BY <3>1, <3>2
    <2>6. q \in [SUBSET (1..(n + 1)) -> Acc]
      BY <2>5
    <2>7. \A x \in SUBSET (1..(n + 1)) : q[x] = Folds_(G, base, s, r, x)
      OBVIOUS
    <2> HIDE DEF q
    <2>8. \A x \in SUBSET (1..(n + 1)) : q[x] = Folds_(G, base, s, q, x)
      BY <2>3, <2>4, <2>7 DEF Folds_
    <2>9. loop(n + 1, q)
      BY <2>6, <2>8
    <2> HIDE DEF loop
    <2> QED
      BY <2>9
  <1> HIDE DEF S
  <1>3. N \in S
    BY <1>1, <1>2, SetInduction
  <1>4. has(N)
    <2> HIDE DEF has
    <2> QED
      BY <1>3 DEF S
  <1> QED
    BY <1>4 DEF IsFold

(* w is what a fold comes to, one element of s after the other.            *)
Walk(Acc, G, base, s, N, w) ==
    /\ w[0] = base
    /\ \A i \in 0..N : w[i] \in Acc
    /\ \A i \in 1..N : w[i] = G[<<w[i - 1], s[i]>>]

(* A fold goes through the elements in their order.                        *)
LEMMA FoldWalks ==
    ASSUME NEW Acc, NEW G, NEW base, NEW N \in Nat, NEW s, NEW r, IsFold(Acc, G, base, s, N, r)
    PROVE  \E w : Walk(Acc, G, base, s, N, w) /\ w[N] = r[1..N]
  <1> DEFINE w == [i \in 0..N |-> r[1..i]]
  <1>1. /\ r \in [SUBSET (1..N) -> Acc]
        /\ \A x \in SUBSET (1..N) : r[x] = Folds_(G, base, s, r, x)
    BY DEF IsFold
  <1>2. \A i \in 0..N : 1..i \in SUBSET (1..N)
    OBVIOUS
  <1>3. \A i \in 0..N : w[i] = r[1..i] /\ w[i] \in Acc
    BY <1>1, <1>2
  <1>4. w[0] = base
    <2>1. 1..0 = {} /\ 0 \in 0..N
      OBVIOUS
    <2> QED
      BY <1>1, <1>2, <2>1 DEF Folds_
  <1> HIDE DEF w
  <1>5. \A i \in 1..N : w[i] = G[<<w[i - 1], s[i]>>]
    <2> SUFFICES ASSUME NEW i \in 1..N PROVE w[i] = G[<<w[i - 1], s[i]>>]
      OBVIOUS
    <2>1. i \in Nat /\ i # 0 /\ i \in 0..N /\ i - 1 \in 0..N /\ i \in 1..i
      OBVIOUS
    <2>2. Max(1..i) = i /\ (1..i) \ {Max(1..i)} = 1..(i - 1)
      BY <2>1, MaxOfInterval
    <2>3. r[1..i] = Folds_(G, base, s, r, 1..i) /\ 1..i # {}
      BY <1>1, <1>2, <2>1
    <2>4. r[1..i] = G[<<r[1..(i - 1)], s[i]>>]
      BY <2>2, <2>3 DEF Folds_
    <2> QED
      BY <1>3, <2>1, <2>4
  <1>6. N \in 0..N
    OBVIOUS
  <1>7. Walk(Acc, G, base, s, N, w) /\ w[N] = r[1..N]
    BY <1>3, <1>4, <1>5, <1>6 DEF Walk
  <1> QED
    BY <1>7

(* q takes the steps of a fold, as long as it keeps to its values.         *)
Follows(Acc, G, base, s, N, q) ==
    /\ q[{}] = base
    /\ \A x \in SUBSET (1..N) : x # {} /\ q[x \ {Max(x)}] \in Acc =>
            q[x] = G[<<q[x \ {Max(x)}], s[Max(x)]>>]

(* Whatever takes the same steps as a fold comes to the same end.          *)
LEMMA FoldMeets ==
    ASSUME NEW Acc, NEW G, NEW base, NEW N \in Nat, NEW s, NEW r, IsFold(Acc, G, base, s, N, r),
           NEW q, Follows(Acc, G, base, s, N, q)
    PROVE  q[1..N] = r[1..N]
  <1> DEFINE S == {i \in Nat : i <= N => q[1..i] = r[1..i]}
  <1>1. /\ r \in [SUBSET (1..N) -> Acc]
        /\ \A x \in SUBSET (1..N) : r[x] = Folds_(G, base, s, r, x)
    BY DEF IsFold
  <1>0. /\ q[{}] = base
        /\ \A x \in SUBSET (1..N) : x # {} /\ q[x \ {Max(x)}] \in Acc =>
                q[x] = G[<<q[x \ {Max(x)}], s[Max(x)]>>]
    BY DEF Follows
  <1>2. 0 \in S
    <2>1. 1..0 = {} /\ {} \in SUBSET (1..N)
      OBVIOUS
    <2> QED
      BY <1>0, <1>1, <2>1 DEF Folds_
  <1>3. ASSUME NEW i \in Nat, i \in S PROVE i + 1 \in S
    <2> SUFFICES ASSUME i + 1 <= N PROVE q[1..(i + 1)] = r[1..(i + 1)]
      OBVIOUS
    <2>1. i + 1 \in Nat /\ i + 1 # 0 /\ (i + 1) - 1 = i /\ i <= N /\ i + 1 \in 1..(i + 1)
      OBVIOUS
    <2>2. Max(1..(i + 1)) = i + 1 /\ (1..(i + 1)) \ {Max(1..(i + 1))} = 1..i
      BY <2>1, MaxOfInterval
    <2>3. /\ 1..(i + 1) \in SUBSET (1..N) /\ 1..i \in SUBSET (1..N)
          /\ 1..(i + 1) # {}
      BY <2>1
    <2>4. q[1..i] = r[1..i] /\ r[1..i] \in Acc
      BY <1>1, <1>3, <2>1, <2>3
    <2>5. r[1..(i + 1)] = G[<<r[1..i], s[i + 1]>>]
      BY <1>1, <2>2, <2>3 DEF Folds_
    <2>6. q[1..(i + 1)] = G[<<q[1..i], s[i + 1]>>]
      BY <1>0, <2>2, <2>3, <2>4
    <2> QED
      BY <2>4, <2>5, <2>6
  <1> HIDE DEF S
  <1>4. N \in S
    BY <1>2, <1>3, SetInduction
  <1> QED
    BY <1>4 DEF S

-----------------------------------------------------------------------------
(* Sums over finite sets.                                                  *)

Total(g, S) == MapThenSumSet(LAMBDA x : g[x], S)

(* The element a sum takes next, and what it does with it.                 *)
Taken(s) == CHOOSE n \in s : TRUE
Adds(g, r, s) == IF s = {} THEN 0 ELSE g[Taken(s)] + r[s \ {Taken(s)}]

(* r has the sums over the subsets of S.                                   *)
Sums(g, S, r) == \A s \in SUBSET S : r[s] = Adds(g, r, s)

(* Taking an element from a set of n + 1 leaves n.                         *)
LEMMA TakenSmaller ==
    ASSUME NEW S, IsFiniteSet(S), NEW s \in SUBSET S, NEW x \in s
    PROVE  /\ Taken(s) \in s /\ s \ {x} \in SUBSET S
           /\ Cardinality(s) \in Nat \ {0}
           /\ Cardinality(s \ {x}) = Cardinality(s) - 1
  <1>1. Taken(s) \in s
    BY DEF Taken
  <1>2. IsFiniteSet(s)
    BY FS_Subset
  <1>3. Cardinality(s) \in Nat /\ Cardinality(s) # 0
    BY <1>2, FS_CardinalityType, FS_EmptySet
  <1>4. Cardinality(s \ {x}) = Cardinality(s) - 1
    BY <1>2, FS_RemoveElement
  <1> QED
    BY <1>1, <1>3, <1>4

(* The recursive function behind a sum exists.                             *)
LEMMA SumUnfolds ==
    ASSUME NEW g, NEW S, IsFiniteSet(S)
    PROVE  \E r : Total(g, S) = r[S] /\ Sums(g, S, r)
  <1> DEFINE W(n) == {x \in SUBSET S : Cardinality(x) <= n}
             loop(n, r) == r = [s \in W(n) |-> Adds(g, r, s)]
             c == Cardinality(S)
             built == CHOOSE r : r = [s \in SUBSET S |-> Adds(g, r, s)]
  <1>1. Total(g, S) = built[S]
    BY DEF Total, MapThenSumSet, MapThenFoldSet, Adds, Taken
  <1>2. c \in Nat /\ W(c) = SUBSET S
    <2>1. \A x \in SUBSET S : Cardinality(x) <= c
      BY FS_Subset
    <2> QED
      BY <2>1, FS_CardinalityType
  <1>3. \E r : loop(c, r)
    <2> DEFINE T == {n \in Nat : \E r : loop(n, r)}
    <2>1. 0 \in T
      <3>1. W(0) = {{}}
        <4>1. \A x \in SUBSET S : x # {} => Cardinality(x) \in Nat \ {0}
          BY TakenSmaller
        <4>2. Cardinality({}) = 0
          BY FS_EmptySet
        <4> QED
          BY <4>1, <4>2
      <3> DEFINE q == [s \in W(0) |-> 0]
      <3>2. \A s \in W(0) : Adds(g, q, s) = 0
        BY <3>1 DEF Adds
      <3>3. loop(0, q)
        BY <3>2
      <3> HIDE DEF q, loop
      <3>4. \E r : loop(0, r)
        BY <3>3
      <3> QED
        BY <3>4
    <2>2. ASSUME NEW n \in Nat, n \in T PROVE n + 1 \in T
      <3>1. PICK r : loop(n, r)
        BY <2>2
      <3> DEFINE q == [s \in W(n + 1) |-> IF s \in W(n) THEN r[s] ELSE Adds(g, r, s)]
      <3>2. \A s \in W(n) : s \in W(n + 1) /\ q[s] = r[s] /\ r[s] = Adds(g, r, s)
        <4>1. \A s \in W(n) : r[s] = Adds(g, r, s)
          BY <3>1
        <4>2. \A s \in W(n) : s \in W(n + 1)
          <5> SUFFICES ASSUME NEW s \in W(n) PROVE s \in W(n + 1)
            OBVIOUS
          <5>1. s \in SUBSET S /\ Cardinality(s) <= n
            OBVIOUS
          <5>2. Cardinality(s) \in Nat
            BY <5>1, FS_Subset, FS_CardinalityType
          <5> QED
            BY <5>1, <5>2
        <4> QED
          BY <4>1, <4>2
      <3>3. \A s \in W(n + 1) : q[s] = Adds(g, r, s)
        BY <3>2
      <3>4. \A s \in W(n + 1) : s # {} => s \ {Taken(s)} \in W(n)
        <4> SUFFICES ASSUME NEW s \in W(n + 1), s # {} PROVE s \ {Taken(s)} \in W(n)
          OBVIOUS
        <4>1. Taken(s) \in s
          BY DEF Taken
        <4>2. /\ s \ {Taken(s)} \in SUBSET S /\ Cardinality(s) \in Nat
              /\ Cardinality(s \ {Taken(s)}) = Cardinality(s) - 1
          BY <4>1, TakenSmaller
        <4> QED
          BY <4>2
      <3>5. q = [s \in W(n + 1) |-> q[s]]
        OBVIOUS
      <3> HIDE DEF W, q
      <3>6. \A s \in W(n + 1) : q[s] = Adds(g, q, s)
        BY <3>2, <3>3, <3>4 DEF Adds
      <3>7. loop(n + 1, q)
        BY <3>5, <3>6
      <3> HIDE DEF loop
      <3>8. \E x : loop(n + 1, x)
        BY <3>7
      <3> QED
        BY <3>8
    <2> HIDE DEF T
    <2>3. c \in T
      BY <1>2, <2>1, <2>2, SetInduction
    <2> QED
      BY <2>3 DEF T
  <1>4. built = [s \in SUBSET S |-> Adds(g, built, s)]
    BY <1>2, <1>3
  <1> HIDE DEF built
  <1>5. Sums(g, S, built)
    BY <1>4 DEF Sums
  <1> QED
    BY <1>1, <1>5

LEMMA SumsAreNatural ==
    ASSUME NEW g, NEW S, IsFiniteSet(S), \A n \in S : g[n] \in Nat, NEW r, Sums(g, S, r)
    PROVE  \A s \in SUBSET S : r[s] \in Nat
  <1> DEFINE T == {n \in Nat : \A s \in SUBSET S : Cardinality(s) = n => r[s] \in Nat}
  <1>1. 0 \in T
    <2> SUFFICES ASSUME NEW s \in SUBSET S, Cardinality(s) = 0 PROVE r[s] \in Nat
      OBVIOUS
    <2>1. s = {}
      BY TakenSmaller
    <2>2. r[s] = 0
      BY <2>1 DEF Sums, Adds
    <2> QED
      BY <2>2
  <1>2. ASSUME NEW n \in Nat, n \in T PROVE n + 1 \in T
    <2> SUFFICES ASSUME NEW s \in SUBSET S, Cardinality(s) = n + 1 PROVE r[s] \in Nat
      OBVIOUS
    <2>1. s # {}
      <3>1. Cardinality({}) = 0
        BY FS_EmptySet
      <3>2. n + 1 # 0
        OBVIOUS
      <3> QED
        BY <3>1, <3>2
    <2> DEFINE t == Taken(s)
    <2>2. t \in s
      BY <2>1 DEF Taken
    <2>3. r[s] = g[t] + r[s \ {t}]
      BY <2>1 DEF Sums, Adds
    <2> HIDE DEF t
    <2>4. s \ {t} \in SUBSET S /\ Cardinality(s \ {t}) = n
      BY <2>2, TakenSmaller
    <2>5. r[s \ {t}] \in Nat
      BY <1>2, <2>4
    <2> QED
      BY <2>2, <2>3, <2>5
  <1> HIDE DEF T
  <1>3. \A n \in Nat : n \in T
    BY <1>1, <1>2, SetInduction
  <1>4. \A s \in SUBSET S : Cardinality(s) \in Nat
    BY FS_Subset, FS_CardinalityType
  <1> QED
    BY <1>3, <1>4 DEF T

(* A sum may take its elements in any order.                               *)
LEMMA SumAnyOrder ==
    ASSUME NEW g, NEW S, IsFiniteSet(S), \A n \in S : g[n] \in Nat, NEW r, Sums(g, S, r)
    PROVE  \A s \in SUBSET S : \A x \in s : r[s] = g[x] + r[s \ {x}]
  <1> DEFINE Good(s) == \A x \in s : r[s] = g[x] + r[s \ {x}]
             T == {n \in Nat : \A s \in SUBSET S : Cardinality(s) = n => Good(s)}
  <1>1. 0 \in T
    <2> SUFFICES ASSUME NEW s \in SUBSET S, Cardinality(s) = 0 PROVE Good(s)
      OBVIOUS
    <2>1. s = {}
      BY TakenSmaller
    <2> QED
      BY <2>1
  <1>2. ASSUME NEW n \in Nat, n \in T PROVE n + 1 \in T
    <2> SUFFICES ASSUME NEW s \in SUBSET S, Cardinality(s) = n + 1, NEW x \in s
                 PROVE  r[s] = g[x] + r[s \ {x}]
      OBVIOUS
    <2> DEFINE t == Taken(s)
    <2>1. t \in s
      BY DEF Taken
    <2>2. r[s] = g[t] + r[s \ {t}]
      BY DEF Sums, Adds
    <2> HIDE DEF t
    <2>3. CASE x = t
      BY <2>2, <2>3
    <2>4. CASE x # t
      <3> DEFINE u == (s \ {t}) \ {x}
      <3>1. u = (s \ {x}) \ {t} /\ x \in s \ {t} /\ t \in s \ {x} /\ u \in SUBSET S
        BY <2>1, <2>4
      <3>2. /\ s \ {t} \in SUBSET S /\ Cardinality(s \ {t}) = n
            /\ s \ {x} \in SUBSET S /\ Cardinality(s \ {x}) = n
        BY <2>1, TakenSmaller
      <3>3. Good(s \ {t}) /\ Good(s \ {x})
        <4> HIDE DEF Good
        <4> QED
          BY <1>2, <3>2
      <3>4. r[s \ {t}] = g[x] + r[u] /\ r[s \ {x}] = g[t] + r[(s \ {x}) \ {t}]
        BY <3>1, <3>3
      <3>5. r[u] \in Nat
        BY <3>1, SumsAreNatural
      <3>6. g[x] \in Nat /\ g[t] \in Nat
        BY <2>1
      <3> HIDE DEF u
      <3> QED
        BY <2>2, <3>1, <3>4, <3>5, <3>6
    <2> QED
      BY <2>3, <2>4
  <1> HIDE DEF T
  <1>3. \A n \in Nat : n \in T
    BY <1>1, <1>2, SetInduction
  <1>4. \A s \in SUBSET S : Cardinality(s) \in Nat
    BY FS_Subset, FS_CardinalityType
  <1> QED
    BY <1>3, <1>4 DEF T

(* The sums over a set are those over a larger one.                        *)
LEMMA SumsAgree ==
    ASSUME NEW g, NEW S, NEW r, Sums(g, S, r), NEW h, NEW S2, NEW q, Sums(h, S2, q),
           IsFiniteSet(S), S \subseteq S2, \A n \in S : h[n] = g[n]
    PROVE  \A s \in SUBSET S : q[s] = r[s]
  <1> DEFINE T == {n \in Nat : \A s \in SUBSET S : Cardinality(s) = n => q[s] = r[s]}
  <1>0. \A s \in SUBSET S : s \in SUBSET S2
    OBVIOUS
  <1>1. 0 \in T
    <2> SUFFICES ASSUME NEW s \in SUBSET S, Cardinality(s) = 0 PROVE q[s] = r[s]
      OBVIOUS
    <2>1. s = {}
      BY TakenSmaller
    <2> QED
      BY <1>0, <2>1 DEF Sums, Adds
  <1>2. ASSUME NEW n \in Nat, n \in T PROVE n + 1 \in T
    <2> SUFFICES ASSUME NEW s \in SUBSET S, Cardinality(s) = n + 1 PROVE q[s] = r[s]
      OBVIOUS
    <2>1. s # {}
      <3>1. Cardinality({}) = 0
        BY FS_EmptySet
      <3>2. n + 1 # 0
        OBVIOUS
      <3> QED
        BY <3>1, <3>2
    <2> DEFINE t == Taken(s)
    <2>2. t \in s
      BY <2>1 DEF Taken
    <2>3. r[s] = g[t] + r[s \ {t}] /\ q[s] = h[t] + q[s \ {t}]
      BY <1>0, <2>1 DEF Sums, Adds
    <2> HIDE DEF t
    <2>4. s \ {t} \in SUBSET S /\ Cardinality(s \ {t}) = n
      BY <2>2, TakenSmaller
    <2>5. q[s \ {t}] = r[s \ {t}]
      BY <1>2, <2>4
    <2>6. h[t] = g[t]
      BY <2>2
    <2> QED
      BY <2>3, <2>5, <2>6
  <1> HIDE DEF T
  <1>3. \A n \in Nat : n \in T
    BY <1>1, <1>2, SetInduction
  <1>4. \A s \in SUBSET S : Cardinality(s) \in Nat
    BY FS_Subset, FS_CardinalityType
  <1> QED
    BY <1>3, <1>4 DEF T

LEMMA SumOfNone == \A g : Total(g, {}) = 0
  <1> SUFFICES ASSUME NEW g PROVE Total(g, {}) = 0
    OBVIOUS
  <1>1. IsFiniteSet({})
    BY FS_EmptySet
  <1>2. PICK r : Total(g, {}) = r[{}] /\ Sums(g, {}, r)
    BY <1>1, SumUnfolds
  <1> QED
    BY <1>2 DEF Sums, Adds

LEMMA SumNatural ==
    ASSUME NEW g, NEW S, IsFiniteSet(S), \A n \in S : g[n] \in Nat
    PROVE  Total(g, S) \in Nat
  <1>1. PICK r : Total(g, S) = r[S] /\ Sums(g, S, r)
    BY SumUnfolds
  <1> QED
    BY <1>1, SumsAreNatural

(* A sum depends on what it adds up only.                                  *)
LEMMA SumSame ==
    ASSUME NEW g, NEW h, NEW S, IsFiniteSet(S), \A n \in S : h[n] = g[n]
    PROVE  Total(h, S) = Total(g, S)
  <1>1. PICK r : Total(g, S) = r[S] /\ Sums(g, S, r)
    BY SumUnfolds
  <1>2. PICK q : Total(h, S) = q[S] /\ Sums(h, S, q)
    BY SumUnfolds
  <1>3. q[S] = r[S]
    BY <1>1, <1>2, SumsAgree
  <1> QED
    BY <1>1, <1>2, <1>3

(* One more element adds its weight.                                       *)
LEMMA SumAdds ==
    ASSUME NEW g, NEW h, NEW S, IsFiniteSet(S), \A n \in S : h[n] = g[n],
           NEW x, x \notin S, h[x] \in Nat, \A n \in S : g[n] \in Nat
    PROVE  Total(h, S \cup {x}) = Total(g, S) + h[x]
  <1> DEFINE U == S \cup {x}
  <1>1. IsFiniteSet(U) /\ S \subseteq U /\ U \ {x} = S /\ x \in U
    BY FS_AddElement
  <1>2. \A n \in U : h[n] \in Nat
    OBVIOUS
  <1> HIDE DEF U
  <1>3. PICK r : Total(g, S) = r[S] /\ Sums(g, S, r)
    BY SumUnfolds
  <1>4. PICK q : Total(h, U) = q[U] /\ Sums(h, U, q)
    BY <1>1, SumUnfolds
  <1>5. q[S] = r[S]
    BY <1>1, <1>3, <1>4, SumsAgree
  <1>6. q[U] = h[x] + q[U \ {x}]
    BY <1>1, <1>2, <1>4, SumAnyOrder
  <1>7. r[S] \in Nat
    BY <1>3, SumsAreNatural
  <1>8. Total(h, U) = h[x] + Total(g, S)
    BY <1>1, <1>3, <1>4, <1>5, <1>6
  <1>9. Total(h, U) = Total(g, S) + h[x]
    <2> DEFINE y == Total(g, S)
    <2>1. y \in Nat
      BY <1>3, <1>7
    <2> HIDE DEF y
    <2> QED
      BY <1>8, <2>1 DEF y
  <1> QED
    BY <1>9 DEF U

(* What holds of no element and of one more element holds of the whole     *)
(* finite set; F has the subsets it holds of.                              *)
LEMMA FiniteInduction ==
    ASSUME NEW S, IsFiniteSet(S), NEW F, {} \in F,
           \A s \in SUBSET S : \A x \in S \ s : s \in F => s \cup {x} \in F
    PROVE  S \in F
  <1> DEFINE T == {n \in Nat : \A s \in SUBSET S : Cardinality(s) = n => s \in F}
  <1>1. 0 \in T
    <2> SUFFICES ASSUME NEW s \in SUBSET S, Cardinality(s) = 0 PROVE s \in F
      OBVIOUS
    <2>1. s = {}
      BY TakenSmaller
    <2> QED
      BY <2>1
  <1>2. ASSUME NEW n \in Nat, n \in T PROVE n + 1 \in T
    <2> SUFFICES ASSUME NEW s \in SUBSET S, Cardinality(s) = n + 1 PROVE s \in F
      OBVIOUS
    <2>1. s # {}
      <3>1. Cardinality({}) = 0
        BY FS_EmptySet
      <3>2. n + 1 # 0
        OBVIOUS
      <3> QED
        BY <3>1, <3>2
    <2>2. PICK x \in s : TRUE
      BY <2>1
    <2>3. s \ {x} \in SUBSET S /\ Cardinality(s \ {x}) = Cardinality(s) - 1
      BY TakenSmaller
    <2>4. Cardinality(s \ {x}) = n
      BY <2>3
    <2>5. s \ {x} \in F
      BY <1>2, <2>3, <2>4
    <2>6. s = (s \ {x}) \cup {x} /\ x \in S \ (s \ {x})
      OBVIOUS
    <2> QED
      BY <2>3, <2>5, <2>6
  <1> HIDE DEF T
  <1>3. Cardinality(S) \in T
    BY <1>1, <1>2, SetInduction, FS_CardinalityType
  <1> QED
    BY <1>3 DEF T

(* The elements of a set that weigh nothing do not count.                  *)
LEMMA TotalOfPart ==
    ASSUME NEW g, NEW S, IsFiniteSet(S), \A x \in S : g[x] \in Nat,
           NEW P \in SUBSET S, \A x \in S \ P : g[x] = 0
    PROVE  Total(g, P) = Total(g, S)
  <1> DEFINE F == {s \in SUBSET S : Total(g, s \cap P) = Total(g, s)}
  <1>1. {} \in F
    <2>1. {} \cap P = {}
      OBVIOUS
    <2> QED
      BY <2>1
  <1>2. ASSUME NEW s \in SUBSET S, NEW x \in S \ s, s \in F PROVE s \cup {x} \in F
    <2> DEFINE p == s \cap P
    <2>1. IsFiniteSet(s) /\ IsFiniteSet(p)
      BY FS_Subset
    <2>2. x \notin s /\ x \notin p /\ g[x] \in Nat /\ \A n \in s : g[n] \in Nat
      OBVIOUS
    <2>3. Total(g, s \cup {x}) = Total(g, s) + g[x]
      BY <2>1, <2>2, SumAdds
    <2>4. Total(g, s) \in Nat /\ Total(g, p) = Total(g, s)
      <3>1. Total(g, s) \in Nat
        BY <2>1, <2>2, SumNatural
      <3> QED
        BY <1>2, <3>1
    <2>5. CASE x \in P
      <3>1. (s \cup {x}) \cap P = p \cup {x}
        BY <2>5
      <3>2. \A n \in p : g[n] \in Nat
        BY <2>2
      <3> HIDE DEF p
      <3>3. Total(g, p \cup {x}) = Total(g, p) + g[x]
        BY <2>1, <2>2, <3>2, SumAdds
      <3> QED
        BY <2>3, <2>4, <3>1, <3>3
    <2>6. CASE x \notin P
      <3>1. (s \cup {x}) \cap P = p /\ g[x] = 0
        BY <2>6
      <3>2. Total(g, s \cup {x}) = Total(g, s)
        BY <2>3, <2>4, <3>1
      <3> HIDE DEF p
      <3> QED
        BY <2>4, <3>1, <3>2
    <2> QED
      BY <2>5, <2>6
  <1> HIDE DEF F
  <1>3. S \in F
    BY <1>1, <1>2, FiniteInduction
  <1>4. S \cap P = P
    OBVIOUS
  <1> QED
    BY <1>3, <1>4 DEF F

(* A sum is monotone in its weights.                                       *)
LEMMA TotalOfLess ==
    ASSUME NEW g, NEW h, NEW S, IsFiniteSet(S),
           \A x \in S : g[x] \in Nat /\ h[x] \in Nat /\ g[x] <= h[x]
    PROVE  Total(g, S) \in Nat /\ Total(h, S) \in Nat /\ Total(g, S) <= Total(h, S)
  <1> DEFINE F == {s \in SUBSET S : /\ Total(g, s) \in Nat /\ Total(h, s) \in Nat
                                    /\ Total(g, s) <= Total(h, s)}
  <1>1. {} \in F
    <2>1. Total(g, {}) = 0 /\ Total(h, {}) = 0
      BY SumOfNone
    <2> QED
      BY <2>1
  <1>2. ASSUME NEW s \in SUBSET S, NEW x \in S \ s, s \in F PROVE s \cup {x} \in F
    <2>1. IsFiniteSet(s)
      BY FS_Subset
    <2>2. Total(g, s \cup {x}) = Total(g, s) + g[x]
      BY <2>1, SumAdds
    <2>3. Total(h, s \cup {x}) = Total(h, s) + h[x]
      BY <2>1, SumAdds
    <2>4. s \cup {x} \in SUBSET S
      OBVIOUS
    <2>5. Total(g, s) \in Nat /\ Total(h, s) \in Nat /\ Total(g, s) <= Total(h, s)
      BY <1>2
    <2>6. g[x] \in Nat /\ h[x] \in Nat /\ g[x] <= h[x]
      OBVIOUS
    <2>7. /\ Total(g, s \cup {x}) \in Nat /\ Total(h, s \cup {x}) \in Nat
          /\ Total(g, s \cup {x}) <= Total(h, s \cup {x})
      BY <2>2, <2>3, <2>5, <2>6
    <2> QED
      BY <2>4, <2>7
  <1> HIDE DEF F
  <1>3. S \in F
    BY <1>1, <1>2, FiniteInduction
  <1> QED
    BY <1>3 DEF F

(* A sum is monotone in its set.                                           *)
LEMMA TotalOfFewer ==
    ASSUME NEW g, NEW S, IsFiniteSet(S), \A x \in S : g[x] \in Nat, NEW P \in SUBSET S
    PROVE  Total(g, P) \in Nat /\ Total(g, S) \in Nat /\ Total(g, P) <= Total(g, S)
  <1> DEFINE h == [x \in S |-> IF x \in P THEN g[x] ELSE 0]
  <1>1. \A x \in S : h[x] \in Nat /\ g[x] \in Nat /\ h[x] <= g[x]
    OBVIOUS
  <1>2. (\A x \in S \ P : h[x] = 0) /\ (\A x \in P : h[x] = g[x])
    OBVIOUS
  <1>3. IsFiniteSet(P)
    BY FS_Subset
  <1> HIDE DEF h
  <1>4. Total(h, P) = Total(h, S)
    BY <1>1, <1>2, TotalOfPart
  <1>5. Total(h, S) \in Nat /\ Total(g, S) \in Nat /\ Total(h, S) <= Total(g, S)
    BY <1>1, TotalOfLess
  <1>6. Total(h, P) = Total(g, P)
    BY <1>2, <1>3, SumSame
  <1> QED
    BY <1>4, <1>5, <1>6

(* One element, taken out of a sum.                                        *)
LEMMA TotalWithout ==
    ASSUME NEW g, NEW S, IsFiniteSet(S), \A x \in S : g[x] \in Nat, NEW x \in S
    PROVE  Total(g, S) = Total(g, S \ {x}) + g[x]
  <1> DEFINE p == S \ {x}
  <1>1. p \cup {x} = S /\ x \notin p /\ \A n \in p : g[n] \in Nat
    OBVIOUS
  <1>2. IsFiniteSet(p)
    BY FS_RemoveElement
  <1> HIDE DEF p
  <1>3. Total(g, p \cup {x}) = Total(g, p) + g[x]
    BY <1>1, <1>2, SumAdds
  <1> QED
    BY <1>1, <1>3 DEF p

(* One weight changes.                                                     *)
LEMMA TotalChanged ==
    ASSUME NEW g, NEW h, NEW S, IsFiniteSet(S), \A x \in S : g[x] \in Nat, NEW x \in S,
           NEW d \in Nat, h[x] = g[x] + d, \A y \in S \ {x} : h[y] = g[y]
    PROVE  Total(h, S) = Total(g, S) + d
  <1> DEFINE p == S \ {x}
             t == Total(g, p)
  <1>1. IsFiniteSet(p)
    BY FS_RemoveElement
  <1>2. \A y \in S : h[y] \in Nat
    <2> SUFFICES ASSUME NEW y \in S PROVE h[y] \in Nat
      OBVIOUS
    <2>1. CASE y = x
      BY <2>1
    <2>2. CASE y # x
      BY <2>2
    <2> QED
      BY <2>1, <2>2
  <1>3. Total(g, S) = Total(g, p) + g[x] /\ Total(h, S) = Total(h, p) + h[x]
    BY <1>2, TotalWithout
  <1>4. Total(h, p) = t
    BY <1>1, SumSame
  <1>5. t \in Nat
    BY <1>1, SumNatural
  <1>6. g[x] \in Nat
    OBVIOUS
  <1> HIDE DEF t, p
  <1> QED
    BY <1>3, <1>4, <1>5, <1>6 DEF t

(* A weight that leaves room leaves it in the sum.                         *)
LEMMA TotalLeaves ==
    ASSUME NEW g, NEW h, NEW S, IsFiniteSet(S),
           \A x \in S : g[x] \in Nat /\ h[x] \in Nat /\ g[x] <= h[x], NEW x \in S
    PROVE  Total(g, S) + (h[x] - g[x]) <= Total(h, S)
  <1> DEFINE p == S \ {x}
             t == Total(g, p)
             u == Total(h, p)
  <1>1. IsFiniteSet(p)
    BY FS_RemoveElement
  <1>2. Total(g, S) = t + g[x] /\ Total(h, S) = u + h[x]
    BY TotalWithout
  <1>3. t \in Nat /\ u \in Nat /\ t <= u
    BY <1>1, TotalOfLess
  <1>4. g[x] \in Nat /\ h[x] \in Nat
    OBVIOUS
  <1> HIDE DEF t, u
  <1> QED
    BY <1>2, <1>3, <1>4

(* The volume of orders is a sum.                                          *)
LEMMA VolumeIsTotal ==
    ASSUME NEW S, IsFiniteSet(S)
    PROVE  MapThenSumSet(LAMBDA o : o.remaining, S) = Total([o \in S |-> o.remaining], S)
  <1> DEFINE g == [o \in S |-> o.remaining]
             step(r, s) == IF s = {} THEN 0
                           ELSE LET x == CHOOSE n \in s : TRUE
                                IN  x.remaining + r[s \ {x}]
             built == CHOOSE r : r = [s \in SUBSET S |-> step(r, s)]
  <1>1. MapThenSumSet(LAMBDA o : o.remaining, S) = built[S]
    BY DEF MapThenSumSet, MapThenFoldSet
  <1>2. PICK r : Total(g, S) = r[S] /\ Sums(g, S, r)
    BY SumUnfolds
  <1> DEFINE q == [s \in SUBSET S |-> r[s]]
  <1>3. \A s \in SUBSET S : s # {} => /\ Taken(s) \in S /\ s \ {Taken(s)} \in SUBSET S
    BY DEF Taken
  <1>4. \A f : \A s \in SUBSET S : step(f, s) = Adds(g, f, s)
    BY <1>3 DEF Adds, Taken
  <1>5. \A s \in SUBSET S : q[s] = r[s] /\ Adds(g, r, s) = Adds(g, q, s)
    BY <1>3 DEF Adds
  <1>6. q = [s \in SUBSET S |-> step(q, s)]
    <2>1. \A s \in SUBSET S : q[s] = step(q, s)
      <3> HIDE DEF q, g, step
      <3> QED
        BY <1>2, <1>4, <1>5 DEF Sums
    <2>2. q = [s \in SUBSET S |-> q[s]]
      OBVIOUS
    <2> HIDE DEF q, step
    <2> QED
      BY <2>1, <2>2
  <1>7. built = [s \in SUBSET S |-> step(built, s)]
    <2> HIDE DEF q, step
    <2> QED
      BY <1>6
  <1> HIDE DEF built, step, g
  <1>8. Sums(g, S, built)
    BY <1>4, <1>7 DEF Sums
  <1>9. built[S] = r[S]
    BY <1>2, <1>8, SumsAgree
  <1> QED
    BY <1>1, <1>2, <1>9 DEF g

(* So is what fills take from orders.                                      *)
LEMMA FilledIsTotal ==
    ASSUME NEW ms, NEW S, IsFiniteSet(S)
    PROVE  MapThenSumSet(LAMBDA o : Filled(ms, o.id), S) = Total([o \in S |-> Filled(ms, o.id)], S)
  <1> DEFINE g == [o \in S |-> Filled(ms, o.id)]
             step(r, s) == IF s = {} THEN 0
                           ELSE LET x == CHOOSE n \in s : TRUE
                                IN  Filled(ms, x.id) + r[s \ {x}]
             built == CHOOSE r : r = [s \in SUBSET S |-> step(r, s)]
  <1>1. MapThenSumSet(LAMBDA o : Filled(ms, o.id), S) = built[S]
    BY DEF MapThenSumSet, MapThenFoldSet
  <1>2. PICK r : Total(g, S) = r[S] /\ Sums(g, S, r)
    BY SumUnfolds
  <1> DEFINE q == [s \in SUBSET S |-> r[s]]
  <1>3. \A s \in SUBSET S : s # {} => /\ Taken(s) \in S /\ s \ {Taken(s)} \in SUBSET S
    BY DEF Taken
  <1>4. \A f : \A s \in SUBSET S : step(f, s) = Adds(g, f, s)
    BY <1>3 DEF Adds, Taken
  <1>5. \A s \in SUBSET S : q[s] = r[s] /\ Adds(g, r, s) = Adds(g, q, s)
    BY <1>3 DEF Adds
  <1>6. q = [s \in SUBSET S |-> step(q, s)]
    <2>1. \A s \in SUBSET S : q[s] = step(q, s)
      <3> HIDE DEF q, g, step
      <3> QED
        BY <1>2, <1>4, <1>5 DEF Sums
    <2>2. q = [s \in SUBSET S |-> q[s]]
      OBVIOUS
    <2> HIDE DEF q, step
    <2> QED
      BY <2>1, <2>2
  <1>7. built = [s \in SUBSET S |-> step(built, s)]
    <2> HIDE DEF q, step
    <2> QED
      BY <1>6
  <1> HIDE DEF built, step, g
  <1>8. Sums(g, S, built)
    BY <1>4, <1>7 DEF Sums
  <1>9. built[S] = r[S]
    BY <1>2, <1>8, SumsAgree
  <1> QED
    BY <1>1, <1>2, <1>9 DEF g

(* So is what the matches of a log fill.                                   *)
LEMMA SizesAreTotal ==
    ASSUME NEW lg, NEW S, IsFiniteSet(S)
    PROVE  MapThenSumSet(LAMBDA n : lg[n].size, S) = Total([n \in S |-> lg[n].size], S)
  <1> DEFINE g == [n \in S |-> lg[n].size]
             step(r, s) == IF s = {} THEN 0
                           ELSE LET x == CHOOSE n \in s : TRUE
                                IN  lg[x].size + r[s \ {x}]
             built == CHOOSE r : r = [s \in SUBSET S |-> step(r, s)]
  <1>1. MapThenSumSet(LAMBDA n : lg[n].size, S) = built[S]
    BY DEF MapThenSumSet, MapThenFoldSet
  <1>2. PICK r : Total(g, S) = r[S] /\ Sums(g, S, r)
    BY SumUnfolds
  <1> DEFINE q == [s \in SUBSET S |-> r[s]]
  <1>3. \A s \in SUBSET S : s # {} => /\ Taken(s) \in S /\ s \ {Taken(s)} \in SUBSET S
    BY DEF Taken
  <1>4. \A f : \A s \in SUBSET S : step(f, s) = Adds(g, f, s)
    BY <1>3 DEF Adds, Taken
  <1>5. \A s \in SUBSET S : q[s] = r[s] /\ Adds(g, r, s) = Adds(g, q, s)
    BY <1>3 DEF Adds
  <1>6. q = [s \in SUBSET S |-> step(q, s)]
    <2>1. \A s \in SUBSET S : q[s] = step(q, s)
      <3> HIDE DEF q, g, step
      <3> QED
        BY <1>2, <1>4, <1>5 DEF Sums
    <2>2. q = [s \in SUBSET S |-> q[s]]
      OBVIOUS
    <2> HIDE DEF q, step
    <2> QED
      BY <2>1, <2>2
  <1>7. built = [s \in SUBSET S |-> step(built, s)]
    <2> HIDE DEF q, step
    <2> QED
      BY <1>6
  <1> HIDE DEF built, step, g
  <1>8. Sums(g, S, built)
    BY <1>4, <1>7 DEF Sums
  <1>9. built[S] = r[S]
    BY <1>2, <1>8, SumsAgree
  <1> QED
    BY <1>1, <1>2, <1>9 DEF g

-----------------------------------------------------------------------------
(* Sequences of the elements of a set.                                     *)

(* SetToSeq lists each element of a finite set once.                       *)
LEMMA SeqOfSet ==
    ASSUME NEW S, IsFiniteSet(S)
    PROVE  /\ Cardinality(S) \in Nat
           /\ SetToSeq(S) \in [1..Cardinality(S) -> S]
           /\ IsInjective(SetToSeq(S))
           /\ \A x \in S : \E i \in 1..Cardinality(S) : SetToSeq(S)[i] = x
  <1> DEFINE n == Cardinality(S)
             f == SetToSeq(S)
  <1>1. n \in Nat /\ ExistsBijection(1..n, S)
    BY FS_CardinalityType
  <1>2. \E g \in [1..n -> S] : IsInjective(g)
    BY <1>1 DEF ExistsBijection, Bijection, Injection
  <1>3. f \in [1..n -> S] /\ IsInjective(f)
    BY <1>2 DEF SetToSeq
  <1> HIDE DEF f
  <1>4. f \in Injection(1..n, S)
    BY <1>3 DEF Injection
  <1>5. Cardinality(1..n) = n
    BY <1>1, FS_Interval
  <1>6. f \in Surjection(1..n, S)
    BY <1>4, <1>5, FS_Injection
  <1>7. \A x \in S : \E i \in 1..n : f[i] = x
    BY <1>6 DEF Surjection
  <1> QED
    BY <1>1, <1>3, <1>7 DEF f

(* The orders of one side, told apart by their priority keys.              *)
IsSide(S) ==
    /\ IsFiniteSet(S)
    /\ \A o \in S : o.price \in Nat /\ o.seq \in Nat /\ o.remaining \in Nat
    /\ \A o, p \in S : o.seq = p.seq => o = p

(* How many orders of S come before o.                                     *)
Ahead(side, S, o) == {p \in S : Better(side, p, o)}

(* Price and time put the orders of a side in a strict order.              *)
LEMMA BetterIsOrder ==
    ASSUME NEW S, IsSide(S), NEW side
    PROVE  /\ \A o \in S : ~Better(side, o, o)
           /\ \A o, p, q \in S : Better(side, o, p) /\ Better(side, p, q) => Better(side, o, q)
           /\ \A o, p \in S : o # p => Better(side, o, p) \/ Better(side, p, o)
  BY DEF IsSide, Better, BetterBid, BetterAsk

(* SortedSide lists the orders of the side, each after all better ones.    *)
LEMMA SortedSideRanks ==
    ASSUME NEW S, IsSide(S), NEW side
    PROVE  /\ Cardinality(S) \in Nat /\ SortedSide(side, S) \in [1..Cardinality(S) -> S]
           /\ \A o \in S : \E i \in 1..Cardinality(S) : SortedSide(side, S)[i] = o
           /\ \A i \in 1..Cardinality(S), o \in S : Better(side, o, SortedSide(side, S)[i]) =>
                \E k \in 1..(i - 1) : SortedSide(side, S)[k] = o
  <1> DEFINE n == Cardinality(S)
             rank == [o \in S |-> Cardinality(Ahead(side, S, o))]
  <1>1. IsFiniteSet(S) /\ n \in Nat
    BY FS_CardinalityType DEF IsSide
  <1>2. \A o \in S : IsFiniteSet(Ahead(side, S, o)) /\ rank[o] \in 0..(n - 1)
    <2> SUFFICES ASSUME NEW o \in S
                 PROVE  IsFiniteSet(Ahead(side, S, o)) /\ rank[o] \in 0..(n - 1)
      OBVIOUS
    <2>1. Ahead(side, S, o) \in SUBSET (S \ {o})
      BY BetterIsOrder DEF Ahead
    <2>2. IsFiniteSet(S \ {o}) /\ Cardinality(S \ {o}) = n - 1
      BY <1>1, FS_RemoveElement
    <2>3. /\ IsFiniteSet(Ahead(side, S, o))
          /\ Cardinality(Ahead(side, S, o)) <= Cardinality(S \ {o})
      BY <2>1, <2>2, FS_Subset
    <2>4. Cardinality(Ahead(side, S, o)) \in Nat
      BY <2>3, FS_CardinalityType
    <2> QED
      BY <1>1, <2>2, <2>3, <2>4
  <1>3. \A o, p \in S : Better(side, o, p) => rank[o] # rank[p]
    <2> SUFFICES ASSUME NEW o \in S, NEW p \in S, Better(side, o, p) PROVE rank[o] # rank[p]
      OBVIOUS
    <2>1. Ahead(side, S, o) \in SUBSET Ahead(side, S, p)
      BY BetterIsOrder DEF Ahead
    <2>2. o \in Ahead(side, S, p) /\ o \notin Ahead(side, S, o)
      BY BetterIsOrder DEF Ahead
    <2>3. Cardinality(Ahead(side, S, p)) # Cardinality(Ahead(side, S, o))
      BY <1>2, <2>1, <2>2, FS_Subset
    <2> QED
      BY <2>3
  <1>4. rank \in Injection(S, 0..(n - 1))
    <2>1. rank \in [S -> 0..(n - 1)]
      BY <1>2
    <2> HIDE DEF rank
    <2>2. \A o, p \in S : rank[o] = rank[p] => o = p
      BY <1>3, BetterIsOrder
    <2> QED
      BY <2>1, <2>2 DEF Injection, IsInjective
  <1>5. IsFiniteSet(0..(n - 1)) /\ Cardinality(0..(n - 1)) = n
    <2>1. 0 \in Int /\ n - 1 \in Int
      BY <1>1
    <2>2. /\ IsFiniteSet(0..(n - 1))
          /\ Cardinality(0..(n - 1)) = IF 0 > n - 1 THEN 0 ELSE (n - 1) - 0 + 1
      BY <2>1, FS_Interval
    <2> HIDE DEF n
    <2> QED
      BY <1>1, <2>2
  <1>6. rank \in Surjection(S, 0..(n - 1))
    <2> HIDE DEF rank
    <2> QED
      BY <1>4, <1>5, FS_Injection
  <1>7. \A i \in 1..n : \E o \in S : Cardinality(Ahead(side, S, o)) = i - 1
    <2> SUFFICES ASSUME NEW i \in 1..n PROVE \E o \in S : rank[o] = i - 1
      OBVIOUS
    <2>1. i - 1 \in 0..(n - 1)
      BY <1>1
    <2> HIDE DEF rank
    <2> QED
      BY <1>6, <2>1 DEF Surjection
  <1> DEFINE s == SortedSide(side, S)
  <1>8. \A i \in 1..n : s[i] \in S /\ Cardinality(Ahead(side, S, s[i])) = i - 1
    BY <1>7 DEF SortedSide, Ahead
  <1>9. s \in [1..n -> S]
    BY <1>1, <1>8 DEF SortedSide
  <1>10. \A i \in 1..n : rank[s[i]] = i - 1
    BY <1>8
  <1>11. \A o, p \in S : Better(side, o, p) => rank[o] < rank[p]
    <2> SUFFICES ASSUME NEW o \in S, NEW p \in S, Better(side, o, p) PROVE rank[o] < rank[p]
      OBVIOUS
    <2>1. Ahead(side, S, o) \in SUBSET Ahead(side, S, p)
      BY BetterIsOrder DEF Ahead
    <2>2. Cardinality(Ahead(side, S, o)) <= Cardinality(Ahead(side, S, p))
      BY <1>2, <2>1, FS_Subset
    <2>3. rank[o] <= rank[p] /\ rank[o] # rank[p] /\ rank[o] \in Nat /\ rank[p] \in Nat
      BY <1>1, <1>2, <1>3, <2>2
    <2> HIDE DEF rank
    <2> QED
      BY <2>3
  <1>12. \A o, p \in S : rank[o] = rank[p] => o = p
    <2> HIDE DEF rank
    <2> QED
      BY <1>4 DEF Injection, IsInjective
  <1>13. \A o \in S : rank[o] \in Nat /\ rank[o] + 1 \in 1..n
    BY <1>1, <1>2
  <1> HIDE DEF rank, s, n
  <1>14. \A o \in S : s[rank[o] + 1] = o
    <2> SUFFICES ASSUME NEW o \in S PROVE s[rank[o] + 1] = o
      OBVIOUS
    <2>1. s[rank[o] + 1] \in S /\ rank[s[rank[o] + 1]] = (rank[o] + 1) - 1
      BY <1>8, <1>10, <1>13
    <2>2. rank[s[rank[o] + 1]] = rank[o]
      BY <1>13, <2>1
    <2> QED
      BY <1>12, <2>1, <2>2
  <1>15. \A i \in 1..n, o \in S : Better(side, o, s[i]) => \E k \in 1..(i - 1) : s[k] = o
    <2> SUFFICES ASSUME NEW i \in 1..n, NEW o \in S, Better(side, o, s[i])
                 PROVE  \E k \in 1..(i - 1) : s[k] = o
      OBVIOUS
    <2>1. rank[o] < i - 1
      BY <1>8, <1>10, <1>11
    <2>2. rank[o] + 1 \in 1..(i - 1)
      BY <1>1, <1>13, <2>1
    <2> QED
      BY <1>14, <2>2
  <1>16. \A o \in S : \E i \in 1..n : s[i] = o
    BY <1>13, <1>14
  <1> QED
    BY <1>1, <1>9, <1>15, <1>16 DEF n, s

LEMMA SortedSideListsOrders ==
    ASSUME NEW S, IsSide(S), NEW side
    PROVE  Cardinality(S) \in Nat /\ SortedSide(side, S) \in [1..Cardinality(S) -> S]
  BY SortedSideRanks

-----------------------------------------------------------------------------
(* The greedy allocation.                                                  *)

Ids(S) == {o.id : o \in S}

(* The fills that two sides may have at a price.                           *)
Legal(B, A, price) ==
    {m \in [bid : Ids(B), ask : Ids(A), price : {price}, size : Nat \ {0}] :
        \E b \in B, a \in A : m.bid = b.id /\ m.ask = a.id /\ b.trader # a.trader}

(* What is left after a fill.                                              *)
Take(rem, m) == [rem EXCEPT ![m.bid] = @ - m.size, ![m.ask] = @ - m.size]

(* R is what is left before the fills ms and after each of them, from base *)
(* to rem; no fill takes more than there is.                               *)
Trace(D, base, ms, rem, R) ==
    /\ R[0] = base
    /\ R[Len(ms)] = rem
    /\ \A i \in 0..Len(ms) : R[i] \in [D -> Nat]
    /\ \A i \in 1..Len(ms) : /\ ms[i].size <= R[i - 1][ms[i].bid]
                             /\ ms[i].size <= R[i - 1][ms[i].ask]
                             /\ R[i] = Take(R[i - 1], ms[i])

(* The states of the allocation of B and A at a price, from `base` on.     *)
Filling(B, A, price, base) ==
    {st \in [rem : [Ids(B) \cup Ids(A) -> Nat], matches : Seq(Legal(B, A, price))] :
        \E R : Trace(Ids(B) \cup Ids(A), base, st.matches, st.rem, R)}

(* A fill that leaves both orders a natural size.                          *)
LEMMA TakeKeeps ==
    ASSUME NEW D, NEW rem \in [D -> Nat], NEW m, m.bid \in D, m.ask \in D, m.bid # m.ask,
           m.size \in Nat, m.size <= rem[m.bid], m.size <= rem[m.ask]
    PROVE  /\ Take(rem, m) \in [D -> Nat]
           /\ Take(rem, m)[m.bid] = rem[m.bid] - m.size
           /\ Take(rem, m)[m.ask] = rem[m.ask] - m.size
           /\ \A i \in D \ {m.bid, m.ask} : Take(rem, m)[i] = rem[i]
  BY DEF Take

(* One more fill.                                                          *)
LEMMA TraceGrows ==
    ASSUME NEW D, NEW base, NEW L, NEW ms \in Seq(L), NEW rem, NEW R, Trace(D, base, ms, rem, R),
           NEW m \in L, m.bid \in D, m.ask \in D, m.bid # m.ask, m.size \in Nat,
           m.size <= rem[m.bid], m.size <= rem[m.ask]
    PROVE  \E Q : Trace(D, base, Append(ms, m), Take(rem, m), Q)
  <1> DEFINE n == Len(ms)
             mm == Append(ms, m)
             Q == [i \in 0..(n + 1) |-> IF i <= n THEN R[i] ELSE Take(rem, m)]
  <1>1. n \in Nat /\ Len(mm) = n + 1 /\ mm[n + 1] = m /\ \A i \in 1..n : mm[i] = ms[i]
    OBVIOUS
  <1> HIDE DEF mm, n
  <1>2. /\ R[0] = base /\ R[n] = rem
        /\ \A i \in 0..n : R[i] \in [D -> Nat]
        /\ \A i \in 1..n : /\ ms[i].size <= R[i - 1][ms[i].bid]
                           /\ ms[i].size <= R[i - 1][ms[i].ask]
                           /\ R[i] = Take(R[i - 1], ms[i])
    BY DEF Trace, n
  <1>3. Take(rem, m) \in [D -> Nat]
    <2>1. rem \in [D -> Nat]
      BY <1>1, <1>2
    <2> QED
      BY <2>1, TakeKeeps
  <1>4. \A i \in 0..n : Q[i] = R[i]
    BY <1>1
  <1>5. Q[n + 1] = Take(rem, m)
    BY <1>1
  <1> HIDE DEF Q
  <1>6. \A i \in 0..(n + 1) : Q[i] \in [D -> Nat]
    <2> SUFFICES ASSUME NEW i \in 0..(n + 1) PROVE Q[i] \in [D -> Nat]
      OBVIOUS
    <2>1. i \in 0..n \/ i = n + 1
      BY <1>1
    <2> QED
      BY <1>2, <1>3, <1>4, <1>5, <2>1
  <1>7. \A i \in 1..(n + 1) : /\ mm[i].size <= Q[i - 1][mm[i].bid]
                              /\ mm[i].size <= Q[i - 1][mm[i].ask]
                              /\ Q[i] = Take(Q[i - 1], mm[i])
    <2> SUFFICES ASSUME NEW i \in 1..(n + 1)
                 PROVE  /\ mm[i].size <= Q[i - 1][mm[i].bid]
                        /\ mm[i].size <= Q[i - 1][mm[i].ask]
                        /\ Q[i] = Take(Q[i - 1], mm[i])
      OBVIOUS
    <2>1. CASE i \in 1..n
      <3>1. i - 1 \in 0..n /\ i \in 0..n
        BY <1>1, <2>1
      <3> QED
        BY <1>1, <1>2, <1>4, <2>1, <3>1
    <2>2. CASE i = n + 1
      <3>1. i - 1 = n /\ n \in 0..n
        BY <1>1, <2>2
      <3>2. Q[i - 1] = rem /\ mm[i] = m
        BY <1>1, <1>2, <1>4, <2>2, <3>1
      <3> QED
        BY <1>5, <2>2, <3>2
    <2> QED
      BY <1>1, <2>1, <2>2
  <1>8. Q[0] = base
    BY <1>1, <1>2, <1>4
  <1>9. Trace(D, base, mm, Take(rem, m), Q)
    BY <1>1, <1>5, <1>6, <1>7, <1>8 DEF Trace
  <1> QED
    BY <1>9 DEF mm

(* The two sides of an allocation.                                         *)
TwoSides(B, A) ==
    /\ IsSide(B) /\ IsSide(A)
    /\ \A b \in B, a \in A : b.id # a.id

(* One step of the inner loop.                                             *)
LEMMA FillPairKeeps ==
    ASSUME NEW B, NEW A, TwoSides(B, A), NEW price, NEW base,
           NEW st \in Filling(B, A, price, base), NEW b \in B, NEW a \in A
    PROVE  FillPair(st, b, a, price) \in Filling(B, A, price, base)
  <1> DEFINE D == Ids(B) \cup Ids(A)
             L == Legal(B, A, price)
             size == Lesser(st.rem[b.id], st.rem[a.id])
             m == [bid |-> b.id, ask |-> a.id, price |-> price, size |-> size]
             new == [rem |-> Take(st.rem, m), matches |-> Append(st.matches, m)]
  <1>1. st.rem \in [D -> Nat] /\ st.matches \in Seq(L)
    BY DEF Filling
  <1>2. PICK R : Trace(D, base, st.matches, st.rem, R)
    BY DEF Filling
  <1>3. b.id \in Ids(B) /\ a.id \in Ids(A) /\ b.id \in D /\ a.id \in D /\ b.id # a.id
    BY DEF Ids, TwoSides
  <1>4. size \in Nat /\ size <= st.rem[b.id] /\ size <= st.rem[a.id]
    BY <1>1, <1>3 DEF Lesser
  <1>5. CASE size = 0 \/ b.trader = a.trader
    BY <1>5 DEF FillPair
  <1>6. CASE ~(size = 0 \/ b.trader = a.trader)
    <2>1. FillPair(st, b, a, price) = new
      BY <1>6 DEF FillPair, Take
    <2> HIDE DEF size
    <2>2. m \in L
      BY <1>3, <1>4, <1>6 DEF Legal
    <2>3. m.bid = b.id /\ m.ask = a.id /\ m.size = size
      OBVIOUS
    <2> HIDE DEF m, D, L
    <2>4. Take(st.rem, m) \in [D -> Nat]
      BY <1>1, <1>3, <1>4, <2>3, TakeKeeps
    <2>5. \E Q : Trace(D, base, Append(st.matches, m), Take(st.rem, m), Q)
      BY <1>1, <1>2, <1>3, <1>4, <2>2, <2>3, TraceGrows
    <2>6. Append(st.matches, m) \in Seq(L)
      BY <1>1, <2>2
    <2>7. new \in [rem : [D -> Nat], matches : Seq(L)]
      BY <2>4, <2>6
    <2>8. \E Q : Trace(D, base, new.matches, new.rem, Q)
      BY <2>5
    <2> HIDE DEF new
    <2> QED
      BY <2>1, <2>7, <2>8 DEF Filling, D, L
  <1> QED
    BY <1>5, <1>6

(* The inner loop: a bid against the asks.                                 *)
FillBid_(A, price, st, b) ==
    FoldLeft(LAMBDA s, ask : FillPair(s, b, ask, price), st, SortedSide("Sell", A))

(* The outer loop: all bids.                                               *)
FillBids(B, A, price, st) ==
    FoldLeft(LAMBDA s, bid : FillBid_(A, price, s, bid), st, SortedSide("Buy", B))

(* The inner loop, as a table of its steps.                                *)
Pairing(B, A, price, base, b) ==
    [p \in Filling(B, A, price, base) \X A |-> FillPair(p[1], b, p[2], price)]

(* One bid against the asks in turn.                                       *)
LEMMA FillBidWalks ==
    ASSUME NEW B, NEW A, TwoSides(B, A), NEW price, NEW base,
           NEW st \in Filling(B, A, price, base), NEW b \in B
    PROVE  \E w : /\ Walk(Filling(B, A, price, base), Pairing(B, A, price, base, b), st,
                          SortedSide("Sell", A), Cardinality(A), w)
                  /\ w[Cardinality(A)] = FillBid_(A, price, st, b)
  <1> DEFINE Acc == Filling(B, A, price, base)
             N == Cardinality(A)
             s == SortedSide("Sell", A)
             G == Pairing(B, A, price, base, b)
             step(r, x) == IF x = {} THEN st ELSE FillPair(r[x \ {Max(x)}], b, s[Max(x)], price)
             built == CHOOSE r : r = [x \in SUBSET (1..N) |-> step(r, x)]
  <1>1. G \in [Acc \X A -> Acc]
    <2>1. \A p \in Acc \X A : FillPair(p[1], b, p[2], price) \in Acc
      BY FillPairKeeps
    <2> HIDE DEF Acc
    <2> QED
      BY <2>1 DEF Pairing, Acc
  <1>2. N \in Nat /\ s \in [1..N -> A]
    BY SortedSideListsOrders DEF TwoSides
  <1> HIDE DEF s, N
  <1>3. PICK r : IsFold(Acc, G, st, s, N, r)
    <2> HIDE DEF G, Acc
    <2>1. st \in Acc
      BY DEF Acc
    <2> QED
      BY <1>1, <1>2, <2>1, FoldExists
  <1>4. /\ r \in [SUBSET (1..N) -> Acc]
        /\ \A x \in SUBSET (1..N) : r[x] = Folds_(G, st, s, r, x)
    BY <1>3 DEF IsFold
  <1>5. \A x \in SUBSET (1..N) : x # {} => Max(x) \in 1..N /\ x \ {Max(x)} \in SUBSET (1..N)
    <2> SUFFICES ASSUME NEW x \in SUBSET (1..N), x # {} PROVE Max(x) \in x
      OBVIOUS
    <2>1. x \in SUBSET (0..N)
      BY <1>2
    <2> QED
      BY <1>2, <2>1, MaxOfInitial
  <1>6. \A f : \A x \in SUBSET (1..N) : x # {} /\ f[x \ {Max(x)}] \in Acc =>
            step(f, x) = G[<<f[x \ {Max(x)}], s[Max(x)]>>]
    <2> SUFFICES ASSUME NEW f, NEW x \in SUBSET (1..N), x # {}, f[x \ {Max(x)}] \in Acc
                 PROVE  step(f, x) = G[<<f[x \ {Max(x)}], s[Max(x)]>>]
      OBVIOUS
    <2>1. <<f[x \ {Max(x)}], s[Max(x)]>> \in Acc \X A
      <3> HIDE DEF Acc
      <3> QED
        BY <1>2, <1>5
    <2>2. G = [p \in Acc \X A |-> FillPair(p[1], b, p[2], price)]
      BY DEF Pairing
    <2> HIDE DEF Acc, G
    <2> QED
      BY <2>1, <2>2
  <1>7. r = [x \in SUBSET (1..N) |-> step(r, x)]
    <2>1. r = [x \in SUBSET (1..N) |-> r[x]]
      BY <1>4
    <2>2. \A x \in SUBSET (1..N) : x = {} => r[x] = step(r, x)
      BY <1>4 DEF Folds_
    <2>3. \A x \in SUBSET (1..N) : x # {} => r[x] = step(r, x)
      <3> HIDE DEF step, G, Acc
      <3> QED
        BY <1>4, <1>5, <1>6 DEF Folds_
    <2> HIDE DEF step
    <2> QED
      BY <2>1, <2>2, <2>3
  <1>8. built = [x \in SUBSET (1..N) |-> step(built, x)]
    <2> HIDE DEF step
    <2> QED
      BY <1>7
  <1>9. FillBid_(A, price, st, b) = built[1..N]
    <2>1. DOMAIN s = 1..N
      BY <1>2
    <2> QED
      BY <2>1 DEF FoldLeft, MapThenFoldSet, s, FillBid_
  <1> HIDE DEF built
  <1>10. built[{}] = st
    BY <1>8
  <1> HIDE DEF step
  <1>11. \A x \in SUBSET (1..N) : built[x] = step(built, x)
    BY <1>8
  <1>12. Follows(Acc, G, st, s, N, built)
    <2> HIDE DEF G, Acc
    <2> QED
      BY <1>6, <1>10, <1>11 DEF Follows
  <1>13. built[1..N] = r[1..N]
    <2> HIDE DEF G, Acc
    <2> QED
      BY <1>2, <1>3, <1>12, FoldMeets
  <1>14. PICK w : Walk(Acc, G, st, s, N, w) /\ w[N] = r[1..N]
    <2> HIDE DEF G, Acc
    <2> QED
      BY <1>2, <1>3, FoldWalks
  <1> HIDE DEF G, Acc
  <1> QED
    BY <1>9, <1>13, <1>14 DEF G, Acc, s, N

(* One bid against all asks.                                               *)
LEMMA FillBidKeeps ==
    ASSUME NEW B, NEW A, TwoSides(B, A), NEW price, NEW base,
           NEW st \in Filling(B, A, price, base), NEW b \in B
    PROVE  FillBid_(A, price, st, b) \in Filling(B, A, price, base)
  <1>1. Cardinality(A) \in Nat
    BY SortedSideListsOrders DEF TwoSides
  <1> QED
    BY <1>1, FillBidWalks DEF Walk

(* The outer loop, as a table of its steps.                                *)
Bidding(B, A, price, base) ==
    [p \in Filling(B, A, price, base) \X B |-> FillBid_(A, price, p[1], p[2])]

(* All bids in turn.                                                       *)
LEMMA FillBidsWalk ==
    ASSUME NEW B, NEW A, TwoSides(B, A), NEW price, NEW base,
           NEW st \in Filling(B, A, price, base)
    PROVE  \E w : /\ Walk(Filling(B, A, price, base), Bidding(B, A, price, base), st,
                          SortedSide("Buy", B), Cardinality(B), w)
                  /\ w[Cardinality(B)] = FillBids(B, A, price, st)
  <1> DEFINE Acc == Filling(B, A, price, base)
             N == Cardinality(B)
             s == SortedSide("Buy", B)
             G == Bidding(B, A, price, base)
             step(r, x) == IF x = {} THEN st ELSE FillBid_(A, price, r[x \ {Max(x)}], s[Max(x)])
             built == CHOOSE r : r = [x \in SUBSET (1..N) |-> step(r, x)]
  <1>1. G \in [Acc \X B -> Acc]
    <2>1. \A p \in Acc \X B : FillBid_(A, price, p[1], p[2]) \in Acc
      BY FillBidKeeps
    <2> HIDE DEF Acc
    <2> QED
      BY <2>1 DEF Bidding, Acc
  <1>2. N \in Nat /\ s \in [1..N -> B]
    BY SortedSideListsOrders DEF TwoSides
  <1> HIDE DEF s, N
  <1>3. PICK r : IsFold(Acc, G, st, s, N, r)
    <2> HIDE DEF G, Acc
    <2>1. st \in Acc
      BY DEF Acc
    <2> QED
      BY <1>1, <1>2, <2>1, FoldExists
  <1>4. /\ r \in [SUBSET (1..N) -> Acc]
        /\ \A x \in SUBSET (1..N) : r[x] = Folds_(G, st, s, r, x)
    BY <1>3 DEF IsFold
  <1>5. \A x \in SUBSET (1..N) : x # {} => Max(x) \in 1..N /\ x \ {Max(x)} \in SUBSET (1..N)
    <2> SUFFICES ASSUME NEW x \in SUBSET (1..N), x # {} PROVE Max(x) \in x
      OBVIOUS
    <2>1. x \in SUBSET (0..N)
      BY <1>2
    <2> QED
      BY <1>2, <2>1, MaxOfInitial
  <1>6. \A f : \A x \in SUBSET (1..N) : x # {} /\ f[x \ {Max(x)}] \in Acc =>
            step(f, x) = G[<<f[x \ {Max(x)}], s[Max(x)]>>]
    <2> SUFFICES ASSUME NEW f, NEW x \in SUBSET (1..N), x # {}, f[x \ {Max(x)}] \in Acc
                 PROVE  step(f, x) = G[<<f[x \ {Max(x)}], s[Max(x)]>>]
      OBVIOUS
    <2>1. <<f[x \ {Max(x)}], s[Max(x)]>> \in Acc \X B
      <3> HIDE DEF Acc
      <3> QED
        BY <1>2, <1>5
    <2>2. G = [p \in Acc \X B |-> FillBid_(A, price, p[1], p[2])]
      BY DEF Bidding
    <2> HIDE DEF Acc, G
    <2> QED
      BY <2>1, <2>2
  <1>7. r = [x \in SUBSET (1..N) |-> step(r, x)]
    <2>1. r = [x \in SUBSET (1..N) |-> r[x]]
      BY <1>4
    <2>2. \A x \in SUBSET (1..N) : x = {} => r[x] = step(r, x)
      BY <1>4 DEF Folds_
    <2>3. \A x \in SUBSET (1..N) : x # {} => r[x] = step(r, x)
      <3> HIDE DEF step, G, Acc
      <3> QED
        BY <1>4, <1>5, <1>6 DEF Folds_
    <2> HIDE DEF step
    <2> QED
      BY <2>1, <2>2, <2>3
  <1>8. built = [x \in SUBSET (1..N) |-> step(built, x)]
    <2> HIDE DEF step
    <2> QED
      BY <1>7
  <1>9. FillBids(B, A, price, st) = built[1..N]
    <2>1. DOMAIN s = 1..N
      BY <1>2
    <2> QED
      BY <2>1 DEF FoldLeft, MapThenFoldSet, s, FillBids
  <1> HIDE DEF built
  <1>10. built[{}] = st
    BY <1>8
  <1> HIDE DEF step
  <1>11. \A x \in SUBSET (1..N) : built[x] = step(built, x)
    BY <1>8
  <1>12. Follows(Acc, G, st, s, N, built)
    <2> HIDE DEF G, Acc
    <2> QED
      BY <1>6, <1>10, <1>11 DEF Follows
  <1>13. built[1..N] = r[1..N]
    <2> HIDE DEF G, Acc
    <2> QED
      BY <1>2, <1>3, <1>12, FoldMeets
  <1>14. PICK w : Walk(Acc, G, st, s, N, w) /\ w[N] = r[1..N]
    <2> HIDE DEF G, Acc
    <2> QED
      BY <1>2, <1>3, FoldWalks
  <1> HIDE DEF G, Acc
  <1> QED
    BY <1>9, <1>13, <1>14 DEF G, Acc, s, N

(* All bids against all asks.                                              *)
LEMMA FillBidsKeep ==
    ASSUME NEW B, NEW A, TwoSides(B, A), NEW price, NEW base,
           NEW st \in Filling(B, A, price, base)
    PROVE  FillBids(B, A, price, st) \in Filling(B, A, price, base)
  <1>1. Cardinality(B) \in Nat
    BY SortedSideListsOrders DEF TwoSides
  <1> QED
    BY <1>1, FillBidsWalk DEF Walk

(* What is left of the eligible orders before the first fill.              *)
Offered(B, A) ==
    [i \in Ids(B) \cup Ids(A) |-> (CHOOSE o \in B \cup A : o.id = i).remaining]

(* The allocation starts with the sizes offered and no fills.              *)
Untouched(B, A) == [rem |-> Offered(B, A), matches |-> <<>>]

LEMMA GreedyStarts ==
    ASSUME NEW B, NEW A, TwoSides(B, A), NEW price
    PROVE  /\ Untouched(B, A) \in Filling(B, A, price, Offered(B, A))
           /\ GreedyFills(B, A, price) = FillBids(B, A, price, Untouched(B, A)).matches
  <1> DEFINE base == Offered(B, A)
             D == Ids(B) \cup Ids(A)
             st == [rem |-> base, matches |-> <<>>]
  <1>1. base \in [D -> Nat]
    <2>1. \A i \in D : \E o \in B \cup A : o.id = i
      BY DEF Ids
    <2>2. \A o \in B \cup A : o.remaining \in Nat
      BY DEF TwoSides, IsSide
    <2> QED
      BY <2>1, <2>2 DEF Offered
  <1>2. st \in Filling(B, A, price, base)
    <2> DEFINE Q == [i \in 0..0 |-> base]
    <2>1. Trace(D, base, <<>>, base, Q)
      BY <1>1 DEF Trace
    <2> HIDE DEF base, D, Q
    <2>2. <<>> \in Seq(Legal(B, A, price))
      OBVIOUS
    <2>3. st \in [rem : [D -> Nat], matches : Seq(Legal(B, A, price))]
      BY <1>1, <2>2
    <2>4. st.matches = <<>> /\ st.rem = base
      OBVIOUS
    <2> HIDE DEF st
    <2>5. \E R : Trace(D, base, st.matches, st.rem, R)
      BY <2>1, <2>4
    <2> QED
      BY <2>3, <2>5 DEF Filling, D
  <1>3. GreedyFills(B, A, price) = FillBids(B, A, price, st).matches
    <2>1. {o.id : o \in B \cup A} = Ids(B) \cup Ids(A)
      BY DEF Ids
    <2> QED
      BY <2>1 DEF GreedyFills, FillBids, FillBid_, Offered
  <1> QED
    BY <1>2, <1>3 DEF Untouched

(* The fills of the greedy allocation are legal and none takes more than   *)
(* its orders have left.                                                   *)
LEMMA GreedyFillsLegal ==
    ASSUME NEW B, NEW A, TwoSides(B, A), NEW price
    PROVE  \E rem, R : /\ GreedyFills(B, A, price) \in Seq(Legal(B, A, price))
                       /\ Trace(Ids(B) \cup Ids(A), Offered(B, A), GreedyFills(B, A, price), rem, R)
  <1> DEFINE base == Offered(B, A)
             D == Ids(B) \cup Ids(A)
             ms == GreedyFills(B, A, price)
             fin == FillBids(B, A, price, Untouched(B, A))
  <1>1. fin \in Filling(B, A, price, base) /\ ms = fin.matches
    BY GreedyStarts, FillBidsKeep
  <1> HIDE DEF fin, ms, base
  <1>2. ms \in Seq(Legal(B, A, price)) /\ \E R : Trace(D, base, ms, fin.rem, R)
    BY <1>1 DEF Filling
  <1> QED
    BY <1>2 DEF ms, base

(* The orders a clearing price lets take part.                             *)
Bidders(buys, price) == {b \in buys : b.price >= price /\ b.remaining > 0}
Askers(sells, price) == {a \in sells : a.price <= price /\ a.remaining > 0}

(* A round whose fills are legal at its price and within the sizes.        *)
RoundOK(buys, sells, result) ==
    LET B == Bidders(buys, result.price)
        A == Askers(sells, result.price)
    IN  /\ TwoSides(B, A)
        /\ result.matches \in Seq(Legal(B, A, result.price))
        /\ \E rem, R : Trace(Ids(B) \cup Ids(A), Offered(B, A), result.matches, rem, R)

LEMMA SideSubset ==
    ASSUME NEW S, IsSide(S), NEW T \in SUBSET S
    PROVE  IsSide(T)
  <1>1. IsFiniteSet(T)
    BY FS_Subset DEF IsSide
  <1> QED
    BY <1>1 DEF IsSide

(* Every round the auction returns is one.                                 *)
LEMMA RunIsLegal ==
    ASSUME NEW buys, NEW sells, TwoSides(buys, sells), run(buys, sells) # NoAuction
    PROVE  RoundOK(buys, sells, run(buys, sells))
  <1> DEFINE price == compute_clearing_price(buys, sells)
             B == Bidders(buys, price)
             A == Askers(sells, price)
             ms == GreedyFills(B, A, price)
  <1>1. match_orders(buys, sells, price) = ms
    BY DEF match_orders, Bidders, Askers
  <1>2. run(buys, sells) = [price |-> price, matches |-> ms]
    <2> HIDE DEF ms, price
    <2> QED
      BY <1>1 DEF run, price
  <1> HIDE DEF price
  <1>3. TwoSides(B, A)
    <2>1. B \in SUBSET buys /\ A \in SUBSET sells
      BY DEF Bidders, Askers
    <2>2. IsSide(B) /\ IsSide(A)
      BY <2>1, SideSubset DEF TwoSides
    <2> QED
      BY <2>1, <2>2 DEF TwoSides
  <1> HIDE DEF B, A
  <1>4. PICK rem, R : /\ ms \in Seq(Legal(B, A, price))
                      /\ Trace(Ids(B) \cup Ids(A), Offered(B, A), ms, rem, R)
    BY <1>3, GreedyFillsLegal
  <1>5. run(buys, sells).price = price /\ run(buys, sells).matches = ms
    <2> HIDE DEF ms
    <2> QED
      BY <1>2
  <1> HIDE DEF ms
  <1> QED
    BY <1>3, <1>4, <1>5 DEF RoundOK, B, A

-----------------------------------------------------------------------------
(* Who the greedy allocation serves.                                       *)

(* The orders of a side have ids of their own.                             *)
Named(S) == \A o, p \in S : o.id = p.id => o = p

(* An order that was given something comes after none of its side that has *)
(* something left, unless self-trade prevention may have held that one up. *)
Prior(side, S, Other, base, rem) ==
    \A o, worse \in S : Better(side, o, worse) /\ rem[worse.id] < base[worse.id] =>
        rem[o.id] = 0 \/ \E c \in Other : c.trader = o.trader

(* No pair of P that may trade has something left on both sides.           *)
Spent(P, rem) ==
    \A p \in P : p[1].trader # p[2].trader => rem[p[1].id] = 0 \/ rem[p[2].id] = 0

(* The state of the allocation once the pairs P have been gone through.    *)
Served(B, A, base, rem, P) ==
    /\ Spent(P, rem)
    /\ Prior("Buy", B, A, base, rem)
    /\ Prior("Sell", A, B, base, rem)

(* One step of the inner loop, the pairs before it done.                   *)
LEMMA PairServes ==
    ASSUME NEW B, NEW A, TwoSides(B, A), Named(B), Named(A), NEW price, NEW base,
           NEW st \in Filling(B, A, price, base), NEW b \in B, NEW a \in A,
           NEW P \in SUBSET (B \X A), Served(B, A, base, st.rem, P),
           \A o \in B : Better("Buy", o, b) => <<o, a>> \in P,
           \A o \in A : Better("Sell", o, a) => <<b, o>> \in P
    PROVE  Served(B, A, base, FillPair(st, b, a, price).rem, P \cup {<<b, a>>})
  <1> DEFINE D == Ids(B) \cup Ids(A)
             rem == st.rem
             new == FillPair(st, b, a, price).rem
             size == Lesser(rem[b.id], rem[a.id])
  <1>1. rem \in [D -> Nat]
    BY DEF Filling
  <1>2. /\ \A o \in B : o.id \in D
        /\ \A o \in A : o.id \in D
        /\ b.id # a.id
        /\ \A o \in B : o.id # a.id /\ (o.id = b.id => o = b)
        /\ \A o \in A : o.id # b.id /\ (o.id = a.id => o = a)
    BY DEF Ids, TwoSides, Named
  <1>3. CASE size = 0 \/ b.trader = a.trader
    <2>1. new = rem
      BY <1>3 DEF FillPair
    <2>2. b.trader # a.trader => rem[b.id] = 0 \/ rem[a.id] = 0
      BY <1>1, <1>2, <1>3 DEF Lesser
    <2>3. Spent(P \cup {<<b, a>>}, rem)
      BY <2>2 DEF Served, Spent
    <2> QED
      BY <2>1, <2>3 DEF Served
  <1>4. CASE ~(size = 0 \/ b.trader = a.trader)
    <2>1. new = [rem EXCEPT ![b.id] = @ - size, ![a.id] = @ - size]
      BY <1>4 DEF FillPair
    <2>2. /\ size \in Nat \ {0} /\ size <= rem[b.id] /\ size <= rem[a.id]
          /\ size = rem[b.id] \/ size = rem[a.id]
          /\ rem[b.id] \in Nat /\ rem[a.id] \in Nat
      BY <1>1, <1>2, <1>4 DEF Lesser
    <2> HIDE DEF size
    <2>3. /\ new[b.id] = rem[b.id] - size /\ new[a.id] = rem[a.id] - size
          /\ \A i \in D \ {b.id, a.id} : new[i] = rem[i]
      BY <1>1, <1>2, <2>1
    <2> HIDE DEF new, D
    <2>4. new[b.id] = 0 \/ new[a.id] = 0
      BY <2>2, <2>3
    <2>5. rem[b.id] # 0 /\ rem[a.id] # 0
      BY <2>2
    <2>6. \A o \in B \cup A : rem[o.id] = 0 => new[o.id] = 0
      BY <1>2, <2>3, <2>5
    <2>7. Spent(P \cup {<<b, a>>}, new)
      <3>1. \A p \in P : p[1] \in B /\ p[2] \in A
        OBVIOUS
      <3> QED
        BY <2>4, <2>6, <3>1 DEF Served, Spent
    <2>8. Prior("Buy", B, A, base, new)
      <3> SUFFICES ASSUME NEW o \in B, NEW w \in B, Better("Buy", o, w), new[w.id] < base[w.id],
                          ~\E c \in A : c.trader = o.trader
                   PROVE  new[o.id] = 0
        BY DEF Prior
      <3>1. CASE w = b
        <4>1. rem[o.id] = 0 \/ rem[a.id] = 0
          <5>1. <<o, a>> \in P /\ o.trader # a.trader
            BY <3>1
          <5> QED
            BY <5>1 DEF Served, Spent
        <4> QED
          BY <2>5, <2>6, <4>1
      <3>2. CASE w # b
        <4>1. new[w.id] = rem[w.id]
          BY <1>2, <2>3, <3>2
        <4>2. rem[o.id] = 0
          BY <4>1 DEF Served, Prior
        <4> QED
          BY <2>6, <4>2
      <3> QED
        BY <3>1, <3>2
    <2>9. Prior("Sell", A, B, base, new)
      <3> SUFFICES ASSUME NEW o \in A, NEW w \in A, Better("Sell", o, w), new[w.id] < base[w.id],
                          ~\E c \in B : c.trader = o.trader
                   PROVE  new[o.id] = 0
        BY DEF Prior
      <3>1. CASE w = a
        <4>1. rem[b.id] = 0 \/ rem[o.id] = 0
          <5>1. <<b, o>> \in P /\ b.trader # o.trader
            BY <3>1
          <5> QED
            BY <5>1 DEF Served, Spent
        <4> QED
          BY <2>5, <2>6, <4>1
      <3>2. CASE w # a
        <4>1. new[w.id] = rem[w.id]
          BY <1>2, <2>3, <3>2
        <4>2. rem[o.id] = 0
          BY <4>1 DEF Served, Prior
        <4> QED
          BY <2>6, <4>2
      <3> QED
        BY <3>1, <3>2
    <2> QED
      BY <2>7, <2>8, <2>9 DEF Served, new
  <1> QED
    BY <1>3, <1>4

(* The inner loop: a bid against the asks, the better bids done.           *)
LEMMA BidServes ==
    ASSUME NEW B, NEW A, TwoSides(B, A), Named(B), Named(A), NEW price, NEW base,
           NEW st \in Filling(B, A, price, base), NEW b \in B,
           NEW P \in SUBSET (B \X A), Served(B, A, base, st.rem, P),
           \A o \in B : Better("Buy", o, b) => \A a \in A : <<o, a>> \in P
    PROVE  Served(B, A, base, FillBid_(A, price, st, b).rem, P \cup ({b} \X A))
  <1> DEFINE Acc == Filling(B, A, price, base)
             s == SortedSide("Sell", A)
             N == Cardinality(A)
             Q(j) == P \cup {<<b, s[k]>> : k \in 1..j}
  <1>1. PICK w : /\ Walk(Acc, Pairing(B, A, price, base, b), st, s, N, w)
                 /\ w[N] = FillBid_(A, price, st, b)
    BY FillBidWalks
  <1>2. /\ N \in Nat /\ s \in [1..N -> A]
        /\ \A o \in A : \E i \in 1..N : s[i] = o
        /\ \A i \in 1..N, o \in A : Better("Sell", o, s[i]) => \E k \in 1..(i - 1) : s[k] = o
    BY SortedSideRanks DEF TwoSides
  <1> HIDE DEF s, N
  <1>3. /\ w[0] = st
        /\ \A j \in 0..N : w[j] \in Acc
        /\ \A j \in 1..N : w[j] = FillPair(w[j - 1], b, s[j], price)
    <2>1. /\ w[0] = st
          /\ \A j \in 0..N : w[j] \in Acc
          /\ \A j \in 1..N : w[j] = Pairing(B, A, price, base, b)[<<w[j - 1], s[j]>>]
      BY <1>1 DEF Walk
    <2>2. \A j \in 1..N : <<w[j - 1], s[j]>> \in Acc \X A
      <3> HIDE DEF Acc
      <3>1. \A j \in 1..N : j - 1 \in 0..N
        BY <1>2
      <3> QED
        BY <1>2, <2>1, <3>1
    <2> QED
      BY <2>1, <2>2 DEF Pairing
  <1> DEFINE S == {j \in Nat : j <= N => Served(B, A, base, w[j].rem, Q(j))}
  <1>4. 0 \in S
    <2>1. Q(0) = P
      OBVIOUS
    <2> HIDE DEF Q
    <2> QED
      BY <1>3, <2>1
  <1>5. ASSUME NEW j \in Nat, j \in S PROVE j + 1 \in S
    <2> SUFFICES ASSUME j + 1 <= N PROVE Served(B, A, base, w[j + 1].rem, Q(j + 1))
      OBVIOUS
    <2>1. j \in 0..N /\ j + 1 \in 1..N /\ (j + 1) - 1 = j /\ j <= N
      BY <1>2
    <2>2. w[j] \in Acc /\ w[j + 1] = FillPair(w[j], b, s[j + 1], price) /\ s[j + 1] \in A
      BY <1>2, <1>3, <2>1
    <2>3. Served(B, A, base, w[j].rem, Q(j))
      BY <1>5, <2>1
    <2>4. Q(j) \in SUBSET (B \X A)
      BY <1>2, <2>1
    <2>5. Q(j + 1) = Q(j) \cup {<<b, s[j + 1]>>}
      <3>1. \A k : k \in 1..(j + 1) <=> k \in 1..j \/ k = j + 1
        OBVIOUS
      <3> QED
        BY <3>1
    <2>6. \A o \in B : Better("Buy", o, b) => <<o, s[j + 1]>> \in Q(j)
      BY <2>2
    <2>7. \A o \in A : Better("Sell", o, s[j + 1]) => <<b, o>> \in Q(j)
      BY <1>2, <2>1
    <2> HIDE DEF Q, Acc
    <2>8. Served(B, A, base, FillPair(w[j], b, s[j + 1], price).rem, Q(j) \cup {<<b, s[j + 1]>>})
      BY <2>2, <2>3, <2>4, <2>6, <2>7, PairServes DEF Acc
    <2> QED
      BY <2>2, <2>5, <2>8
  <1>6. Q(N) = P \cup ({b} \X A)
    BY <1>2
  <1> HIDE DEF S, Q
  <1>7. N \in S
    BY <1>2, <1>4, <1>5, SetInduction
  <1>8. Served(B, A, base, w[N].rem, Q(N))
    BY <1>2, <1>7 DEF S
  <1> QED
    BY <1>1, <1>6, <1>8

(* The outer loop: all pairs done.                                         *)
LEMMA BidsServe ==
    ASSUME NEW B, NEW A, TwoSides(B, A), Named(B), Named(A), NEW price, NEW base,
           NEW st \in Filling(B, A, price, base), st.rem = base
    PROVE  Served(B, A, base, FillBids(B, A, price, st).rem, B \X A)
  <1> DEFINE Acc == Filling(B, A, price, base)
             s == SortedSide("Buy", B)
             N == Cardinality(B)
             Q(j) == {s[k] : k \in 1..j} \X A
  <1>1. PICK w : /\ Walk(Acc, Bidding(B, A, price, base), st, s, N, w)
                 /\ w[N] = FillBids(B, A, price, st)
    BY FillBidsWalk
  <1>2. /\ N \in Nat /\ s \in [1..N -> B]
        /\ \A o \in B : \E i \in 1..N : s[i] = o
        /\ \A i \in 1..N, o \in B : Better("Buy", o, s[i]) => \E k \in 1..(i - 1) : s[k] = o
    BY SortedSideRanks DEF TwoSides
  <1> HIDE DEF s, N
  <1>3. /\ w[0] = st
        /\ \A j \in 0..N : w[j] \in Acc
        /\ \A j \in 1..N : w[j] = FillBid_(A, price, w[j - 1], s[j])
    <2>1. /\ w[0] = st
          /\ \A j \in 0..N : w[j] \in Acc
          /\ \A j \in 1..N : w[j] = Bidding(B, A, price, base)[<<w[j - 1], s[j]>>]
      BY <1>1 DEF Walk
    <2>2. \A j \in 1..N : <<w[j - 1], s[j]>> \in Acc \X B
      <3> HIDE DEF Acc
      <3>1. \A j \in 1..N : j - 1 \in 0..N
        BY <1>2
      <3> QED
        BY <1>2, <2>1, <3>1
    <2> QED
      BY <2>1, <2>2 DEF Bidding
  <1> DEFINE S == {j \in Nat : j <= N => Served(B, A, base, w[j].rem, Q(j))}
  <1>4. 0 \in S
    <2>1. Q(0) = {}
      OBVIOUS
    <2> HIDE DEF Q
    <2>2. Spent({}, base)
      BY DEF Spent
    <2>3. \A i \in Ids(B) \cup Ids(A) : base[i] \in Nat
      BY DEF Filling
    <2>4. (\A o \in B : base[o.id] \in Nat) /\ (\A o \in A : base[o.id] \in Nat)
      BY <2>3 DEF Ids
    <2>5. Prior("Buy", B, A, base, base) /\ Prior("Sell", A, B, base, base)
      BY <2>4 DEF Prior
    <2>6. Served(B, A, base, w[0].rem, Q(0))
      BY <1>3, <2>1, <2>2, <2>5 DEF Served
    <2> QED
      BY <2>6
  <1>5. ASSUME NEW j \in Nat, j \in S PROVE j + 1 \in S
    <2> SUFFICES ASSUME j + 1 <= N PROVE Served(B, A, base, w[j + 1].rem, Q(j + 1))
      OBVIOUS
    <2>1. j \in 0..N /\ j + 1 \in 1..N /\ (j + 1) - 1 = j /\ j <= N
      BY <1>2
    <2>2. w[j] \in Acc /\ w[j + 1] = FillBid_(A, price, w[j], s[j + 1]) /\ s[j + 1] \in B
      BY <1>2, <1>3, <2>1
    <2>3. Served(B, A, base, w[j].rem, Q(j))
      BY <1>5, <2>1
    <2>4. Q(j) \in SUBSET (B \X A)
      BY <1>2, <2>1
    <2>5. Q(j + 1) = Q(j) \cup ({s[j + 1]} \X A)
      <3>1. \A k : k \in 1..(j + 1) <=> k \in 1..j \/ k = j + 1
        OBVIOUS
      <3> QED
        BY <3>1
    <2>6. \A o \in B : Better("Buy", o, s[j + 1]) => \A a \in A : <<o, a>> \in Q(j)
      BY <1>2, <2>1
    <2> HIDE DEF Q, Acc
    <2>7. Served(B, A, base, FillBid_(A, price, w[j], s[j + 1]).rem, Q(j) \cup ({s[j + 1]} \X A))
      BY <2>2, <2>3, <2>4, <2>6, BidServes DEF Acc
    <2> QED
      BY <2>2, <2>5, <2>7
  <1>6. Q(N) = B \X A
    BY <1>2
  <1> HIDE DEF S, Q
  <1>7. N \in S
    BY <1>2, <1>4, <1>5, SetInduction
  <1>8. Served(B, A, base, w[N].rem, Q(N))
    BY <1>2, <1>7 DEF S
  <1> QED
    BY <1>1, <1>6, <1>8

(* The outcome of the allocation: what it leaves, and whom it served.      *)
LEMMA GreedyFillsServe ==
    ASSUME NEW B, NEW A, TwoSides(B, A), Named(B), Named(A), NEW price
    PROVE  \E rem, R :
                /\ GreedyFills(B, A, price) \in Seq(Legal(B, A, price))
                /\ Trace(Ids(B) \cup Ids(A), Offered(B, A), GreedyFills(B, A, price), rem, R)
                /\ Served(B, A, Offered(B, A), rem, B \X A)
  <1> DEFINE base == Offered(B, A)
             D == Ids(B) \cup Ids(A)
             ms == GreedyFills(B, A, price)
             st == Untouched(B, A)
             fin == FillBids(B, A, price, st)
  <1>1. fin \in Filling(B, A, price, base) /\ ms = fin.matches
    BY GreedyStarts, FillBidsKeep
  <1>2. st \in Filling(B, A, price, base) /\ st.rem = base
    BY GreedyStarts DEF Untouched
  <1> HIDE DEF st, ms, base
  <1>3. Served(B, A, base, fin.rem, B \X A)
    BY <1>2, BidsServe
  <1> HIDE DEF fin
  <1>4. ms \in Seq(Legal(B, A, price)) /\ \E R : Trace(D, base, ms, fin.rem, R)
    BY <1>1 DEF Filling
  <1> QED
    BY <1>3, <1>4 DEF ms, base

-----------------------------------------------------------------------------
(* What the fills add up to.                                               *)

(* The fills ms are legal for B and A, R is their trace.                   *)
Fills(B, A, price, ms, rem, R) ==
    /\ TwoSides(B, A) /\ Named(B) /\ Named(A)
    /\ ms \in Seq(Legal(B, A, price))
    /\ Trace(Ids(B) \cup Ids(A), Offered(B, A), ms, rem, R)

(* The fold behind Filled, one fill after the other.                       *)
FillsUpTo(ms, i, f) ==
    /\ f[0] = 0 /\ f[Len(ms)] = Filled(ms, i)
    /\ \A k \in 0..Len(ms) : f[k] \in Nat
    /\ \A k \in 1..Len(ms) :
            f[k] = IF i \in {ms[k].bid, ms[k].ask} THEN f[k - 1] + ms[k].size ELSE f[k - 1]

LEMMA FilledUnfolds ==
    ASSUME NEW L, \A m \in L : m.size \in Nat, NEW ms \in Seq(L), NEW i
    PROVE  \E f : FillsUpTo(ms, i, f)
  <1> DEFINE N == Len(ms)
             Op(sum, m) == IF i \in {m.bid, m.ask} THEN sum + m.size ELSE sum
             G == [p \in Nat \X L |-> Op(p[1], p[2])]
             step(r, x) == IF x = {} THEN 0 ELSE Op(r[x \ {Max(x)}], ms[Max(x)])
             built == CHOOSE r : r = [x \in SUBSET (1..N) |-> step(r, x)]
  <1>1. G \in [Nat \X L -> Nat]
    <2>1. \A p \in Nat \X L : p[1] \in Nat /\ p[2] \in L
      OBVIOUS
    <2>2. \A n \in Nat, m \in L : Op(n, m) \in Nat
      OBVIOUS
    <2> HIDE DEF Op
    <2> QED
      BY <2>1, <2>2
  <1>2. N \in Nat /\ ms \in [1..N -> L] /\ 0 \in Nat
    OBVIOUS
  <1> HIDE DEF N
  <1>3. PICK r : IsFold(Nat, G, 0, ms, N, r)
    <2> HIDE DEF G
    <2> QED
      BY <1>1, <1>2, FoldExists
  <1>4. /\ r \in [SUBSET (1..N) -> Nat]
        /\ \A x \in SUBSET (1..N) : r[x] = Folds_(G, 0, ms, r, x)
    BY <1>3 DEF IsFold
  <1>5. \A x \in SUBSET (1..N) : x # {} => Max(x) \in 1..N /\ x \ {Max(x)} \in SUBSET (1..N)
    <2> SUFFICES ASSUME NEW x \in SUBSET (1..N), x # {} PROVE Max(x) \in x
      OBVIOUS
    <2>1. x \in SUBSET (0..N)
      BY <1>2
    <2> QED
      BY <1>2, <2>1, MaxOfInitial
  <1>6. \A n \in Nat, m \in L : G[<<n, m>>] = Op(n, m)
    <2> HIDE DEF Op
    <2> QED
      OBVIOUS
  <1> HIDE DEF G
  <1>7. \A f : \A x \in SUBSET (1..N) : x # {} /\ f[x \ {Max(x)}] \in Nat =>
            step(f, x) = G[<<f[x \ {Max(x)}], ms[Max(x)]>>]
    <2> HIDE DEF Op
    <2> QED
      BY <1>2, <1>5, <1>6
  <1>8. r = [x \in SUBSET (1..N) |-> step(r, x)]
    <2>1. r = [x \in SUBSET (1..N) |-> r[x]]
      BY <1>4
    <2>2. \A x \in SUBSET (1..N) : x = {} => r[x] = step(r, x)
      BY <1>4 DEF Folds_
    <2>3. \A x \in SUBSET (1..N) : x # {} => r[x] = step(r, x)
      <3> HIDE DEF step
      <3> QED
        BY <1>4, <1>5, <1>7 DEF Folds_
    <2> HIDE DEF step
    <2> QED
      BY <2>1, <2>2, <2>3
  <1>9. built = [x \in SUBSET (1..N) |-> step(built, x)]
    <2> HIDE DEF step
    <2> QED
      BY <1>8
  <1>10. Filled(ms, i) = built[1..N]
    <2>1. DOMAIN ms = 1..N
      BY <1>2
    <2> QED
      BY <2>1 DEF FoldLeft, MapThenFoldSet, Filled
  <1> HIDE DEF built
  <1>11. built[{}] = 0
    BY <1>9
  <1> HIDE DEF step
  <1>12. Follows(Nat, G, 0, ms, N, built)
    BY <1>7, <1>9, <1>11 DEF Follows
  <1>13. built[1..N] = r[1..N]
    BY <1>2, <1>3, <1>12, FoldMeets
  <1>14. PICK w : Walk(Nat, G, 0, ms, N, w) /\ w[N] = r[1..N]
    BY <1>2, <1>3, FoldWalks
  <1>15. \A k \in 1..N : w[k] = Op(w[k - 1], ms[k])
    <2> SUFFICES ASSUME NEW k \in 1..N PROVE w[k] = Op(w[k - 1], ms[k])
      OBVIOUS
    <2>1. k - 1 \in 0..N /\ ms[k] \in L
      BY <1>2
    <2>2. w[k] = G[<<w[k - 1], ms[k]>>] /\ w[k - 1] \in Nat
      BY <1>14, <2>1 DEF Walk
    <2> HIDE DEF Op
    <2> QED
      BY <1>6, <2>1, <2>2
  <1>16. FillsUpTo(ms, i, w)
    BY <1>10, <1>13, <1>14, <1>15 DEF FillsUpTo, Walk, N
  <1> QED
    BY <1>16

(* The volume of the fills, likewise.                                      *)
Volume(ms) == FoldLeft(LAMBDA sum, m : sum + m.size, 0, ms)

VolumeUpTo(ms, f) ==
    /\ f[0] = 0 /\ f[Len(ms)] = Volume(ms)
    /\ \A k \in 0..Len(ms) : f[k] \in Nat
    /\ \A k \in 1..Len(ms) : f[k] = f[k - 1] + ms[k].size

LEMMA VolumeUnfolds ==
    ASSUME NEW L, \A m \in L : m.size \in Nat, NEW ms \in Seq(L)
    PROVE  \E f : VolumeUpTo(ms, f)
  <1> DEFINE N == Len(ms)
             Op(sum, m) == sum + m.size
             G == [p \in Nat \X L |-> Op(p[1], p[2])]
             step(r, x) == IF x = {} THEN 0 ELSE Op(r[x \ {Max(x)}], ms[Max(x)])
             built == CHOOSE r : r = [x \in SUBSET (1..N) |-> step(r, x)]
  <1>1. G \in [Nat \X L -> Nat]
    <2>1. \A p \in Nat \X L : p[1] \in Nat /\ p[2] \in L
      OBVIOUS
    <2>2. \A n \in Nat, m \in L : Op(n, m) \in Nat
      OBVIOUS
    <2> HIDE DEF Op
    <2> QED
      BY <2>1, <2>2
  <1>2. N \in Nat /\ ms \in [1..N -> L] /\ 0 \in Nat
    OBVIOUS
  <1> HIDE DEF N
  <1>3. PICK r : IsFold(Nat, G, 0, ms, N, r)
    <2> HIDE DEF G
    <2> QED
      BY <1>1, <1>2, FoldExists
  <1>4. /\ r \in [SUBSET (1..N) -> Nat]
        /\ \A x \in SUBSET (1..N) : r[x] = Folds_(G, 0, ms, r, x)
    BY <1>3 DEF IsFold
  <1>5. \A x \in SUBSET (1..N) : x # {} => Max(x) \in 1..N /\ x \ {Max(x)} \in SUBSET (1..N)
    <2> SUFFICES ASSUME NEW x \in SUBSET (1..N), x # {} PROVE Max(x) \in x
      OBVIOUS
    <2>1. x \in SUBSET (0..N)
      BY <1>2
    <2> QED
      BY <1>2, <2>1, MaxOfInitial
  <1>6. \A n \in Nat, m \in L : G[<<n, m>>] = Op(n, m)
    <2> HIDE DEF Op
    <2> QED
      OBVIOUS
  <1> HIDE DEF G
  <1>7. \A f : \A x \in SUBSET (1..N) : x # {} /\ f[x \ {Max(x)}] \in Nat =>
            step(f, x) = G[<<f[x \ {Max(x)}], ms[Max(x)]>>]
    <2> HIDE DEF Op
    <2> QED
      BY <1>2, <1>5, <1>6
  <1>8. r = [x \in SUBSET (1..N) |-> step(r, x)]
    <2>1. r = [x \in SUBSET (1..N) |-> r[x]]
      BY <1>4
    <2>2. \A x \in SUBSET (1..N) : x = {} => r[x] = step(r, x)
      BY <1>4 DEF Folds_
    <2>3. \A x \in SUBSET (1..N) : x # {} => r[x] = step(r, x)
      <3> HIDE DEF step
      <3> QED
        BY <1>4, <1>5, <1>7 DEF Folds_
    <2> HIDE DEF step
    <2> QED
      BY <2>1, <2>2, <2>3
  <1>9. built = [x \in SUBSET (1..N) |-> step(built, x)]
    <2> HIDE DEF step
    <2> QED
      BY <1>8
  <1>10. Volume(ms) = built[1..N]
    <2>1. DOMAIN ms = 1..N
      BY <1>2
    <2> QED
      BY <2>1 DEF FoldLeft, MapThenFoldSet, Volume
  <1> HIDE DEF built
  <1>11. built[{}] = 0
    BY <1>9
  <1> HIDE DEF step
  <1>12. Follows(Nat, G, 0, ms, N, built)
    BY <1>7, <1>9, <1>11 DEF Follows
  <1>13. built[1..N] = r[1..N]
    BY <1>2, <1>3, <1>12, FoldMeets
  <1>14. PICK w : Walk(Nat, G, 0, ms, N, w) /\ w[N] = r[1..N]
    BY <1>2, <1>3, FoldWalks
  <1>15. \A k \in 1..N : w[k] = Op(w[k - 1], ms[k])
    <2> SUFFICES ASSUME NEW k \in 1..N PROVE w[k] = Op(w[k - 1], ms[k])
      OBVIOUS
    <2>1. k - 1 \in 0..N /\ ms[k] \in L
      BY <1>2
    <2>2. w[k] = G[<<w[k - 1], ms[k]>>] /\ w[k - 1] \in Nat
      BY <1>14, <2>1 DEF Walk
    <2> HIDE DEF Op
    <2> QED
      BY <1>6, <2>1, <2>2
  <1>16. VolumeUpTo(ms, w)
    BY <1>10, <1>13, <1>14, <1>15 DEF VolumeUpTo, Walk, N
  <1> QED
    BY <1>16

(* A fill m of one order of each side takes old to new.                    *)
Changes(B, A, m, old, new) ==
    /\ m.bid \in Ids(B) /\ m.ask \in Ids(A) /\ m.bid # m.ask
    /\ m.bid \notin Ids(A) /\ m.ask \notin Ids(B)
    /\ m.size \in Nat
    /\ old \in [Ids(B) \cup Ids(A) -> Nat]
    /\ m.size <= old[m.bid] /\ m.size <= old[m.ask]
    /\ new[m.bid] = old[m.bid] - m.size
    /\ new[m.ask] = old[m.ask] - m.size
    /\ \A i \in (Ids(B) \cup Ids(A)) \ {m.bid, m.ask} : new[i] = old[i]

(* Every fill of a trace does.                                             *)
LEMMA LegalTakes ==
    ASSUME NEW B, NEW A, NEW price, NEW ms, NEW rem, NEW R, Fills(B, A, price, ms, rem, R),
           NEW k \in 1..Len(ms)
    PROVE  Changes(B, A, ms[k], R[k - 1], R[k])
  <1> DEFINE D == Ids(B) \cup Ids(A)
             m == ms[k]
  <1>1. m \in Legal(B, A, price)
    <2>1. ms \in Seq(Legal(B, A, price))
      BY DEF Fills
    <2> QED
      BY <2>1
  <1>2. m.bid \in Ids(B) /\ m.ask \in Ids(A) /\ m.size \in Nat
    BY <1>1 DEF Legal
  <1>3. \A x \in Ids(B), y \in Ids(A) : x # y
    BY DEF Fills, TwoSides, Ids
  <1>4. k - 1 \in 0..Len(ms)
    OBVIOUS
  <1>5. /\ R[k - 1] \in [D -> Nat] /\ R[k] = Take(R[k - 1], m)
        /\ m.size <= R[k - 1][m.bid] /\ m.size <= R[k - 1][m.ask]
    BY <1>4 DEF Fills, Trace
  <1> HIDE DEF m
  <1>6. m.bid \in D /\ m.ask \in D /\ m.bid # m.ask /\ m.bid \notin Ids(A) /\ m.ask \notin Ids(B)
    BY <1>2, <1>3
  <1> HIDE DEF D
  <1>7. /\ R[k][m.bid] = R[k - 1][m.bid] - m.size
        /\ R[k][m.ask] = R[k - 1][m.ask] - m.size
        /\ \A i \in D \ {m.bid, m.ask} : R[k][i] = R[k - 1][i]
    BY <1>2, <1>5, <1>6 DEF Take
  <1> QED
    BY <1>2, <1>5, <1>6, <1>7 DEF m, D, Changes

(* What is offered of an order is what it has left.                        *)
LEMMA OfferedIsRemaining ==
    ASSUME NEW B, NEW A, TwoSides(B, A), Named(B), Named(A)
    PROVE  \A o \in B \cup A : /\ o.id \in Ids(B) \cup Ids(A)
                               /\ Offered(B, A)[o.id] = o.remaining /\ o.remaining \in Nat
  <1> SUFFICES ASSUME NEW o \in B \cup A
               PROVE  /\ o.id \in Ids(B) \cup Ids(A)
                      /\ Offered(B, A)[o.id] = o.remaining /\ o.remaining \in Nat
    OBVIOUS
  <1>1. o.id \in Ids(B) \cup Ids(A) /\ o.remaining \in Nat
    BY DEF Ids, TwoSides, IsSide
  <1>2. \A p \in B \cup A : p.id = o.id => p = o
    BY DEF TwoSides, Named
  <1>3. (CHOOSE p \in B \cup A : p.id = o.id) = o
    BY <1>2
  <1> QED
    BY <1>1, <1>3 DEF Offered

(* The fills take from each order what the trace takes.                    *)
LEMMA FilledIsTaken ==
    ASSUME NEW B, NEW A, NEW price, NEW ms, NEW rem, NEW R, Fills(B, A, price, ms, rem, R), NEW i
    PROVE  /\ Filled(ms, i) \in Nat
           /\ i \in Ids(B) \cup Ids(A) =>
                rem[i] \in Nat /\ Filled(ms, i) = Offered(B, A)[i] - rem[i]
           /\ i \notin Ids(B) \cup Ids(A) => Filled(ms, i) = 0
  <1> DEFINE D == Ids(B) \cup Ids(A)
             base == Offered(B, A)
             N == Len(ms)
             L == Legal(B, A, price)
  <1>1. ms \in Seq(L) /\ N \in Nat
    BY DEF Fills
  <1>2. PICK f : FillsUpTo(ms, i, f)
    <2>1. \A m \in L : m.size \in Nat
      BY DEF Legal
    <2> HIDE DEF L
    <2> QED
      BY <1>1, <2>1, FilledUnfolds
  <1>3. /\ f[0] = 0 /\ f[N] = Filled(ms, i)
        /\ \A k \in 0..N : f[k] \in Nat
        /\ \A k \in 1..N :
            f[k] = IF i \in {ms[k].bid, ms[k].ask} THEN f[k - 1] + ms[k].size ELSE f[k - 1]
    BY <1>2 DEF FillsUpTo
  <1>4. R[0] = base /\ R[N] = rem /\ \A k \in 0..N : R[k] \in [D -> Nat]
    BY DEF Fills, Trace
  <1>5. \A k \in 1..N : /\ ms[k].bid \in D /\ ms[k].ask \in D /\ ms[k].size \in Nat
                        /\ R[k][ms[k].bid] = R[k - 1][ms[k].bid] - ms[k].size
                        /\ R[k][ms[k].ask] = R[k - 1][ms[k].ask] - ms[k].size
                        /\ \A x \in D \ {ms[k].bid, ms[k].ask} : R[k][x] = R[k - 1][x]
    <2> SUFFICES ASSUME NEW k \in 1..N
                 PROVE  /\ ms[k].bid \in D /\ ms[k].ask \in D /\ ms[k].size \in Nat
                        /\ R[k][ms[k].bid] = R[k - 1][ms[k].bid] - ms[k].size
                        /\ R[k][ms[k].ask] = R[k - 1][ms[k].ask] - ms[k].size
                        /\ \A x \in D \ {ms[k].bid, ms[k].ask} : R[k][x] = R[k - 1][x]
      OBVIOUS
    <2>1. Changes(B, A, ms[k], R[k - 1], R[k])
      BY LegalTakes
    <2> QED
      BY <2>1 DEF Changes
  <1> HIDE DEF N, D, base, L
  <1>6. N \in 0..N
    BY <1>1
  <1>7. CASE i \in D
    <2> DEFINE S == {k \in Nat : k <= N => f[k] = base[i] - R[k][i]}
    <2>1. 0 \in S
      <3>1. 0 \in 0..N
        BY <1>1
      <3>2. base[i] \in Nat
        BY <1>4, <1>7, <3>1
      <3> QED
        BY <1>3, <1>4, <3>2
    <2>2. ASSUME NEW k \in Nat, k \in S PROVE k + 1 \in S
      <3> SUFFICES ASSUME k + 1 <= N PROVE f[k + 1] = base[i] - R[k + 1][i]
        OBVIOUS
      <3>1. k + 1 \in 1..N /\ k \in 0..N /\ k + 1 \in 0..N /\ (k + 1) - 1 = k /\ 0 \in 0..N /\ k <= N
        BY <1>1
      <3>2. f[k] = base[i] - R[k][i] /\ f[k] \in Nat
        BY <1>3, <2>2, <3>1
      <3>3. base[i] \in Nat /\ R[k][i] \in Nat
        BY <1>4, <1>7, <3>1
      <3>4. CASE i \in {ms[k + 1].bid, ms[k + 1].ask}
        <4>1. f[k + 1] = f[k] + ms[k + 1].size /\ R[k + 1][i] = R[k][i] - ms[k + 1].size
          BY <1>3, <1>5, <3>1, <3>4
        <4>2. ms[k + 1].size \in Nat
          BY <1>5, <3>1
        <4> QED
          BY <3>2, <3>3, <4>1, <4>2
      <3>5. CASE i \notin {ms[k + 1].bid, ms[k + 1].ask}
        <4>1. f[k + 1] = f[k] /\ R[k + 1][i] = R[k][i]
          BY <1>3, <1>5, <1>7, <3>1, <3>5
        <4> QED
          BY <3>2, <4>1
      <3> QED
        BY <3>4, <3>5
    <2> HIDE DEF S
    <2>3. N \in S
      BY <1>1, <2>1, <2>2, SetInduction
    <2>4. f[N] = base[i] - R[N][i]
      BY <1>1, <2>3 DEF S
    <2> QED
      BY <1>3, <1>4, <1>6, <1>7, <2>4 DEF D, base
  <1>8. CASE i \notin D
    <2> DEFINE S == {k \in Nat : k <= N => f[k] = 0}
    <2>1. 0 \in S
      BY <1>3
    <2>2. ASSUME NEW k \in Nat, k \in S PROVE k + 1 \in S
      <3> SUFFICES ASSUME k + 1 <= N PROVE f[k + 1] = 0
        OBVIOUS
      <3>1. k + 1 \in 1..N /\ (k + 1) - 1 = k /\ k <= N
        BY <1>1
      <3>2. f[k] = 0
        BY <2>2, <3>1
      <3>3. i \notin {ms[k + 1].bid, ms[k + 1].ask}
        BY <1>5, <1>8, <3>1
      <3> QED
        BY <1>3, <3>1, <3>2, <3>3
    <2> HIDE DEF S
    <2>3. N \in S
      BY <1>1, <2>1, <2>2, SetInduction
    <2>4. f[N] = 0
      BY <1>1, <2>3 DEF S
    <2> QED
      BY <1>3, <1>8, <2>4 DEF D
  <1> QED
    BY <1>7, <1>8

(* What a trace takes from the orders of S by its state rem.               *)
TakenFrom(S, base, rem) == [o \in S |-> base[o.id] - rem[o.id]]

(* What a side gives is the volume of the fills.                           *)
LEMMA SideGivesVolume ==
    ASSUME NEW B, NEW A, NEW price, NEW ms, NEW rem, NEW R, Fills(B, A, price, ms, rem, R),
           NEW S \in {B, A}
    PROVE  Total(TakenFrom(S, Offered(B, A), rem), S) = Volume(ms)
  <1> DEFINE D == Ids(B) \cup Ids(A)
             base == Offered(B, A)
             N == Len(ms)
             L == Legal(B, A, price)
             g(k) == TakenFrom(S, base, R[k])
  <1>1. ms \in Seq(L) /\ N \in Nat
    BY DEF Fills
  <1>2. PICK v : VolumeUpTo(ms, v)
    <2>1. \A m \in L : m.size \in Nat
      BY DEF Legal
    <2> HIDE DEF L
    <2> QED
      BY <1>1, <2>1, VolumeUnfolds
  <1>3. /\ v[0] = 0 /\ v[N] = Volume(ms)
        /\ \A k \in 0..N : v[k] \in Nat
        /\ \A k \in 1..N : v[k] = v[k - 1] + ms[k].size
    BY <1>2 DEF VolumeUpTo
  <1>4. R[0] = base /\ R[N] = rem /\ \A k \in 0..N : R[k] \in [D -> Nat]
    BY DEF Fills, Trace
  <1>5. /\ IsFiniteSet(S) /\ (\A o \in S : o.id \in D)
        /\ \A o, p \in S : o.id = p.id => o = p
    BY DEF Fills, TwoSides, IsSide, Named, Ids
  <1>6. \A k \in 1..N : \E o \in S :
            /\ ms[k].size \in Nat
            /\ R[k][o.id] = R[k - 1][o.id] - ms[k].size
            /\ \A p \in S \ {o} : R[k][p.id] = R[k - 1][p.id]
    <2> SUFFICES ASSUME NEW k \in 1..N
                 PROVE  \E o \in S : /\ ms[k].size \in Nat
                                     /\ R[k][o.id] = R[k - 1][o.id] - ms[k].size
                                     /\ \A p \in S \ {o} : R[k][p.id] = R[k - 1][p.id]
      OBVIOUS
    <2>1. /\ ms[k].bid \in Ids(B) /\ ms[k].ask \in Ids(A)
          /\ ms[k].bid \notin Ids(A) /\ ms[k].ask \notin Ids(B)
          /\ ms[k].size \in Nat
          /\ R[k][ms[k].bid] = R[k - 1][ms[k].bid] - ms[k].size
          /\ R[k][ms[k].ask] = R[k - 1][ms[k].ask] - ms[k].size
          /\ \A i \in D \ {ms[k].bid, ms[k].ask} : R[k][i] = R[k - 1][i]
      <3>1. Changes(B, A, ms[k], R[k - 1], R[k])
        BY LegalTakes
      <3> QED
        BY <3>1 DEF Changes
    <2>2. CASE S = B
      <3>1. PICK o \in B : o.id = ms[k].bid
        BY <2>1 DEF Ids
      <3>2. \A p \in B \ {o} : p.id \in D \ {ms[k].bid, ms[k].ask}
        <4>1. \A p \in B : p.id \in Ids(B)
          BY DEF Ids
        <4> QED
          BY <1>5, <2>1, <2>2, <3>1, <4>1
      <3> QED
        BY <2>1, <2>2, <3>1, <3>2
    <2>3. CASE S = A
      <3>1. PICK o \in A : o.id = ms[k].ask
        BY <2>1 DEF Ids
      <3>2. \A p \in A \ {o} : p.id \in D \ {ms[k].bid, ms[k].ask}
        <4>1. \A p \in A : p.id \in Ids(A)
          BY DEF Ids
        <4> QED
          BY <1>5, <2>1, <2>3, <3>1, <4>1
      <3> QED
        BY <2>1, <2>3, <3>1, <3>2
    <2> QED
      BY <2>2, <2>3
  <1>7. \A k \in 0..N : \A o \in S :
            /\ base[o.id] \in Nat /\ R[k][o.id] \in Nat
            /\ g(k)[o] = base[o.id] - R[k][o.id]
    <2>1. 0 \in 0..N
      BY <1>1
    <2> QED
      BY <1>4, <1>5, <2>1 DEF TakenFrom
  <1> HIDE DEF N, D, base, L, g
  <1> DEFINE T == {k \in Nat : k <= N => /\ \A o \in S : g(k)[o] \in Nat
                                         /\ Total(g(k), S) = v[k]}
  <1>8. 0 \in T
    <2>1. 0 \in 0..N
      BY <1>1
    <2>2. \A o \in S : g(0)[o] = 0
      BY <1>4, <1>7, <2>1
    <2>3. {} \in SUBSET S /\ \A o \in S \ {} : g(0)[o] = 0
      BY <2>2
    <2>4. \A o \in S : g(0)[o] \in Nat
      BY <2>2
    <2>5. Total(g(0), {}) = Total(g(0), S)
      BY <1>5, <2>3, <2>4, TotalOfPart
    <2> QED
      BY <1>3, <2>4, <2>5, SumOfNone
  <1>9. ASSUME NEW k \in Nat, k \in T PROVE k + 1 \in T
    <2> SUFFICES ASSUME k + 1 <= N
                 PROVE  /\ \A o \in S : g(k + 1)[o] \in Nat
                        /\ Total(g(k + 1), S) = v[k + 1]
      OBVIOUS
    <2>1. k + 1 \in 1..N /\ k \in 0..N /\ k + 1 \in 0..N /\ (k + 1) - 1 = k /\ k <= N
      BY <1>1
    <2>2. (\A o \in S : g(k)[o] \in Nat) /\ Total(g(k), S) = v[k]
      BY <1>9, <2>1
    <2> DEFINE d == ms[k + 1].size
    <2>3. PICK o \in S : /\ d \in Nat
                         /\ R[k + 1][o.id] = R[k][o.id] - d
                         /\ \A p \in S \ {o} : R[k + 1][p.id] = R[k][p.id]
      BY <1>6, <2>1
    <2> HIDE DEF d
    <2>4. g(k + 1)[o] = g(k)[o] + d
      <3>1. g(k + 1)[o] = base[o.id] - R[k + 1][o.id] /\ g(k)[o] = base[o.id] - R[k][o.id]
        BY <1>7, <2>1
      <3>2. base[o.id] \in Nat /\ R[k][o.id] \in Nat
        BY <1>7, <2>1
      <3> QED
        BY <2>3, <3>1, <3>2
    <2>5. \A p \in S \ {o} : g(k + 1)[p] = g(k)[p]
      BY <1>7, <2>1, <2>3
    <2>6. \A p \in S : g(k + 1)[p] \in Nat
      <3> SUFFICES ASSUME NEW p \in S PROVE g(k + 1)[p] \in Nat
        OBVIOUS
      <3>1. CASE p = o
        BY <2>2, <2>3, <2>4, <3>1
      <3>2. CASE p # o
        BY <2>2, <2>5, <3>2
      <3> QED
        BY <3>1, <3>2
    <2>7. Total(g(k + 1), S) = Total(g(k), S) + d
      BY <1>5, <2>2, <2>3, <2>4, <2>5, TotalChanged
    <2>8. v[k + 1] = v[k] + d
      BY <1>3, <2>1 DEF d
    <2> QED
      BY <2>2, <2>6, <2>7, <2>8
  <1> HIDE DEF T
  <1>10. N \in T
    BY <1>1, <1>8, <1>9, SetInduction
  <1>11. Total(g(N), S) = v[N]
    BY <1>1, <1>10 DEF T
  <1> QED
    BY <1>3, <1>4, <1>11 DEF g, base

-----------------------------------------------------------------------------
(* The rounds of the auction.                                              *)

(* The two sides of a book of one pair.                                    *)
Standing(buys, sells) ==
    /\ TwoSides(buys, sells) /\ Named(buys) /\ Named(sells)
    /\ \A o \in buys \cup sells : o.price \in Nat \ {0} /\ o.remaining \in Nat \ {0}

(* The orders that accept a price.                                         *)
Buyers(buys, price) == {b \in buys : b.price >= price}
Sellers(sells, price) == {a \in sells : a.price <= price}

(* What the fills ms take from the orders of S.                            *)
FilledOf(S, ms) == [o \in S |-> Filled(ms, o.id)]

(* Better orders of a side go first.                                       *)
Priority(side, S, Other, ms) ==
    \A o, worse \in S : Better(side, o, worse) /\ Filled(ms, worse.id) > 0 =>
        Filled(ms, o.id) = o.remaining \/ \E c \in Other : c.trader = o.trader

(* What is known of the fills ms of a book at a price.                     *)
Settles(buys, sells, price, ms) ==
    LET B == Buyers(buys, price)
        A == Sellers(sells, price)
    IN  /\ ms \in Seq(Legal(B, A, price))
        /\ \A o \in buys \cup sells : Filled(ms, o.id) \in Nat /\ Filled(ms, o.id) <= o.remaining
        /\ \A o \in (buys \ B) \cup (sells \ A) : Filled(ms, o.id) = 0
        /\ Total(FilledOf(B, ms), B) = Volume(ms)
        /\ Total(FilledOf(A, ms), A) = Volume(ms)
        /\ \A b \in B, a \in A : b.trader # a.trader =>
                Filled(ms, b.id) = b.remaining \/ Filled(ms, a.id) = a.remaining
        /\ Priority("Buy", buys, sells, ms)
        /\ Priority("Sell", sells, buys, ms)

LEMMA StandingPart ==
    ASSUME NEW buys, NEW sells, Standing(buys, sells), NEW price
    PROVE  /\ TwoSides(Buyers(buys, price), Sellers(sells, price))
           /\ Named(Buyers(buys, price)) /\ Named(Sellers(sells, price))
           /\ match_orders(buys, sells, price) =
                GreedyFills(Buyers(buys, price), Sellers(sells, price), price)
  <1> DEFINE B == Buyers(buys, price)
             A == Sellers(sells, price)
  <1>1. B \in SUBSET buys /\ A \in SUBSET sells
    BY DEF Buyers, Sellers
  <1>2. IsSide(B) /\ IsSide(A)
    BY <1>1, SideSubset DEF Standing, TwoSides
  <1>3. TwoSides(B, A) /\ Named(B) /\ Named(A)
    BY <1>1, <1>2 DEF Standing, TwoSides, Named
  <1>4. /\ {b \in buys : b.price >= price /\ b.remaining > 0} = B
        /\ {a \in sells : a.price <= price /\ a.remaining > 0} = A
    BY DEF Standing, Buyers, Sellers
  <1> QED
    BY <1>3, <1>4 DEF match_orders

(* The fills that match_orders makes.                                      *)
LEMMA MatchesSettle ==
    ASSUME NEW buys, NEW sells, Standing(buys, sells), NEW price \in Nat
    PROVE  Settles(buys, sells, price, match_orders(buys, sells, price))
  <1> DEFINE B == Buyers(buys, price)
             A == Sellers(sells, price)
             ms == match_orders(buys, sells, price)
             base == Offered(B, A)
             D == Ids(B) \cup Ids(A)
  <1>0. B \subseteq buys /\ A \subseteq sells
    BY DEF Buyers, Sellers
  <1>1. TwoSides(B, A) /\ Named(B) /\ Named(A) /\ ms = GreedyFills(B, A, price)
    BY StandingPart
  <1>2. \A o \in buys : o \notin B => o.price < price
    BY DEF Standing, Buyers
  <1>3. \A o \in sells : o \notin A => o.price > price
    BY DEF Standing, Sellers
  <1>4. (\A o \in B : o.price >= price) /\ (\A o \in A : o.price <= price)
    BY DEF Buyers, Sellers
  <1>5. \A o \in buys \cup sells : o.price \in Nat /\ o.remaining \in Nat
    BY DEF Standing
  <1>6. /\ \A o, p \in buys : o.id = p.id => o = p
        /\ \A o, p \in sells : o.id = p.id => o = p
        /\ \A o \in buys, p \in sells : o.id # p.id
    BY DEF Standing, Named, TwoSides
  <1> HIDE DEF B, A, ms
  <1>7. PICK rem, R : /\ ms \in Seq(Legal(B, A, price))
                      /\ Trace(D, base, ms, rem, R)
                      /\ Served(B, A, base, rem, B \X A)
    BY <1>1, GreedyFillsServe
  <1>8. Fills(B, A, price, ms, rem, R)
    BY <1>1, <1>7 DEF Fills
  <1>9. \A o \in B \cup A : /\ base[o.id] = o.remaining /\ rem[o.id] \in Nat
                            /\ Filled(ms, o.id) \in Nat
                            /\ Filled(ms, o.id) = o.remaining - rem[o.id]
    <2> SUFFICES ASSUME NEW o \in B \cup A
                 PROVE  /\ base[o.id] = o.remaining /\ rem[o.id] \in Nat
                        /\ Filled(ms, o.id) \in Nat
                        /\ Filled(ms, o.id) = o.remaining - rem[o.id]
      OBVIOUS
    <2>1. o.id \in D /\ base[o.id] = o.remaining
      BY <1>1, OfferedIsRemaining
    <2> QED
      BY <1>8, <2>1, FilledIsTaken
  <1>10. \A o \in (buys \ B) \cup (sells \ A) : Filled(ms, o.id) = 0
    <2> SUFFICES ASSUME NEW o \in (buys \ B) \cup (sells \ A) PROVE Filled(ms, o.id) = 0
      OBVIOUS
    <2>1. o.id \notin D
      BY <1>0, <1>6 DEF Ids
    <2> QED
      BY <1>8, <2>1, FilledIsTaken
  <1>11. \A o \in buys \cup sells : Filled(ms, o.id) \in Nat /\ Filled(ms, o.id) <= o.remaining
    <2> SUFFICES ASSUME NEW o \in buys \cup sells
                 PROVE  Filled(ms, o.id) \in Nat /\ Filled(ms, o.id) <= o.remaining
      OBVIOUS
    <2>1. CASE o \in B \cup A
      BY <1>5, <1>9, <2>1
    <2>2. CASE o \notin B \cup A
      BY <1>5, <1>10, <2>2
    <2> QED
      BY <2>1, <2>2
  <1>12. \A S \in {B, A} : Total(FilledOf(S, ms), S) = Volume(ms)
    <2> SUFFICES ASSUME NEW S \in {B, A} PROVE Total(FilledOf(S, ms), S) = Volume(ms)
      OBVIOUS
    <2>1. Total(TakenFrom(S, base, rem), S) = Volume(ms)
      BY <1>8, SideGivesVolume
    <2>2. FilledOf(S, ms) = TakenFrom(S, base, rem)
      BY <1>9 DEF FilledOf, TakenFrom
    <2> QED
      BY <2>1, <2>2
  <1>13. \A b \in B, a \in A : b.trader # a.trader =>
            Filled(ms, b.id) = b.remaining \/ Filled(ms, a.id) = a.remaining
    <2> SUFFICES ASSUME NEW b \in B, NEW a \in A, b.trader # a.trader
                 PROVE  Filled(ms, b.id) = b.remaining \/ Filled(ms, a.id) = a.remaining
      OBVIOUS
    <2>1. <<b, a>> \in B \X A
      OBVIOUS
    <2>2. rem[b.id] = 0 \/ rem[a.id] = 0
      BY <1>7, <2>1 DEF Served, Spent
    <2>3. b.remaining \in Nat /\ a.remaining \in Nat
      BY <1>0, <1>5
    <2> QED
      BY <1>9, <2>2, <2>3
  <1>14. Priority("Buy", buys, sells, ms)
    <2> SUFFICES ASSUME NEW o \in buys, NEW w \in buys, Better("Buy", o, w), Filled(ms, w.id) > 0,
                        ~\E c \in sells : c.trader = o.trader
                 PROVE  Filled(ms, o.id) = o.remaining
      BY DEF Priority
    <2>1. w \in B
      BY <1>10
    <2>2. o \in B
      <3>1. o.price >= w.price /\ w.price >= price
        BY <1>4, <1>5, <2>1 DEF Better, BetterBid
      <3> QED
        BY <1>2, <1>5, <3>1
    <2>3. rem[w.id] < base[w.id]
      BY <1>0, <1>5, <1>9, <2>1
    <2>4. rem[o.id] = 0
      BY <1>0, <1>7, <2>1, <2>2, <2>3 DEF Served, Prior
    <2> QED
      BY <1>5, <1>9, <2>2, <2>4
  <1>15. Priority("Sell", sells, buys, ms)
    <2> SUFFICES ASSUME NEW o \in sells, NEW w \in sells, Better("Sell", o, w), Filled(ms, w.id) > 0,
                        ~\E c \in buys : c.trader = o.trader
                 PROVE  Filled(ms, o.id) = o.remaining
      BY DEF Priority
    <2>1. w \in A
      BY <1>10
    <2>2. o \in A
      <3>1. o.price <= w.price /\ w.price <= price
        BY <1>4, <1>5, <2>1 DEF Better, BetterAsk
      <3> QED
        BY <1>3, <1>5, <3>1
    <2>3. rem[w.id] < base[w.id]
      BY <1>0, <1>5, <1>9, <2>1
    <2>4. rem[o.id] = 0
      BY <1>0, <1>7, <2>1, <2>2, <2>3 DEF Served, Prior
    <2> QED
      BY <1>5, <1>9, <2>2, <2>4
  <1> QED
    BY <1>7, <1>10, <1>11, <1>12, <1>13, <1>14, <1>15 DEF Settles, B, A, ms

-----------------------------------------------------------------------------
(* The clearing price.                                                     *)

LEMMA MaxOfFinite ==
    ASSUME NEW S \in SUBSET Nat, IsFiniteSet(S), S # {}
    PROVE  Max(S) \in S /\ \A y \in S : Max(S) >= y
  <1> DEFINE F == {s \in SUBSET S : \E N \in Nat : s \subseteq 0..N}
  <1>1. {} \in F
    OBVIOUS
  <1>2. ASSUME NEW s \in SUBSET S, NEW x \in S \ s, s \in F PROVE s \cup {x} \in F
    <2>1. PICK N \in Nat : s \subseteq 0..N
      BY <1>2
    <2>2. x \in Nat /\ x + N \in Nat
      OBVIOUS
    <2>3. s \cup {x} \subseteq 0..(x + N)
      <3>1. \A y \in 0..N : y \in 0..(x + N)
        BY <2>2
      <3>2. x \in 0..(x + N)
        BY <2>2
      <3> QED
        BY <2>1, <3>1, <3>2
    <2>4. s \cup {x} \in SUBSET S
      OBVIOUS
    <2> QED
      BY <2>2, <2>3, <2>4
  <1> HIDE DEF F
  <1>3. S \in F
    BY <1>1, <1>2, FiniteInduction
  <1>4. PICK N \in Nat : S \subseteq 0..N
    BY <1>3 DEF F
  <1> QED
    BY <1>4, MaxOfInitial

LEMMA MinOfNaturals ==
    ASSUME NEW S \in SUBSET Nat, S # {}
    PROVE  Min(S) \in S /\ \A y \in S : Min(S) <= y
  <1>1. PICK x \in S : \A y \in S : x <= y
    BY LeastNatural
  <1> QED
    BY <1>1 DEF Min

(* The rounded half of two numbers lies between them.                      *)
LEMMA HalfBetween ==
    ASSUME NEW lo \in Nat, NEW hi \in Nat, lo <= hi
    PROVE  /\ HalfRoundedToEven(lo + hi) \in Nat
           /\ lo <= HalfRoundedToEven(lo + hi) /\ HalfRoundedToEven(lo + hi) <= hi
  <1> DEFINE h == (lo + hi) \div 2
  <1>1. h \in Nat
    OBVIOUS
  <1>2. lo <= h /\ h <= hi
    OBVIOUS
  <1>3. lo < hi => h + 1 <= hi
    OBVIOUS
  <1>4. lo = hi => (lo + hi) % 2 = 0
    OBVIOUS
  <1> HIDE DEF h
  <1>5. HalfRoundedToEven(lo + hi) = h \/ (lo # hi /\ HalfRoundedToEven(lo + hi) = h + 1)
    BY <1>4 DEF HalfRoundedToEven, h
  <1> QED
    BY <1>1, <1>2, <1>3, <1>5

(* What the orders of S have left.                                         *)
Rest(S) == [o \in S |-> o.remaining]

(* What is bought and sold at a price or better.                           *)
Demand(buys, p) == Total(Rest(buys), Buyers(buys, p))
Supply(sells, p) == Total(Rest(sells), Sellers(sells, p))

LEMMA VolumeForm ==
    ASSUME NEW S, IsFiniteSet(S), NEW P \in SUBSET S
    PROVE  cumulative_volume(P) = Total(Rest(S), P)
  <1>1. IsFiniteSet(P)
    BY FS_Subset
  <1>2. cumulative_volume(P) = Total([o \in P |-> o.remaining], P)
    BY <1>1, VolumeIsTotal DEF cumulative_volume
  <1>3. \A o \in P : Rest(S)[o] = [x \in P |-> x.remaining][o]
    BY DEF Rest
  <1>4. Total(Rest(S), P) = Total([o \in P |-> o.remaining], P)
    BY <1>1, <1>3, SumSame
  <1> QED
    BY <1>2, <1>4

LEMMA SidesFinite ==
    ASSUME NEW buys, NEW sells, Standing(buys, sells)
    PROVE  /\ IsFiniteSet(buys) /\ IsFiniteSet(sells)
           /\ \A o \in buys : Rest(buys)[o] = o.remaining /\ Rest(buys)[o] \in Nat \ {0}
           /\ \A o \in sells : Rest(sells)[o] = o.remaining /\ Rest(sells)[o] \in Nat \ {0}
  BY DEF Standing, TwoSides, IsSide, Rest

LEMMA VolumeIsLesser ==
    ASSUME NEW buys, NEW sells, Standing(buys, sells), NEW p
    PROVE  /\ VolumeAt(buys, sells, p) = Lesser(Demand(buys, p), Supply(sells, p))
           /\ Demand(buys, p) \in Nat /\ Supply(sells, p) \in Nat
           /\ VolumeAt(buys, sells, p) \in Nat
  <1>1. /\ {b \in buys : b.price >= p} = Buyers(buys, p)
        /\ {a \in sells : a.price <= p} = Sellers(sells, p)
        /\ Buyers(buys, p) \in SUBSET buys /\ Sellers(sells, p) \in SUBSET sells
    BY DEF Buyers, Sellers
  <1>2. /\ cumulative_volume(Buyers(buys, p)) = Demand(buys, p)
        /\ cumulative_volume(Sellers(sells, p)) = Supply(sells, p)
    BY <1>1, SidesFinite, VolumeForm DEF Demand, Supply
  <1>3. Demand(buys, p) \in Nat /\ Supply(sells, p) \in Nat
    BY <1>1, SidesFinite, TotalOfFewer DEF Demand, Supply
  <1>4. VolumeAt(buys, sells, p) = Lesser(Demand(buys, p), Supply(sells, p))
    BY <1>1, <1>2 DEF VolumeAt
  <1> QED
    BY <1>3, <1>4 DEF Lesser

(* A higher price is accepted by fewer buyers and more sellers.            *)
LEMMA HigherPrice ==
    ASSUME NEW buys, NEW sells, Standing(buys, sells), NEW p \in Nat, NEW q \in Nat, p <= q
    PROVE  Demand(buys, q) <= Demand(buys, p) /\ Supply(sells, p) <= Supply(sells, q)
  <1>1. \A o \in buys \cup sells : o.price \in Nat
    BY DEF Standing
  <1>2. Buyers(buys, q) \in SUBSET Buyers(buys, p) /\ Buyers(buys, p) \in SUBSET buys
    BY <1>1 DEF Buyers
  <1>3. Sellers(sells, p) \in SUBSET Sellers(sells, q) /\ Sellers(sells, q) \in SUBSET sells
    BY <1>1 DEF Sellers
  <1>4. IsFiniteSet(Buyers(buys, p)) /\ IsFiniteSet(Sellers(sells, q))
    BY <1>2, <1>3, SidesFinite, FS_Subset
  <1>5. /\ \A o \in Buyers(buys, p) : Rest(buys)[o] \in Nat
        /\ \A o \in Sellers(sells, q) : Rest(sells)[o] \in Nat
    BY <1>2, <1>3, SidesFinite
  <1> QED
    BY <1>2, <1>3, <1>4, <1>5, TotalOfFewer DEF Demand, Supply

LEMMA FiniteImage ==
    ASSUME NEW S, IsFiniteSet(S), NEW f
    PROVE  IsFiniteSet({f[x] : x \in S})
  <1> DEFINE F == {s \in SUBSET S : IsFiniteSet({f[x] : x \in s})}
  <1>1. {} \in F
    <2>1. {f[x] : x \in {}} = {}
      OBVIOUS
    <2> QED
      BY <2>1, FS_EmptySet
  <1>2. ASSUME NEW s \in SUBSET S, NEW x \in S \ s, s \in F PROVE s \cup {x} \in F
    <2>1. {f[y] : y \in s \cup {x}} = {f[y] : y \in s} \cup {f[x]}
      OBVIOUS
    <2>2. IsFiniteSet({f[y] : y \in s} \cup {f[x]})
      BY <1>2, FS_AddElement
    <2>3. s \cup {x} \in SUBSET S
      OBVIOUS
    <2> QED
      BY <2>1, <2>2, <2>3
  <1> HIDE DEF F
  <1>3. S \in F
    BY <1>1, <1>2, FiniteInduction
  <1> QED
    BY <1>3 DEF F

(* A sum with a positive weight is positive.                               *)
LEMMA TotalPositive ==
    ASSUME NEW g, NEW S, IsFiniteSet(S), \A x \in S : g[x] \in Nat, NEW x \in S, g[x] > 0
    PROVE  Total(g, S) > 0
  <1>1. Total(g, S) = Total(g, S \ {x}) + g[x]
    BY TotalWithout
  <1>2. S \ {x} \in SUBSET S
    OBVIOUS
  <1>3. Total(g, S \ {x}) \in Nat
    BY <1>2, TotalOfFewer
  <1> QED
    BY <1>1, <1>3

Crosses(buys, sells) == \E b \in buys, a \in sells : b.price >= a.price

(* Prices at which nobody buys, or nobody sells, execute nothing; a price  *)
(* between a bid and an ask that cross executes something.                 *)
LEMMA VolumeNeedsBoth ==
    ASSUME NEW buys, NEW sells, Standing(buys, sells), NEW p \in Nat
    PROVE  VolumeAt(buys, sells, p) > 0 <=>
                \E b \in buys, a \in sells : b.price >= p /\ a.price <= p
  <1> DEFINE B == Buyers(buys, p)
             A == Sellers(sells, p)
  <1>1. /\ VolumeAt(buys, sells, p) = Lesser(Demand(buys, p), Supply(sells, p))
        /\ Demand(buys, p) \in Nat /\ Supply(sells, p) \in Nat
    BY VolumeIsLesser
  <1>2. VolumeAt(buys, sells, p) > 0 <=> Demand(buys, p) > 0 /\ Supply(sells, p) > 0
    BY <1>1 DEF Lesser
  <1>3. /\ B \in SUBSET buys /\ A \in SUBSET sells
        /\ IsFiniteSet(buys) /\ IsFiniteSet(sells)
        /\ \A o \in buys : Rest(buys)[o] \in Nat \ {0}
        /\ \A o \in sells : Rest(sells)[o] \in Nat \ {0}
    BY SidesFinite DEF Buyers, Sellers
  <1>4. IsFiniteSet(B) /\ IsFiniteSet(A)
    BY <1>3, FS_Subset
  <1> HIDE DEF B, A
  <1>5. Demand(buys, p) > 0 <=> B # {}
    <2>1. B = {} => Total(Rest(buys), B) = 0
      BY SumOfNone
    <2>2. ASSUME NEW b \in B PROVE Total(Rest(buys), B) > 0
      <3>1. (\A o \in B : Rest(buys)[o] \in Nat) /\ Rest(buys)[b] > 0
        BY <1>3
      <3> QED
        BY <1>4, <3>1, TotalPositive
    <2> QED
      BY <2>1, <2>2 DEF Demand, B
  <1>6. Supply(sells, p) > 0 <=> A # {}
    <2>1. A = {} => Total(Rest(sells), A) = 0
      BY SumOfNone
    <2>2. ASSUME NEW a \in A PROVE Total(Rest(sells), A) > 0
      <3>1. (\A o \in A : Rest(sells)[o] \in Nat) /\ Rest(sells)[a] > 0
        BY <1>3
      <3> QED
        BY <1>4, <3>1, TotalPositive
    <2> QED
      BY <2>1, <2>2 DEF Supply, A
  <1> QED
    BY <1>2, <1>5, <1>6 DEF B, A, Buyers, Sellers

(* No price executes more than the best limit price of the round.          *)
LEMMA LimitsSuffice ==
    ASSUME NEW buys, NEW sells, Standing(buys, sells), NEW best \in Nat,
           \A o \in buys \cup sells : VolumeAt(buys, sells, o.price) <= best, NEW p \in Nat
    PROVE  VolumeAt(buys, sells, p) <= best
  <1>1. CASE VolumeAt(buys, sells, p) = 0
    BY <1>1
  <1>2. CASE VolumeAt(buys, sells, p) # 0
    <2> DEFINE Q == {o.price : o \in Buyers(buys, p)}
    <2>0. \A o \in buys \cup sells : o.price \in Nat
      BY DEF Standing
    <2>1. VolumeAt(buys, sells, p) > 0
      BY <1>2, VolumeIsLesser
    <2>2. Q \in SUBSET Nat /\ Q # {}
      <3>1. PICK b \in buys : b.price >= p
        BY <2>1, VolumeNeedsBoth
      <3>2. b \in Buyers(buys, p) /\ Buyers(buys, p) \subseteq buys
        BY <3>1 DEF Buyers
      <3> QED
        BY <2>0, <3>2
    <2>3. PICK q \in Q : \A y \in Q : q <= y
      BY <2>2, LeastNatural
    <2>4. PICK o \in buys : o.price = q /\ q >= p /\ q \in Nat
      BY <2>0, <2>3 DEF Buyers
    <2>5. Buyers(buys, q) = Buyers(buys, p)
      <3>1. \A x \in buys : x.price >= p => x.price >= q
        BY <2>3 DEF Buyers
      <3>2. \A x \in buys : x.price >= q => x.price >= p
        BY <2>0, <2>4
      <3> QED
        BY <3>1, <3>2 DEF Buyers
    <2>6. Demand(buys, q) = Demand(buys, p) /\ Supply(sells, p) <= Supply(sells, q)
      BY <2>4, <2>5, HigherPrice DEF Demand
    <2>7. VolumeAt(buys, sells, p) <= VolumeAt(buys, sells, q)
      <3>1. /\ VolumeAt(buys, sells, p) = Lesser(Demand(buys, p), Supply(sells, p))
            /\ VolumeAt(buys, sells, q) = Lesser(Demand(buys, q), Supply(sells, q))
            /\ Demand(buys, p) \in Nat /\ Supply(sells, p) \in Nat /\ Supply(sells, q) \in Nat
        BY VolumeIsLesser
      <3> QED
        BY <2>6, <3>1 DEF Lesser
    <2>8. VolumeAt(buys, sells, q) <= best
      BY <2>4
    <2>9. VolumeAt(buys, sells, p) \in Nat /\ VolumeAt(buys, sells, q) \in Nat
      BY VolumeIsLesser
    <2> QED
      BY <2>7, <2>8, <2>9
  <1> QED
    BY <1>1, <1>2

(* The price of a round whose sides cross: it executes something, no price *)
(* executes more, and it is at most a limit of the round.                  *)
LEMMA ClearingPrice ==
    ASSUME NEW buys, NEW sells, Standing(buys, sells), Crosses(buys, sells)
    PROVE  /\ compute_clearing_price(buys, sells) \in Nat \ {0}
           /\ VolumeAt(buys, sells, compute_clearing_price(buys, sells)) > 0
           /\ \A p \in Nat : VolumeAt(buys, sells, p) <=
                                VolumeAt(buys, sells, compute_clearing_price(buys, sells))
           /\ \E o \in buys \cup sells : compute_clearing_price(buys, sells) <= o.price
  <1> DEFINE Vol(p) == VolumeAt(buys, sells, p)
             U == buys \cup sells
             C == {o.price : o \in U}
             best == Max({Vol(p) : p \in C})
             T == {p \in C : Vol(p) = best /\ best > 0}
  <1>1. \A o \in U : o.price \in Nat \ {0}
    BY DEF Standing
  <1>2. C \in SUBSET (Nat \ {0}) /\ C # {} /\ IsFiniteSet(C)
    <2>1. U # {}
      BY DEF Crosses
    <2>2. IsFiniteSet(U)
      BY SidesFinite, FS_Union
    <2> DEFINE f == [o \in U |-> o.price]
    <2>3. C = {f[o] : o \in U}
      OBVIOUS
    <2>4. IsFiniteSet({f[o] : o \in U})
      <3> HIDE DEF f, U
      <3> QED
        BY <2>2, FiniteImage
    <2> QED
      BY <1>1, <2>1, <2>3, <2>4
  <1>3. \A p : Vol(p) \in Nat
    BY VolumeIsLesser
  <1> HIDE DEF C, Vol
  <1>4. best \in {Vol(p) : p \in C} /\ \A p \in C : best >= Vol(p)
    <2> DEFINE f == [p \in C |-> Vol(p)]
               W == {Vol(p) : p \in C}
    <2>1. W = {f[p] : p \in C}
      OBVIOUS
    <2>2. IsFiniteSet({f[p] : p \in C})
      <3> HIDE DEF f
      <3> QED
        BY <1>2, FiniteImage
    <2>3. W \in SUBSET Nat /\ W # {} /\ IsFiniteSet(W)
      BY <1>2, <1>3, <2>1, <2>2
    <2>4. \A p \in C : Vol(p) \in W
      OBVIOUS
    <2> HIDE DEF W
    <2>5. Max(W) \in W /\ \A y \in W : Max(W) >= y
      BY <2>3, MaxOfFinite
    <2> QED
      BY <2>4, <2>5 DEF W
  <1>5. best \in Nat
    BY <1>3, <1>4
  <1> HIDE DEF best
  <1>6. \A p \in Nat : Vol(p) <= best
    <2>1. \A o \in buys \cup sells : VolumeAt(buys, sells, o.price) <= best
      BY <1>3, <1>4, <1>5 DEF C, Vol
    <2> QED
      BY <1>5, <2>1, LimitsSuffice DEF Vol
  <1>7. best > 0
    <2>1. PICK b \in buys, a \in sells : b.price >= a.price
      BY DEF Crosses
    <2>2. b.price \in Nat /\ b.price >= b.price
      BY <1>1
    <2>3. Vol(b.price) > 0
      BY <2>1, <2>2, VolumeNeedsBoth DEF Vol
    <2> QED
      BY <1>3, <1>5, <1>6, <2>2, <2>3
  <1>8. T \in SUBSET Nat /\ T # {} /\ IsFiniteSet(T) /\ T \subseteq C
    <2>1. T \in SUBSET C
      OBVIOUS
    <2> QED
      BY <1>2, <1>4, <1>7, <2>1, FS_Subset
  <1>9. \A p \in T : Vol(p) = best
    OBVIOUS
  <1>10. tied_prices(buys, sells) = T
    BY DEF tied_prices, C, Vol, best
  <1> HIDE DEF T
  <1> DEFINE lo == Min(T)
             hi == Max(T)
             mid == HalfRoundedToEven(lo + hi)
  <1>11. lo \in T /\ hi \in T /\ lo <= hi /\ lo \in Nat \ {0} /\ hi \in Nat
    <2>1. Min(T) \in T /\ \A y \in T : Min(T) <= y
      BY <1>8, MinOfNaturals
    <2>2. Max(T) \in T
      BY <1>8, MaxOfFinite
    <2> QED
      BY <1>2, <1>8, <2>1, <2>2
  <1>12. compute_clearing_price(buys, sells) = mid
    BY <1>8, <1>10 DEF compute_clearing_price
  <1> HIDE DEF lo, hi
  <1>13. mid \in Nat /\ lo <= mid /\ mid <= hi
    BY <1>11, HalfBetween
  <1> HIDE DEF mid
  <1>14. Vol(mid) >= best
    <2>1. Demand(buys, hi) <= Demand(buys, mid) /\ Supply(sells, lo) <= Supply(sells, mid)
      BY <1>11, <1>13, HigherPrice
    <2>2. \A p : /\ Vol(p) = Lesser(Demand(buys, p), Supply(sells, p))
                 /\ Demand(buys, p) \in Nat /\ Supply(sells, p) \in Nat
      BY VolumeIsLesser DEF Vol
    <2>3. Vol(lo) = best /\ Vol(hi) = best
      BY <1>9, <1>11
    <2>4. Demand(buys, hi) >= best /\ Supply(sells, lo) >= best
      BY <2>2, <2>3 DEF Lesser
    <2>5. Demand(buys, mid) >= best /\ Supply(sells, mid) >= best
      BY <1>5, <2>1, <2>2, <2>4
    <2> QED
      BY <2>2, <2>5 DEF Lesser
  <1>15. \E o \in buys \cup sells : mid <= o.price
    BY <1>8, <1>11, <1>13 DEF C
  <1>16. mid \in Nat \ {0} /\ Vol(mid) > 0 /\ \A p \in Nat : Vol(p) <= Vol(mid)
    BY <1>3, <1>5, <1>6, <1>7, <1>11, <1>13, <1>14
  <1> QED
    BY <1>12, <1>15, <1>16 DEF Vol

-----------------------------------------------------------------------------
(* What a round does.                                                      *)

(* The fills of the round of two sides that cross.                         *)
Matching(buys, sells) == match_orders(buys, sells, compute_clearing_price(buys, sells))

LEMMA RunCases ==
    ASSUME NEW buys, NEW sells, Standing(buys, sells)
    PROVE  /\ ~Crosses(buys, sells) => run(buys, sells) = NoAuction
           /\ Crosses(buys, sells) =>
                /\ run(buys, sells).matches = Matching(buys, sells)
                /\ run(buys, sells) # NoAuction =>
                        run(buys, sells).price = compute_clearing_price(buys, sells)
  <1> DEFINE price == compute_clearing_price(buys, sells)
             ms == match_orders(buys, sells, price)
             quiet == \/ buys = {} \/ sells = {}
                      \/ \A b \in buys, a \in sells : b.price < a.price
  <1>1. \A o \in buys \cup sells : o.price \in Nat
    BY DEF Standing
  <1>2. ~Crosses(buys, sells) <=> quiet
    BY <1>1 DEF Crosses
  <1>3. quiet => run(buys, sells) = NoAuction
    BY DEF run
  <1>4. ASSUME Crosses(buys, sells)
        PROVE  \/ run(buys, sells) = NoAuction /\ ms = <<>>
               \/ run(buys, sells) = [price |-> price, matches |-> ms]
    <2>1. price > 0
      BY <1>4, ClearingPrice
    <2>2. ~quiet
      BY <1>2, <1>4
    <2> HIDE DEF quiet
    <2> QED
      BY <2>1, <2>2 DEF run, quiet
  <1> HIDE DEF quiet, ms, price
  <1>5. NoAuction.matches = <<>>
    BY DEF NoAuction
  <1> QED
    BY <1>2, <1>3, <1>4, <1>5 DEF Matching, ms, price

(* No trader is on both sides.                                             *)
Apart(buys, sells) == \A b \in buys, a \in sells : b.trader # a.trader

(* Then the fills use up one side, and execute what the price lets them.   *)
LEMMA FillsExecuteVolume ==
    ASSUME NEW buys, NEW sells, Standing(buys, sells), Apart(buys, sells),
           NEW price \in Nat, NEW ms, Settles(buys, sells, price, ms)
    PROVE  Volume(ms) = VolumeAt(buys, sells, price)
  <1> DEFINE B == Buyers(buys, price)
             A == Sellers(sells, price)
             d == Total(Rest(buys), B)
             s == Total(Rest(sells), A)
             v == Volume(ms)
  <1>1. VolumeAt(buys, sells, price) = Lesser(d, s) /\ d \in Nat /\ s \in Nat
    BY VolumeIsLesser DEF Demand, Supply
  <1>2. /\ B \in SUBSET buys /\ A \in SUBSET sells
        /\ IsFiniteSet(buys) /\ IsFiniteSet(sells)
        /\ \A o \in buys : Rest(buys)[o] = o.remaining /\ Rest(buys)[o] \in Nat
        /\ \A o \in sells : Rest(sells)[o] = o.remaining /\ Rest(sells)[o] \in Nat
    BY SidesFinite DEF Buyers, Sellers
  <1>3. IsFiniteSet(B) /\ IsFiniteSet(A)
    BY <1>2, FS_Subset
  <1>4. /\ \A o \in B : FilledOf(B, ms)[o] = Filled(ms, o.id)
        /\ \A o \in A : FilledOf(A, ms)[o] = Filled(ms, o.id)
    BY DEF FilledOf
  <1>5. /\ \A o \in buys \cup sells : Filled(ms, o.id) \in Nat /\ Filled(ms, o.id) <= o.remaining
        /\ Total(FilledOf(B, ms), B) = v
        /\ Total(FilledOf(A, ms), A) = v
        /\ \A b \in B, a \in A : b.trader # a.trader =>
                Filled(ms, b.id) = b.remaining \/ Filled(ms, a.id) = a.remaining
    BY DEF Settles
  <1>6. v \in Nat /\ v <= d
    <2>1. \A o \in B : /\ FilledOf(B, ms)[o] \in Nat /\ Rest(buys)[o] \in Nat
                       /\ FilledOf(B, ms)[o] <= Rest(buys)[o]
      BY <1>2, <1>4, <1>5
    <2> QED
      BY <1>3, <1>5, <2>1, TotalOfLess
  <1>7. v <= s
    <2>1. \A o \in A : /\ FilledOf(A, ms)[o] \in Nat /\ Rest(sells)[o] \in Nat
                       /\ FilledOf(A, ms)[o] <= Rest(sells)[o]
      BY <1>2, <1>4, <1>5
    <2> QED
      BY <1>3, <1>5, <2>1, TotalOfLess
  <1>8. (\A o \in B : Filled(ms, o.id) = o.remaining) => v = d
    <2> SUFFICES ASSUME \A o \in B : Filled(ms, o.id) = o.remaining PROVE v = d
      OBVIOUS
    <2>1. \A o \in B : FilledOf(B, ms)[o] = Rest(buys)[o]
      BY <1>2, <1>4
    <2>2. Total(FilledOf(B, ms), B) = d
      BY <1>3, <2>1, SumSame
    <2> QED
      BY <1>5, <2>2
  <1>9. (\A o \in A : Filled(ms, o.id) = o.remaining) => v = s
    <2> SUFFICES ASSUME \A o \in A : Filled(ms, o.id) = o.remaining PROVE v = s
      OBVIOUS
    <2>1. \A o \in A : FilledOf(A, ms)[o] = Rest(sells)[o]
      BY <1>2, <1>4
    <2>2. Total(FilledOf(A, ms), A) = s
      BY <1>3, <2>1, SumSame
    <2> QED
      BY <1>5, <2>2
  <1>10. \/ \A o \in B : Filled(ms, o.id) = o.remaining
         \/ \A o \in A : Filled(ms, o.id) = o.remaining
    <2>1. \A b \in B, a \in A : b.trader # a.trader
      BY <1>2 DEF Apart
    <2> QED
      BY <1>5, <2>1
  <1> HIDE DEF d, s, v
  <1>11. v = Lesser(d, s)
    BY <1>1, <1>6, <1>7, <1>8, <1>9, <1>10 DEF Lesser
  <1> QED
    BY <1>1, <1>11 DEF v

(* A bid below the price that the round leaves crosses no ask it leaves:   *)
(* the bid's own limit would execute more.                                 *)
LEMMA LowBidDoesNotCross ==
    ASSUME NEW buys, NEW sells, Standing(buys, sells), Apart(buys, sells),
           NEW price \in Nat, NEW ms, Settles(buys, sells, price, ms),
           \A p \in Nat : VolumeAt(buys, sells, p) <= VolumeAt(buys, sells, price),
           NEW b \in buys, NEW a \in sells, b.price < price, a.price <= b.price
    PROVE  Filled(ms, a.id) = a.remaining
  <1> SUFFICES ASSUME Filled(ms, a.id) # a.remaining PROVE FALSE
    OBVIOUS
  <1> DEFINE q == b.price
             B == Buyers(buys, price)
             A == Sellers(sells, price)
             A1 == Sellers(sells, q)
             g == FilledOf(A, ms)
             v == Volume(ms)
  <1>1. \A o \in buys \cup sells : o.price \in Nat /\ o.remaining \in Nat \ {0}
    BY DEF Standing
  <1>2. q \in Nat /\ a.price \in Nat
    BY <1>1
  <1>3. /\ IsFiniteSet(buys) /\ IsFiniteSet(sells)
        /\ \A o \in buys : Rest(buys)[o] = o.remaining
        /\ \A o \in sells : Rest(sells)[o] = o.remaining
    BY SidesFinite
  <1>4. /\ \A o \in buys \cup sells : Filled(ms, o.id) \in Nat /\ Filled(ms, o.id) <= o.remaining
        /\ Total(g, A) = v
        /\ Priority("Sell", sells, buys, ms)
    BY DEF Settles
  <1>5. v = VolumeAt(buys, sells, price)
    BY FillsExecuteVolume
  <1>6. /\ VolumeAt(buys, sells, price) = Lesser(Demand(buys, price), Supply(sells, price))
        /\ VolumeAt(buys, sells, q) = Lesser(Demand(buys, q), Supply(sells, q))
        /\ Demand(buys, price) \in Nat /\ Supply(sells, price) \in Nat
        /\ Demand(buys, q) \in Nat /\ Supply(sells, q) \in Nat
    BY VolumeIsLesser
  <1>7. v \in Nat /\ v <= Demand(buys, price)
    BY <1>5, <1>6 DEF Lesser
  <1>8. Demand(buys, q) > v
    <2> DEFINE B1 == Buyers(buys, q)
    <2>1. B \cup {b} \in SUBSET B1 /\ B1 \in SUBSET buys /\ b \notin B /\ B \in SUBSET buys
      BY <1>1, <1>2 DEF Buyers
    <2>2. IsFiniteSet(B) /\ IsFiniteSet(B1)
      BY <1>3, <2>1, FS_Subset
    <2>3. /\ \A o \in B : Rest(buys)[o] \in Nat
          /\ \A o \in B1 : Rest(buys)[o] \in Nat
          /\ Rest(buys)[b] \in Nat \ {0}
      BY <1>1, <1>3, <2>1
    <2> HIDE DEF B, B1
    <2>4. Total(Rest(buys), B \cup {b}) = Total(Rest(buys), B) + Rest(buys)[b]
      BY <2>1, <2>2, <2>3, SumAdds
    <2>5. Total(Rest(buys), B \cup {b}) <= Total(Rest(buys), B1)
      BY <2>1, <2>2, <2>3, TotalOfFewer
    <2>6. Demand(buys, price) + Rest(buys)[b] <= Demand(buys, q)
      BY <2>4, <2>5 DEF Demand, B, B1
    <2> QED
      BY <1>6, <1>7, <2>3, <2>6
  <1>9. Supply(sells, q) > v
    <2>1. A1 \in SUBSET A /\ A \in SUBSET sells /\ A1 \in SUBSET sells /\ a \in A1
      BY <1>1, <1>2 DEF Sellers
    <2>2. IsFiniteSet(A) /\ IsFiniteSet(A1)
      BY <1>3, <2>1, FS_Subset
    <2>3. \A o \in A : g[o] = Filled(ms, o.id) /\ g[o] \in Nat
      BY <1>4, <2>1 DEF FilledOf
    <2>4. \A o \in A \ A1 : g[o] = 0
      <3> SUFFICES ASSUME NEW o \in A, o \notin A1, g[o] # 0 PROVE FALSE
        OBVIOUS
      <3>1. o \in sells /\ o.price > q /\ o.price \in Nat
        BY <1>1, <1>2, <2>1 DEF Sellers
      <3>2. Better("Sell", a, o)
        BY <1>2, <3>1 DEF Better, BetterAsk
      <3>3. Filled(ms, o.id) > 0
        BY <2>3
      <3>4. Filled(ms, a.id) = a.remaining \/ \E c \in buys : c.trader = a.trader
        BY <1>4, <3>1, <3>2, <3>3 DEF Priority
      <3> QED
        BY <3>4 DEF Apart
    <2> HIDE DEF g, A, A1
    <2>5. Total(g, A1) = v
      BY <1>4, <2>1, <2>2, <2>3, <2>4, TotalOfPart
    <2>6. \A o \in A1 : g[o] \in Nat /\ Rest(sells)[o] \in Nat /\ g[o] <= Rest(sells)[o]
      BY <1>1, <1>3, <1>4, <2>1, <2>3
    <2>7. Total(g, A1) + (Rest(sells)[a] - g[a]) <= Total(Rest(sells), A1)
      BY <2>1, <2>2, <2>6, TotalLeaves
    <2>8. Rest(sells)[a] - g[a] > 0
      <3>1. Filled(ms, a.id) \in Nat /\ Filled(ms, a.id) <= a.remaining /\ a.remaining \in Nat
        BY <1>1, <1>4
      <3>2. g[a] = Filled(ms, a.id) /\ Rest(sells)[a] = a.remaining
        BY <1>3, <2>1, <2>3
      <3> QED
        BY <3>1, <3>2
    <2>9. Rest(sells)[a] \in Nat /\ g[a] \in Nat
      BY <2>1, <2>6
    <2>10. Supply(sells, q) = Total(Rest(sells), A1)
      BY DEF Supply, A1
    <2> QED
      BY <1>6, <1>7, <2>5, <2>7, <2>8, <2>9, <2>10
  <1>10. VolumeAt(buys, sells, q) > v
    BY <1>6, <1>7, <1>8, <1>9 DEF Lesser
  <1>11. VolumeAt(buys, sells, q) <= v
    BY <1>2, <1>5
  <1>12. VolumeAt(buys, sells, q) \in Nat
    BY VolumeIsLesser
  <1> QED
    BY <1>7, <1>10, <1>11, <1>12

(* Nor does an ask above the price that the round leaves.                  *)
LEMMA HighAskDoesNotCross ==
    ASSUME NEW buys, NEW sells, Standing(buys, sells), Apart(buys, sells),
           NEW price \in Nat, NEW ms, Settles(buys, sells, price, ms),
           \A p \in Nat : VolumeAt(buys, sells, p) <= VolumeAt(buys, sells, price),
           NEW b \in buys, NEW a \in sells, a.price > price, a.price <= b.price
    PROVE  Filled(ms, b.id) = b.remaining
  <1> SUFFICES ASSUME Filled(ms, b.id) # b.remaining PROVE FALSE
    OBVIOUS
  <1> DEFINE q == a.price
             B == Buyers(buys, price)
             A == Sellers(sells, price)
             B1 == Buyers(buys, q)
             g == FilledOf(B, ms)
             v == Volume(ms)
  <1>1. \A o \in buys \cup sells : o.price \in Nat /\ o.remaining \in Nat \ {0}
    BY DEF Standing
  <1>2. q \in Nat /\ b.price \in Nat
    BY <1>1
  <1>3. /\ IsFiniteSet(buys) /\ IsFiniteSet(sells)
        /\ \A o \in buys : Rest(buys)[o] = o.remaining
        /\ \A o \in sells : Rest(sells)[o] = o.remaining
    BY SidesFinite
  <1>4. /\ \A o \in buys \cup sells : Filled(ms, o.id) \in Nat /\ Filled(ms, o.id) <= o.remaining
        /\ Total(g, B) = v
        /\ Priority("Buy", buys, sells, ms)
    BY DEF Settles
  <1>5. v = VolumeAt(buys, sells, price)
    BY FillsExecuteVolume
  <1>6. /\ VolumeAt(buys, sells, price) = Lesser(Demand(buys, price), Supply(sells, price))
        /\ VolumeAt(buys, sells, q) = Lesser(Demand(buys, q), Supply(sells, q))
        /\ Demand(buys, price) \in Nat /\ Supply(sells, price) \in Nat
        /\ Demand(buys, q) \in Nat /\ Supply(sells, q) \in Nat
    BY VolumeIsLesser
  <1>7. v \in Nat /\ v <= Supply(sells, price)
    BY <1>5, <1>6 DEF Lesser
  <1>8. Supply(sells, q) > v
    <2> DEFINE A1 == Sellers(sells, q)
    <2>1. A \cup {a} \in SUBSET A1 /\ A1 \in SUBSET sells /\ a \notin A /\ A \in SUBSET sells
      BY <1>1, <1>2 DEF Sellers
    <2>2. IsFiniteSet(A) /\ IsFiniteSet(A1)
      BY <1>3, <2>1, FS_Subset
    <2>3. /\ \A o \in A : Rest(sells)[o] \in Nat
          /\ \A o \in A1 : Rest(sells)[o] \in Nat
          /\ Rest(sells)[a] \in Nat \ {0}
      BY <1>1, <1>3, <2>1
    <2> HIDE DEF A, A1
    <2>4. Total(Rest(sells), A \cup {a}) = Total(Rest(sells), A) + Rest(sells)[a]
      BY <2>1, <2>2, <2>3, SumAdds
    <2>5. Total(Rest(sells), A \cup {a}) <= Total(Rest(sells), A1)
      BY <2>1, <2>2, <2>3, TotalOfFewer
    <2>6. Supply(sells, price) + Rest(sells)[a] <= Supply(sells, q)
      BY <2>4, <2>5 DEF Supply, A, A1
    <2> QED
      BY <1>6, <1>7, <2>3, <2>6
  <1>9. Demand(buys, q) > v
    <2>1. B1 \in SUBSET B /\ B \in SUBSET buys /\ B1 \in SUBSET buys /\ b \in B1
      BY <1>1, <1>2 DEF Buyers
    <2>2. IsFiniteSet(B) /\ IsFiniteSet(B1)
      BY <1>3, <2>1, FS_Subset
    <2>3. \A o \in B : g[o] = Filled(ms, o.id) /\ g[o] \in Nat
      BY <1>4, <2>1 DEF FilledOf
    <2>4. \A o \in B \ B1 : g[o] = 0
      <3> SUFFICES ASSUME NEW o \in B, o \notin B1, g[o] # 0 PROVE FALSE
        OBVIOUS
      <3>1. o \in buys /\ o.price < q /\ o.price \in Nat
        BY <1>1, <1>2, <2>1 DEF Buyers
      <3>2. Better("Buy", b, o)
        BY <1>2, <3>1 DEF Better, BetterBid
      <3>3. Filled(ms, o.id) > 0
        BY <2>3
      <3>4. Filled(ms, b.id) = b.remaining \/ \E c \in sells : c.trader = b.trader
        BY <1>4, <3>1, <3>2, <3>3 DEF Priority
      <3> QED
        BY <3>4 DEF Apart
    <2> HIDE DEF g, B, B1
    <2>5. Total(g, B1) = v
      BY <1>4, <2>1, <2>2, <2>3, <2>4, TotalOfPart
    <2>6. \A o \in B1 : g[o] \in Nat /\ Rest(buys)[o] \in Nat /\ g[o] <= Rest(buys)[o]
      BY <1>1, <1>3, <1>4, <2>1, <2>3
    <2>7. Total(g, B1) + (Rest(buys)[b] - g[b]) <= Total(Rest(buys), B1)
      BY <2>1, <2>2, <2>6, TotalLeaves
    <2>8. Rest(buys)[b] - g[b] > 0
      <3>1. Filled(ms, b.id) \in Nat /\ Filled(ms, b.id) <= b.remaining /\ b.remaining \in Nat
        BY <1>1, <1>4
      <3>2. g[b] = Filled(ms, b.id) /\ Rest(buys)[b] = b.remaining
        BY <1>3, <2>1, <2>3
      <3> QED
        BY <3>1, <3>2
    <2>9. Rest(buys)[b] \in Nat /\ g[b] \in Nat
      BY <2>1, <2>6
    <2>10. Demand(buys, q) = Total(Rest(buys), B1)
      BY DEF Demand, B1
    <2> QED
      BY <1>6, <1>7, <2>5, <2>7, <2>8, <2>9, <2>10
  <1>10. VolumeAt(buys, sells, q) > v
    BY <1>6, <1>7, <1>8, <1>9 DEF Lesser
  <1>11. VolumeAt(buys, sells, q) <= v
    BY <1>2, <1>5
  <1>12. VolumeAt(buys, sells, q) \in Nat
    BY VolumeIsLesser
  <1> QED
    BY <1>7, <1>10, <1>11, <1>12

(* A round settles at a price that no price executes more than; it is the  *)
(* clearing price, or 0 when the sides do not cross.                       *)
Clears(buys, sells, res, price) ==
    /\ Settles(buys, sells, price, res.matches)
    /\ \A p \in Nat : VolumeAt(buys, sells, p) <= VolumeAt(buys, sells, price)
    /\ price = 0 \/ \E o \in buys \cup sells : price <= o.price
    /\ res # NoAuction => res.price = price

LEMMA RunClears ==
    ASSUME NEW buys, NEW sells, Standing(buys, sells)
    PROVE  \E price \in Nat : Clears(buys, sells, run(buys, sells), price)
  <1> DEFINE res == run(buys, sells)
  <1>1. CASE Crosses(buys, sells)
    <2> DEFINE price == compute_clearing_price(buys, sells)
    <2>1. /\ price \in Nat
          /\ \A p \in Nat : VolumeAt(buys, sells, p) <= VolumeAt(buys, sells, price)
          /\ \E o \in buys \cup sells : price <= o.price
      BY <1>1, ClearingPrice
    <2>2. Settles(buys, sells, price, Matching(buys, sells))
      BY <2>1, MatchesSettle DEF Matching
    <2>3. res.matches = Matching(buys, sells) /\ (res # NoAuction => res.price = price)
      BY <1>1, RunCases
    <2> HIDE DEF price, res
    <2>4. Clears(buys, sells, res, price)
      BY <2>1, <2>2, <2>3 DEF Clears
    <2> QED
      BY <2>1, <2>4 DEF res
  <1>2. CASE ~Crosses(buys, sells)
    <2> DEFINE ms == match_orders(buys, sells, 0)
    <2>1. res = NoAuction /\ res.matches = <<>>
      BY <1>2, RunCases DEF NoAuction
    <2>2. Settles(buys, sells, 0, ms)
      BY MatchesSettle
    <2>3. \A o \in buys \cup sells : o.price \in Nat \ {0}
      BY DEF Standing
    <2>4. Legal(Buyers(buys, 0), Sellers(sells, 0), 0) = {}
      <3>1. Sellers(sells, 0) = {}
        BY <2>3 DEF Sellers
      <3> QED
        BY <3>1 DEF Legal
    <2>5. ms = <<>>
      <3>1. ms \in Seq({})
        BY <2>2, <2>4 DEF Settles
      <3> HIDE DEF ms
      <3>2. ASSUME Len(ms) # 0 PROVE FALSE
        <4>1. 1 \in 1..Len(ms)
          BY <3>1, <3>2
        <4> QED
          BY <3>1, <4>1, ElementOfSeq
      <3> QED
        BY <3>1, <3>2, EmptySeq
    <2>6. \A p \in Nat : VolumeAt(buys, sells, p) = 0
      <3> SUFFICES ASSUME NEW p \in Nat PROVE VolumeAt(buys, sells, p) = 0
        OBVIOUS
      <3>1. ~\E b \in buys, a \in sells : b.price >= p /\ a.price <= p
        BY <1>2, <2>3 DEF Crosses
      <3>2. VolumeAt(buys, sells, p) \in Nat /\ ~(VolumeAt(buys, sells, p) > 0)
        BY <3>1, VolumeNeedsBoth, VolumeIsLesser
      <3> QED
        BY <3>2
    <2> HIDE DEF ms, res
    <2>7. Clears(buys, sells, res, 0)
      BY <2>1, <2>2, <2>5, <2>6 DEF Clears
    <2> QED
      BY <2>7 DEF res
  <1> QED
    BY <1>1, <1>2

-----------------------------------------------------------------------------
(* The invariant of the rounds.                                            *)

(* The orders of one side that were given sequence numbers up to n.        *)
Posted(S, n) ==
    /\ IsFiniteSet(S)
    /\ S \subseteq [id : 1..n, trader : Addresses, price : Prices, seq : 1..n,
                    remaining : Nat \ {0}]
    /\ \A o \in S : o.id = o.seq
    /\ \A o, p \in S : o.id = p.id => o = p

BookPosted(buys, sells, n) ==
    /\ n \in Nat
    /\ Posted(buys, n) /\ Posted(sells, n)
    /\ \A b \in buys, a \in sells : b.id # a.id

(* The last round was run on a book that could stand, and what its fills   *)
(* left of that book is the book now.                                      *)
RoundRan ==
    /\ BookPosted(round.bids, round.asks, seq)
    /\ round.result = run(round.bids, round.asks)
    /\ round # NoRound =>
            /\ bids = apply_fills(round.bids, round.result.matches)
            /\ asks = apply_fills(round.asks, round.result.matches)

RoundsInv == BookPosted(bids, asks, seq) /\ RoundRan

LEMMA PostedStands ==
    ASSUME NEW buys, NEW sells, NEW n, BookPosted(buys, sells, n)
    PROVE  Standing(buys, sells)
  <1>1. ASSUME NEW S \in {buys, sells} PROVE IsSide(S) /\ Named(S)
    <2>1. Posted(S, n) /\ n \in Nat
      BY <1>1 DEF BookPosted
    <2>2. Prices \subseteq Nat /\ 1..n \subseteq Nat
      BY <2>1, RoundsAssumption
    <2>3. \A o \in S : o.price \in Prices /\ o.seq \in 1..n /\ o.remaining \in Nat /\ o.id = o.seq
      BY <2>1 DEF Posted
    <2>4. \A o \in S : o.price \in Nat /\ o.seq \in Nat /\ o.remaining \in Nat /\ o.id = o.seq
      BY <2>2, <2>3
    <2> QED
      BY <2>1, <2>4 DEF Posted, IsSide, Named
  <1>2. \A o \in buys \cup sells : o.price \in Nat \ {0} /\ o.remaining \in Nat \ {0}
    BY RoundsAssumption DEF BookPosted, Posted
  <1> QED
    BY <1>1, <1>2 DEF Standing, TwoSides, BookPosted

LEMMA PostedLater ==
    ASSUME NEW S, NEW n \in Nat, Posted(S, n)
    PROVE  Posted(S, n + 1)
  <1>1. 1..n \subseteq 1..(n + 1)
    OBVIOUS
  <1> QED
    BY <1>1 DEF Posted

LEMMA PostedAdds ==
    ASSUME NEW S, NEW n \in Nat, Posted(S, n),
           NEW t \in Addresses, NEW p \in Prices, NEW s \in Sizes,
           NEW o, o = [id |-> n + 1, trader |-> t, price |-> p, seq |-> n + 1, remaining |-> s]
    PROVE  Posted(S \cup {o}, n + 1)
  <1>1. Posted(S, n + 1)
    BY PostedLater
  <1>2. o \in [id : 1..(n + 1), trader : Addresses, price : Prices, seq : 1..(n + 1),
               remaining : Nat \ {0}]
    BY RoundsAssumption
  <1>3. \A q \in S : q.id # o.id
    BY DEF Posted
  <1>4. IsFiniteSet(S \cup {o})
    BY FS_AddElement DEF Posted
  <1> QED
    BY <1>1, <1>2, <1>3, <1>4 DEF Posted

(* What the fills ms leave of an order.                                    *)
LeftOf(o, ms) == [o EXCEPT !.remaining = @ - Filled(ms, o.id)]

(* The fills ms leave of the orders of S those not filled to the end, with *)
(* what is left.                                                           *)
Leaves(S, n, ms) ==
    /\ \A o \in S : /\ LeftOf(o, ms).id = o.id /\ LeftOf(o, ms).seq = o.seq
                    /\ LeftOf(o, ms).trader = o.trader /\ LeftOf(o, ms).price = o.price
                    /\ LeftOf(o, ms).remaining = o.remaining - Filled(ms, o.id)
    /\ \A q \in apply_fills(S, ms) :
            \E o \in S : q = LeftOf(o, ms) /\ Filled(ms, o.id) # o.remaining
    /\ Posted(apply_fills(S, ms), n)

LEMMA LeftOver ==
    ASSUME NEW S, NEW n, Posted(S, n), NEW ms,
           \A o \in S : Filled(ms, o.id) \in Nat /\ Filled(ms, o.id) <= o.remaining
    PROVE  Leaves(S, n, ms)
  <1> DEFINE R == [id : 1..n, trader : Addresses, price : Prices, seq : 1..n, remaining : Nat \ {0}]
             L == apply_fills(S, ms)
             f == [o \in S |-> LeftOf(o, ms)]
  <1>1. IsFiniteSet(S) /\ S \subseteq R
        /\ (\A o \in S : o.id = o.seq) /\ (\A o, p \in S : o.id = p.id => o = p)
    BY DEF Posted
  <1>2. \A o \in S : /\ LeftOf(o, ms).id = o.id /\ LeftOf(o, ms).seq = o.seq
                     /\ LeftOf(o, ms).trader = o.trader /\ LeftOf(o, ms).price = o.price
                     /\ LeftOf(o, ms).remaining = o.remaining - Filled(ms, o.id)
    BY <1>1 DEF LeftOf
  <1>3. L = {q \in {LeftOf(o, ms) : o \in S} : q.remaining > 0}
    BY DEF apply_fills, LeftOf
  <1>4. \A o \in S : o.remaining \in Nat
    BY <1>1
  <1> HIDE DEF L
  <1>5. \A q \in L : \E o \in S : q = LeftOf(o, ms) /\ Filled(ms, o.id) # o.remaining
    BY <1>2, <1>3, <1>4
  <1>6. IsFiniteSet(L)
    <2>1. {LeftOf(o, ms) : o \in S} = {f[o] : o \in S}
      OBVIOUS
    <2>2. IsFiniteSet({f[o] : o \in S})
      <3> HIDE DEF f
      <3> QED
        BY <1>1, FiniteImage
    <2>3. L \in SUBSET {f[o] : o \in S}
      BY <1>3, <2>1
    <2> HIDE DEF f
    <2> QED
      BY <2>2, <2>3, FS_Subset
  <1>7. L \subseteq R
    <2> SUFFICES ASSUME NEW o \in S, Filled(ms, o.id) # o.remaining PROVE LeftOf(o, ms) \in R
      BY <1>5
    <2>1. o \in R
      BY <1>1
    <2>2. o.remaining - Filled(ms, o.id) \in Nat \ {0}
      BY <1>4
    <2> QED
      BY <2>1, <2>2 DEF LeftOf
  <1>8. \A q \in L : q.id = q.seq
    BY <1>1, <1>2, <1>5
  <1>9. \A q, r \in L : q.id = r.id => q = r
    <2> SUFFICES ASSUME NEW q \in L, NEW r \in L, q.id = r.id PROVE q = r
      OBVIOUS
    <2>1. PICK o \in S : q = LeftOf(o, ms)
      BY <1>5
    <2>2. PICK p \in S : r = LeftOf(p, ms)
      BY <1>5
    <2> QED
      BY <1>1, <1>2, <2>1, <2>2
  <1>10. Posted(L, n)
    BY <1>6, <1>7, <1>8, <1>9 DEF Posted
  <1> QED
    BY <1>2, <1>5, <1>10 DEF L, Leaves

LEMMA RoundsInvInit ==
    ASSUME RoundsInit PROVE RoundsInv
  <1>1. BookPosted({}, {}, 0)
    BY FS_EmptySet DEF BookPosted, Posted
  <1>2. NoAuction = run({}, {})
    BY DEF run
  <1> QED
    BY <1>1, <1>2 DEF RoundsInit, RoundsInv, RoundRan, NoRound

LEMMA InsertKeeps ==
    ASSUME RoundsInv, NEW side \in {"Buy", "Sell"}, NEW t \in Addresses, NEW p \in Prices,
           NEW s \in Sizes, insert_order(side, t, p, s)
    PROVE  RoundsInv'
  <1> DEFINE o == [id |-> seq + 1, trader |-> t, price |-> p, seq |-> seq + 1, remaining |-> s]
  <1>1. BookPosted(bids, asks, seq)
    BY DEF RoundsInv
  <1>2. /\ seq' = seq + 1 /\ round' = NoRound
        /\ \/ bids' = bids \cup {o} /\ asks' = asks
           \/ bids' = bids /\ asks' = asks \cup {o}
    BY DEF insert_order
  <1>3. seq \in Nat /\ o.id = seq + 1
    BY <1>1 DEF BookPosted
  <1>4. \A q \in bids \cup asks : q.id # o.id
    BY <1>1, <1>3 DEF BookPosted, Posted
  <1>5. /\ Posted(bids, seq + 1) /\ Posted(asks, seq + 1)
        /\ Posted(bids \cup {o}, seq + 1) /\ Posted(asks \cup {o}, seq + 1)
    BY <1>1, PostedLater, PostedAdds DEF BookPosted
  <1> HIDE DEF o
  <1>6. \A b \in bids', a \in asks' : b.id # a.id
    BY <1>1, <1>2, <1>4 DEF BookPosted
  <1>7. BookPosted(bids', asks', seq')
    <2>1. Posted(bids', seq') /\ Posted(asks', seq')
      BY <1>2, <1>5
    <2>2. seq' \in Nat
      BY <1>2, <1>3
    <2> QED
      BY <1>6, <2>1, <2>2 DEF BookPosted
  <1>8. RoundRan'
    <2>1. round'.bids = {} /\ round'.asks = {} /\ round'.result = NoAuction
      BY <1>2 DEF NoRound
    <2>2. BookPosted({}, {}, seq')
      BY <1>2, <1>3, FS_EmptySet DEF BookPosted, Posted
    <2>3. NoAuction = run({}, {})
      BY DEF run
    <2> QED
      BY <1>2, <2>1, <2>2, <2>3 DEF RoundRan
  <1> QED
    BY <1>7, <1>8 DEF RoundsInv

LEMMA RunRoundKeeps ==
    ASSUME RoundsInv, RunRound
    PROVE  RoundsInv'
  <1> DEFINE ms == run(bids, asks).matches
  <1>1. BookPosted(bids, asks, seq)
    BY DEF RoundsInv
  <1>2. /\ seq' = seq
        /\ round' = [bids |-> bids, asks |-> asks, result |-> run(bids, asks)]
        /\ bids' = apply_fills(bids, ms) /\ asks' = apply_fills(asks, ms)
    BY DEF RunRound
  <1>3. \A o \in bids \cup asks : Filled(ms, o.id) \in Nat /\ Filled(ms, o.id) <= o.remaining
    <2>1. PICK price \in Nat : Clears(bids, asks, run(bids, asks), price)
      BY <1>1, PostedStands, RunClears
    <2> QED
      BY <2>1 DEF Clears, Settles
  <1> HIDE DEF ms
  <1>4. \A S \in {bids, asks} :
            /\ Posted(apply_fills(S, ms), seq)
            /\ \A q \in apply_fills(S, ms) : \E o \in S : q.id = o.id
    <2> SUFFICES ASSUME NEW S \in {bids, asks}
                 PROVE  /\ Posted(apply_fills(S, ms), seq)
                        /\ \A q \in apply_fills(S, ms) : \E o \in S : q.id = o.id
      OBVIOUS
    <2>1. Posted(S, seq)
      BY <1>1 DEF BookPosted
    <2>2. \A o \in S : Filled(ms, o.id) \in Nat /\ Filled(ms, o.id) <= o.remaining
      BY <1>3
    <2>3. Leaves(S, seq, ms)
      BY <2>1, <2>2, LeftOver
    <2> QED
      BY <2>3 DEF Leaves
  <1>5. BookPosted(bids', asks', seq')
    BY <1>1, <1>2, <1>4 DEF BookPosted
  <1>6. RoundRan'
    BY <1>1, <1>2 DEF RoundRan, ms
  <1> QED
    BY <1>5, <1>6 DEF RoundsInv

LEMMA RoundsInvStep ==
    ASSUME RoundsInv, [RoundsNext]_rounds_vars
    PROVE  RoundsInv'
  <1>1. CASE UNCHANGED rounds_vars
    BY <1>1 DEF rounds_vars, RoundsInv, RoundRan
  <1>2. CASE RoundsNext
    BY <1>2, InsertKeeps, RunRoundKeeps DEF RoundsNext
  <1> QED
    BY <1>1, <1>2

(* Every book the rounds reach is a well-formed one, and the book after a  *)
(* round is what its fills left of a well-formed book.                     *)
THEOREM RoundsInductive == RoundsSpec => []RoundsInv
  <1>1. RoundsInit => RoundsInv
    BY RoundsInvInit
  <1>2. RoundsInv /\ [RoundsNext]_rounds_vars => RoundsInv'
    BY RoundsInvStep
  <1> QED
    BY <1>1, <1>2, PTL DEF RoundsSpec

LEMMA LastRound ==
    ASSUME RoundsInv
    PROVE  /\ Standing(round.bids, round.asks)
           /\ \E price \in Nat : Clears(round.bids, round.asks, round.result, price)
  BY PostedStands, RunClears DEF RoundsInv, RoundRan

LEMMA RoundFillsAcceptable ==
    ASSUME RoundsInv PROVE FillsAcceptable
  <1> DEFINE buys == round.bids
             sells == round.asks
             ms == round.result.matches
             Sum(S) == MapThenSumSet(LAMBDA o : Filled(ms, o.id), S)
  <1>1. Standing(buys, sells)
    BY LastRound
  <1>2. PICK price \in Nat : Settles(buys, sells, price, ms)
    BY LastRound DEF Clears
  <1> DEFINE B == Buyers(buys, price)
             A == Sellers(sells, price)
  <1>3. \A o \in buys \cup sells : Filled(ms, o.id) \in Nat /\ Filled(ms, o.id) <= o.remaining
    BY <1>2 DEF Settles
  <1>4. ASSUME NEW S, NEW P \in SUBSET S, IsFiniteSet(S), \A o \in S : Filled(ms, o.id) \in Nat,
               \A o \in S \ P : Filled(ms, o.id) = 0, Total(FilledOf(P, ms), P) = Volume(ms)
        PROVE  Sum(S) = Volume(ms)
    <2> DEFINE g == FilledOf(S, ms)
    <2>1. Sum(S) = Total(g, S)
      BY <1>4, FilledIsTotal DEF FilledOf
    <2>2. \A o \in S : g[o] = Filled(ms, o.id)
      BY DEF FilledOf
    <2>3. \A o \in P : FilledOf(P, ms)[o] = g[o]
      BY <2>2 DEF FilledOf
    <2> HIDE DEF g
    <2>4. Total(g, P) = Total(g, S)
      BY <1>4, <2>2, TotalOfPart
    <2>5. IsFiniteSet(P)
      BY <1>4, FS_Subset
    <2>6. Total(FilledOf(P, ms), P) = Total(g, P)
      BY <2>3, <2>5, SumSame
    <2> HIDE DEF Sum
    <2> QED
      BY <1>4, <2>1, <2>4, <2>6
  <1>5. Sum(buys) = Volume(ms)
    <2>1. B \in SUBSET buys /\ IsFiniteSet(buys)
      BY <1>1, SidesFinite DEF Buyers
    <2>2. (\A o \in buys \ B : Filled(ms, o.id) = 0) /\ Total(FilledOf(B, ms), B) = Volume(ms)
      BY <1>2 DEF Settles
    <2> HIDE DEF Sum, B, buys
    <2> QED
      BY <1>3, <1>4, <2>1, <2>2
  <1>6. Sum(sells) = Volume(ms)
    <2>1. A \in SUBSET sells /\ IsFiniteSet(sells)
      BY <1>1, SidesFinite DEF Sellers
    <2>2. (\A o \in sells \ A : Filled(ms, o.id) = 0) /\ Total(FilledOf(A, ms), A) = Volume(ms)
      BY <1>2 DEF Settles
    <2> HIDE DEF Sum, A, sells
    <2> QED
      BY <1>3, <1>4, <2>1, <2>2
  <1>7. ASSUME NEW k \in 1..Len(ms)
        PROVE  /\ OrderOf(buys, ms[k].bid).price >= ms[k].price
               /\ ms[k].price >= OrderOf(sells, ms[k].ask).price
               /\ OrderOf(buys, ms[k].bid).trader # OrderOf(sells, ms[k].ask).trader
    <2>1. ms \in Seq(Legal(B, A, price))
      BY <1>2 DEF Settles
    <2>2. ms[k] \in Legal(B, A, price)
      BY <2>1, ElementOfSeq
    <2>3. PICK b \in B, a \in A : /\ ms[k].bid = b.id /\ ms[k].ask = a.id
                                  /\ b.trader # a.trader /\ ms[k].price = price
      BY <2>2 DEF Legal
    <2>4. b \in buys /\ a \in sells /\ b.price >= price /\ price >= a.price
      BY <1>1 DEF Buyers, Sellers, Standing
    <2>5. OrderOf(buys, ms[k].bid) = b
      BY <1>1, <2>3, <2>4 DEF OrderOf, Standing, Named
    <2>6. OrderOf(sells, ms[k].ask) = a
      BY <1>1, <2>3, <2>4 DEF OrderOf, Standing, Named
    <2> QED
      BY <2>3, <2>4, <2>5, <2>6
  <1> HIDE DEF Sum
  <1>8. Sum(buys) = Sum(sells)
    BY <1>5, <1>6
  <1> QED
    BY <1>3, <1>7, <1>8 DEF FillsAcceptable, Sum

LEMMA RoundExecutesMost ==
    ASSUME RoundsInv PROVE RoundMaximisesVolume
  <1> DEFINE buys == round.bids
             sells == round.asks
             ms == round.result.matches
             Vol(p) == VolumeAt(buys, sells, p)
             V == {Vol(p) : p \in PricesAround}
  <1> SUFFICES ASSUME NoSelfCross(round) PROVE Executed(round) = Max(V)
    BY DEF RoundMaximisesVolume
  <1>1. Standing(buys, sells) /\ Apart(buys, sells)
    BY LastRound DEF Apart, NoSelfCross
  <1>2. PICK price \in Nat : Clears(buys, sells, round.result, price)
    BY LastRound
  <1>3. /\ Settles(buys, sells, price, ms)
        /\ \A p \in Nat : Vol(p) <= Vol(price)
        /\ price = 0 \/ \E o \in buys \cup sells : price <= o.price
    BY <1>2 DEF Clears
  <1>4. Executed(round) = Vol(price)
    <2>1. Volume(ms) = VolumeAt(buys, sells, price)
      BY <1>1, <1>3, FillsExecuteVolume
    <2> QED
      BY <2>1 DEF Executed, Volume
  <1>5. Prices \in SUBSET Nat /\ IsFiniteSet(Prices) /\ Prices # {}
    BY RoundsAssumption
  <1>6. Max(Prices) \in Nat /\ \A p \in Prices : Max(Prices) >= p
    BY <1>5, MaxOfFinite
  <1>7. price \in PricesAround
    <2>1. \A o \in buys \cup sells : o.price \in Prices
      BY DEF RoundsInv, RoundRan, BookPosted, Posted
    <2>2. price <= Max(Prices)
      <3>1. CASE price = 0
        BY <1>6, <3>1
      <3>2. CASE \E o \in buys \cup sells : price <= o.price
        <4>1. PICK p \in Prices : price <= p
          BY <2>1, <3>2
        <4>2. p \in Nat /\ p <= Max(Prices)
          BY <1>5, <1>6
        <4> QED
          BY <1>6, <4>1, <4>2
      <3> QED
        BY <1>3, <3>1, <3>2
    <2> QED
      BY <1>6, <2>2 DEF PricesAround
  <1>8. \A p : Vol(p) \in Nat
    BY <1>1, VolumeIsLesser
  <1>9. PricesAround \subseteq Nat /\ IsFiniteSet(PricesAround)
    <2>1. 0 \in Int /\ Max(Prices) + 1 \in Int
      BY <1>6
    <2>2. IsFiniteSet(0..(Max(Prices) + 1))
      BY <2>1, FS_Interval
    <2> QED
      BY <1>6, <2>2 DEF PricesAround
  <1> HIDE DEF Vol
  <1>10. V \in SUBSET Nat /\ IsFiniteSet(V) /\ Vol(price) \in V /\ \A v \in V : v <= Vol(price)
    <2> DEFINE f == [p \in PricesAround |-> Vol(p)]
    <2>1. V = {f[p] : p \in PricesAround}
      OBVIOUS
    <2>2. IsFiniteSet({f[p] : p \in PricesAround})
      <3> HIDE DEF f
      <3> QED
        BY <1>9, FiniteImage
    <2>3. IsFiniteSet(V)
      BY <2>1, <2>2
    <2>4. V \in SUBSET Nat /\ Vol(price) \in V
      BY <1>7, <1>8
    <2>5. \A v \in V : v <= Vol(price)
      BY <1>3, <1>9 DEF Vol
    <2> QED
      BY <2>3, <2>4, <2>5
  <1> HIDE DEF V
  <1>11. Max(V) \in V /\ \A v \in V : Max(V) >= v
    BY <1>10, MaxOfFinite
  <1>12. Max(V) = Vol(price)
    <2>1. Max(V) \in Nat /\ Max(V) <= Vol(price) /\ Max(V) >= Vol(price)
      BY <1>10, <1>11
    <2> QED
      BY <1>8, <2>1
  <1> QED
    BY <1>4, <1>12

LEMMA RoundKeepsPriority ==
    ASSUME RoundsInv PROVE PriceTimePriority
  <1>1. PICK price \in Nat : Settles(round.bids, round.asks, price, round.result.matches)
    BY LastRound DEF Clears
  <1>2. /\ Priority("Buy", round.bids, round.asks, round.result.matches)
        /\ Priority("Sell", round.asks, round.bids, round.result.matches)
    BY <1>1 DEF Settles
  <1> QED
    BY <1>2 DEF Priority, PriceTimePriority

LEMMA RoundLeavesNothing ==
    ASSUME RoundsInv PROVE NothingEligibleLeft
  <1> DEFINE buys == round.bids
             sells == round.asks
             ms == round.result.matches
  <1>1. Standing(buys, sells)
    BY LastRound
  <1>2. PICK price \in Nat : Clears(buys, sells, round.result, price)
    BY LastRound
  <1>3. /\ Settles(buys, sells, price, ms)
        /\ \A p \in Nat : VolumeAt(buys, sells, p) <= VolumeAt(buys, sells, price)
        /\ round.result # NoAuction => round.result.price = price
    BY <1>2 DEF Clears
  <1>4. /\ \A o \in buys \cup sells : Filled(ms, o.id) \in Nat /\ Filled(ms, o.id) <= o.remaining
        /\ \A b \in Buyers(buys, price), a \in Sellers(sells, price) : b.trader # a.trader =>
                Filled(ms, b.id) = b.remaining \/ Filled(ms, a.id) = a.remaining
    BY <1>3 DEF Settles
  <1>5. \A o \in buys \cup sells : o.price \in Nat /\ o.remaining \in Nat
    BY <1>1 DEF Standing
  <1>6. ASSUME NEW b \in buys, NEW a \in sells, b.trader # a.trader,
               b.price >= price, price >= a.price
        PROVE  b.remaining - Filled(ms, b.id) = 0 \/ a.remaining - Filled(ms, a.id) = 0
    <2>1. b \in Buyers(buys, price) /\ a \in Sellers(sells, price)
      BY <1>5, <1>6 DEF Buyers, Sellers
    <2>2. Filled(ms, b.id) = b.remaining \/ Filled(ms, a.id) = a.remaining
      BY <1>4, <1>6, <2>1
    <2> QED
      BY <1>5, <2>2
  <1>7. ASSUME round # NoRound, NoSelfCross(round), NEW b1 \in bids, NEW a1 \in asks
        PROVE  b1.price < a1.price
    <2>1. Apart(buys, sells)
      BY <1>7 DEF Apart, NoSelfCross
    <2>2. /\ bids = apply_fills(buys, ms) /\ asks = apply_fills(sells, ms)
          /\ Posted(buys, seq) /\ Posted(sells, seq)
      BY <1>7 DEF RoundsInv, RoundRan, BookPosted
    <2>3. \A S \in {buys, sells} : \A q \in apply_fills(S, ms) :
                \E o \in S : q.price = o.price /\ Filled(ms, o.id) # o.remaining
      <3> SUFFICES ASSUME NEW S \in {buys, sells}
                   PROVE  \A q \in apply_fills(S, ms) :
                            \E o \in S : q.price = o.price /\ Filled(ms, o.id) # o.remaining
        OBVIOUS
      <3>1. Posted(S, seq)
        BY <2>2
      <3>2. \A o \in S : Filled(ms, o.id) \in Nat /\ Filled(ms, o.id) <= o.remaining
        BY <1>4
      <3>3. Leaves(S, seq, ms)
        BY <3>1, <3>2, LeftOver
      <3> QED
        BY <3>3 DEF Leaves
    <2>4. PICK b \in buys : b1.price = b.price /\ Filled(ms, b.id) # b.remaining
      BY <2>2, <2>3
    <2>5. PICK a \in sells : a1.price = a.price /\ Filled(ms, a.id) # a.remaining
      BY <2>2, <2>3
    <2>6. ASSUME a.price <= b.price PROVE FALSE
      <3>1. ~(b.price < price)
        BY <1>1, <1>3, <2>1, <2>5, <2>6, LowBidDoesNotCross
      <3>2. ~(a.price > price)
        BY <1>1, <1>3, <2>1, <2>4, <2>6, HighAskDoesNotCross
      <3>3. b \in Buyers(buys, price) /\ a \in Sellers(sells, price)
        BY <1>5, <3>1, <3>2 DEF Buyers, Sellers
      <3>4. b.trader # a.trader
        BY <2>1 DEF Apart
      <3> QED
        BY <1>4, <2>4, <2>5, <3>3, <3>4
    <2> QED
      BY <1>5, <2>4, <2>5, <2>6
  <1> QED
    BY <1>3, <1>6, <1>7 DEF NothingEligibleLeft

(* Every round fills its orders acceptably: no order beyond what it has,   *)
(* bids and asks by the same volume, every fill within both limits and     *)
(* between two traders (dp-auction match_orders, compute_clearing_price).  *)
THEOREM RoundsFillAcceptably == RoundsSpec => []FillsAcceptable
  <1>1. RoundsInv => FillsAcceptable
    BY RoundFillsAcceptable
  <1> QED
    BY <1>1, RoundsInductive, PTL

(* The rounded midpoint of the extreme tied limits executes as much as any *)
(* price could, and the greedy allocation executes all of it.              *)
THEOREM RoundsMaximiseVolume == RoundsSpec => []RoundMaximisesVolume
  <1>1. RoundsInv => RoundMaximisesVolume
    BY RoundExecutesMost
  <1> QED
    BY <1>1, RoundsInductive, PTL

(* An order gets a fill only when the better orders of its side are filled *)
(* to the end, but for what self-trade prevention kept from them.          *)
THEOREM RoundsKeepPriority == RoundsSpec => []PriceTimePriority
  <1>1. RoundsInv => PriceTimePriority
    BY RoundKeepsPriority
  <1> QED
    BY <1>1, RoundsInductive, PTL

(* Of two orders that accept the clearing price and may trade, a round     *)
(* fills one to the end; when no trader is on both sides, what the round   *)
(* leaves on the book does not cross.                                      *)
THEOREM RoundsLeaveNothingEligible == RoundsSpec => []NothingEligibleLeft
  <1>1. RoundsInv => NothingEligibleLeft
    BY RoundLeavesNothing
  <1> QED
    BY <1>1, RoundsInductive, PTL

-----------------------------------------------------------------------------
(* The fills of a round, applied to the book one after the other.          *)

(* Both legs of a match.                                                   *)
Both(b, m) == apply_fill(apply_fill(b, m.bid, m.size), m.ask, m.size)

(* The orders of bk with any sizes left.                                   *)
Refilled(bk) ==
    {b \in [DOMAIN bk -> [c : Ciphertexts, seq : Nat, remaining : Nat]] :
        \A i \in DOMAIN bk : b[i].c = bk[i].c /\ b[i].seq = bk[i].seq}

(* The orders of b with something left.                                    *)
Open(b) == [i \in {j \in DOMAIN b : b[j].remaining > 0} |-> b[i]]

(* A fill changes what is left of one order, and only that.                *)
LEMMA FillKeeps ==
    ASSUME NEW bk, NEW b \in Refilled(bk), NEW id, NEW size \in Nat
    PROVE  apply_fill(b, id, size) \in Refilled(bk)
  <1> DEFINE R == [c : Ciphertexts, seq : Nat, remaining : Nat]
             e == [b EXCEPT ![id].remaining = @ - size]
  <1>1. b \in [DOMAIN bk -> R] /\ \A i \in DOMAIN bk : b[i].c = bk[i].c /\ b[i].seq = bk[i].seq
    BY DEF Refilled
  <1>2. ASSUME id \in DOMAIN b, size <= b[id].remaining PROVE e \in Refilled(bk)
    <2>1. b[id] \in R /\ b[id].remaining - size \in Nat
      BY <1>1, <1>2
    <2>2. e[id] = [b[id] EXCEPT !.remaining = b[id].remaining - size]
      BY <1>1, <1>2
    <2>3. e[id] \in R /\ e[id].c = b[id].c /\ e[id].seq = b[id].seq
      BY <2>1, <2>2
    <2>4. \A i \in DOMAIN bk : i # id => e[i] = b[i]
      BY <1>1
    <2>5. e \in [DOMAIN bk -> R]
      BY <1>1, <2>3, <2>4
    <2> HIDE DEF e
    <2> QED
      BY <1>1, <1>2, <2>3, <2>4, <2>5 DEF Refilled
  <1> QED
    BY <1>2 DEF apply_fill

LEMMA BothKeeps ==
    ASSUME NEW bk, NEW b \in Refilled(bk), NEW m, m.size \in Nat
    PROVE  Both(b, m) \in Refilled(bk)
  BY FillKeeps DEF Both

(* The books q[0], ..., q[N] between the matches of s.                     *)
FillSteps(bk, s, N, q) ==
    /\ q[0] = bk
    /\ \A i \in 1..N : q[i] = Both(q[i - 1], s[i])
    /\ \A i \in 0..N : q[i] \in Refilled(bk)
    /\ apply_matches(bk, s) = Open(q[N])

(* What apply_matches folds, step by step.                                 *)
LEMMA FillsUnfold ==
    ASSUME NEW bk, bk \in Refilled(bk), NEW N \in Nat, NEW s, s = [i \in 1..N |-> s[i]],
           \A i \in 1..N : s[i].size \in Nat
    PROVE  \E q : FillSteps(bk, s, N, q)
  <1> DEFINE E == {s[i] : i \in 1..N}
             Acc == Refilled(bk)
             G == [p \in Acc \X E |-> Both(p[1], p[2])]
             step(r, x) == IF x = {} THEN bk ELSE Both(r[x \ {Max(x)}], s[Max(x)])
             built == CHOOSE r : r = [x \in SUBSET (1..N) |-> step(r, x)]
  <1>1. G \in [Acc \X E -> Acc]
    <2>1. \A p \in Acc \X E : Both(p[1], p[2]) \in Acc
      BY BothKeeps
    <2> QED
      BY <2>1
  <1>2. s \in [1..N -> E]
    OBVIOUS
  <1>31. PICK r : IsFold(Acc, G, bk, s, N, r)
    <2> HIDE DEF G, Acc, E
    <2>1. bk \in Acc
      BY DEF Acc
    <2> QED
      BY <1>1, <1>2, <2>1, FoldExists
  <1>3. /\ r \in [SUBSET (1..N) -> Acc]
        /\ \A x \in SUBSET (1..N) : r[x] = Folds_(G, bk, s, r, x)
    BY <1>31 DEF IsFold
  <1>4. \A x \in SUBSET (1..N) : x # {} => Max(x) \in 1..N /\ x \ {Max(x)} \in SUBSET (1..N)
    <2> SUFFICES ASSUME NEW x \in SUBSET (1..N), x # {} PROVE Max(x) \in x
      OBVIOUS
    <2>1. x \in SUBSET (0..N)
      OBVIOUS
    <2> QED
      BY <2>1, MaxOfInitial
  <1>5. \A x \in SUBSET (1..N) : r[x] = step(r, x)
    <2> SUFFICES ASSUME NEW x \in SUBSET (1..N), x # {} PROVE r[x] = step(r, x)
      BY <1>3 DEF Folds_
    <2>1. <<r[x \ {Max(x)}], s[Max(x)]>> \in Acc \X E
      <3> HIDE DEF Acc
      <3> QED
        BY <1>2, <1>3, <1>4
    <2>2. G[<<r[x \ {Max(x)}], s[Max(x)]>>] = Both(r[x \ {Max(x)}], s[Max(x)])
      <3> HIDE DEF Acc, E
      <3> QED
        BY <2>1
    <2> QED
      BY <1>3, <2>2 DEF Folds_
  <1>6. r = [x \in SUBSET (1..N) |-> step(r, x)]
    <2>1. r = [x \in SUBSET (1..N) |-> r[x]]
      BY <1>3
    <2> QED
      BY <1>5, <2>1
  <1>7. built = [x \in SUBSET (1..N) |-> step(built, x)]
    BY <1>6
  <1>8. FoldLeft(LAMBDA b, m : apply_fill(apply_fill(b, m.bid, m.size), m.ask, m.size), bk, s)
            = built[1..N]
    <2>1. DOMAIN s = 1..N
      OBVIOUS
    <2> QED
      BY <2>1 DEF FoldLeft, MapThenFoldSet, Both
  <1> HIDE DEF built, G
  <1> DEFINE q == [i \in 0..N |-> built[1..i]]
  <1>9. q[0] = bk
    <2>1. 1..0 = {} /\ {} \in SUBSET (1..N)
      OBVIOUS
    <2> QED
      BY <1>7, <2>1
  <1>10. \A i \in 1..N : q[i] = Both(q[i - 1], s[i])
    <2> SUFFICES ASSUME NEW i \in 1..N PROVE q[i] = Both(q[i - 1], s[i])
      OBVIOUS
    <2>1. Max(1..i) = i /\ (1..i) \ {Max(1..i)} = 1..(i - 1)
      BY MaxOfInterval
    <2>2. 1..i \in SUBSET (1..N) /\ 1..i # {} /\ i - 1 \in 0..N /\ i \in 0..N
      OBVIOUS
    <2>3. built[1..i] = Both(built[1..(i - 1)], s[i])
      BY <1>7, <2>1, <2>2
    <2> QED
      BY <2>2, <2>3
  <1>11. \A i \in 0..N : q[i] \in Refilled(bk)
    <2> HIDE DEF q
    <2> DEFINE S == {i \in Nat : i <= N => q[i] \in Refilled(bk)}
    <2>1. 0 \in S
      BY <1>9
    <2>2. ASSUME NEW i \in Nat, i \in S PROVE i + 1 \in S
      <3> SUFFICES ASSUME i + 1 <= N PROVE q[i + 1] \in Refilled(bk)
        OBVIOUS
      <3>1. q[i] \in Refilled(bk) /\ i + 1 \in 1..N /\ (i + 1) - 1 = i
        BY <2>2
      <3>2. q[i + 1] = Both(q[i], s[i + 1])
        BY <1>10, <3>1
      <3> QED
        BY <3>1, <3>2, BothKeeps
    <2> HIDE DEF S
    <2>3. \A i \in Nat : i \in S
      BY <2>1, <2>2, SetInduction
    <2> QED
      BY <2>3 DEF S
  <1>12. apply_matches(bk, s) = Open(q[N])
    <2>1. q[N] = built[1..N]
      OBVIOUS
    <2>2. q[N] \in Refilled(bk)
      BY <1>11
    <2>3. DOMAIN q[N] = DOMAIN bk
      BY <2>2 DEF Refilled
    <2> HIDE DEF q
    <2> QED
      BY <1>8, <2>1, <2>3 DEF apply_matches, Open
  <1> HIDE DEF q
  <1>13. FillSteps(bk, s, N, q)
    BY <1>9, <1>10, <1>11, <1>12 DEF FillSteps
  <1> QED
    BY <1>13

(* a is b without some of the orders that have nothing left.               *)
Without(a, b) ==
    /\ a = [i \in DOMAIN a |-> b[i]]
    /\ DOMAIN a \subseteq DOMAIN b
    /\ \A i \in DOMAIN b \ DOMAIN a : b[i].remaining = 0

(* A fill of a size that is not zero does not tell them apart.             *)
LEMMA FillWithout ==
    ASSUME NEW bk, NEW b \in Refilled(bk), NEW a, Without(a, b), NEW id, NEW size \in Nat \ {0}
    PROVE  Without(apply_fill(a, id, size), apply_fill(b, id, size))
  <1> DEFINE fa == apply_fill(a, id, size)
             fb == apply_fill(b, id, size)
  <1>1. /\ b = [i \in DOMAIN b |-> b[i]] /\ \A i \in DOMAIN b : b[i].remaining \in Nat
    BY DEF Refilled
  <1>2. CASE id \in DOMAIN b /\ size <= b[id].remaining
    <2>1. id \in DOMAIN a /\ a[id] = b[id]
      BY <1>1, <1>2 DEF Without
    <2>2. /\ fa = [a EXCEPT ![id].remaining = @ - size]
          /\ fb = [b EXCEPT ![id].remaining = @ - size]
      BY <1>2, <2>1 DEF apply_fill
    <2>3. /\ a = [i \in DOMAIN a |-> b[i]] /\ DOMAIN a \subseteq DOMAIN b
          /\ \A i \in DOMAIN b \ DOMAIN a : b[i].remaining = 0
      BY DEF Without
    <2>4. DOMAIN fa = DOMAIN a /\ DOMAIN fb = DOMAIN b
      BY <2>2
    <2>5. \A i \in DOMAIN b : i # id => fb[i] = b[i]
      BY <2>2
    <2>6. \A i \in DOMAIN a : fa[i] = fb[i]
      <3> SUFFICES ASSUME NEW i \in DOMAIN a PROVE fa[i] = fb[i]
        OBVIOUS
      <3>1. a[i] = b[i] /\ i \in DOMAIN b
        BY <2>3
      <3>2. CASE i = id
        <4>1. fa[id] = [a[id] EXCEPT !.remaining = @ - size]
          BY <2>1, <2>2
        <4>2. fb[id] = [b[id] EXCEPT !.remaining = @ - size]
          BY <1>2, <2>2
        <4> HIDE DEF fa, fb
        <4> QED
          BY <2>1, <3>2, <4>1, <4>2
      <3>3. CASE i # id
        BY <2>2, <3>1, <3>3
      <3> QED
        BY <3>2, <3>3
    <2>7. fa = [i \in DOMAIN fa |-> fa[i]]
      BY <2>2
    <2> HIDE DEF fa, fb
    <2>8. fa = [i \in DOMAIN fa |-> fb[i]]
      BY <2>4, <2>6, <2>7
    <2>9. \A i \in DOMAIN fb \ DOMAIN fa : fb[i].remaining = 0
      BY <2>1, <2>3, <2>4, <2>5
    <2>10. Without(fa, fb)
      BY <2>3, <2>4, <2>8, <2>9 DEF Without
    <2> QED
      BY <2>10 DEF fa, fb
  <1>3. CASE ~(id \in DOMAIN b /\ size <= b[id].remaining)
    <2>1. ~(id \in DOMAIN a /\ size <= a[id].remaining)
      BY <1>3 DEF Without
    <2> QED
      BY <1>3, <2>1 DEF apply_fill
  <1> QED
    BY <1>2, <1>3

(* So the orders with nothing left may be removed after each match or      *)
(* after the last one.                                                     *)
LEMMA OpenBoth ==
    ASSUME NEW bk, NEW b \in Refilled(bk), NEW m, m.size \in Nat \ {0}
    PROVE  Open(Both(Open(b), m)) = Open(Both(b, m))
  <1>1. /\ b = [i \in DOMAIN b |-> b[i]] /\ \A i \in DOMAIN b : b[i].remaining \in Nat
    BY DEF Refilled
  <1>2. Without(Open(b), b)
    BY <1>1 DEF Without, Open
  <1>3. Without(apply_fill(Open(b), m.bid, m.size), apply_fill(b, m.bid, m.size))
    BY <1>2, FillWithout
  <1>4. apply_fill(b, m.bid, m.size) \in Refilled(bk)
    BY FillKeeps
  <1>5. Without(Both(Open(b), m), Both(b, m))
    BY <1>3, <1>4, FillWithout DEF Both
  <1> DEFINE x == Both(Open(b), m)
             y == Both(b, m)
  <1> HIDE DEF x, y
  <1>6. Without(x, y)
    BY <1>5 DEF x, y
  <1>7. Open(x) = Open(y)
    <2>1. {j \in DOMAIN x : x[j].remaining > 0} = {j \in DOMAIN y : y[j].remaining > 0}
      <3>1. \A j \in DOMAIN x : j \in DOMAIN y /\ x[j] = y[j]
        BY <1>6 DEF Without
      <3>2. \A j \in DOMAIN y : j \notin DOMAIN x => ~(y[j].remaining > 0)
        BY <1>6 DEF Without
      <3> QED
        BY <3>1, <3>2
    <2>2. \A j \in DOMAIN x : x[j] = y[j]
      BY <1>6 DEF Without
    <2> QED
      BY <2>1, <2>2 DEF Open
  <1> QED
    BY <1>7 DEF x, y

(* A single match.                                                         *)
LEMMA SingleFill ==
    ASSUME NEW b, b \in Refilled(b), NEW e, e.size \in Nat
    PROVE  apply_matches(b, <<e>>) = Open(Both(b, e))
  <1> DEFINE s == <<e>>
  <1>1. s = [i \in 1..1 |-> s[i]] /\ s[1] = e
    OBVIOUS
  <1>2. \A i \in 1..1 : s[i].size \in Nat
    BY <1>1
  <1> HIDE DEF s
  <1>3. PICK q : FillSteps(b, s, 1, q)
    BY <1>1, <1>2, FillsUnfold
  <1>4. q[1] = Both(b, e) /\ apply_matches(b, s) = Open(q[1])
    BY <1>1, <1>3 DEF FillSteps
  <1> QED
    BY <1>4 DEF s

(* The books between the matches when what is used up goes at once.        *)
OneByOne(bk, s, N, w) ==
    /\ w[0] = bk
    /\ \A i \in 1..N : w[i] = Open(Both(w[i - 1], s[i]))
    /\ \A i \in 0..N : w[i] \in Refilled(w[i])
    /\ apply_matches(bk, s) = w[N]

(* A round applied as a whole is its matches applied one at a time.        *)
LEMMA RoundIsItsMatches ==
    ASSUME NEW bk, bk \in Refilled(bk), Open(bk) = bk,
           NEW N \in Nat, NEW s, s = [i \in 1..N |-> s[i]],
           \A i \in 1..N : s[i].size \in Nat \ {0}
    PROVE  \E w : OneByOne(bk, s, N, w)
  <1>0. PICK q : FillSteps(bk, s, N, q)
    BY FillsUnfold
  <1>1. /\ q[0] = bk
        /\ \A i \in 1..N : q[i] = Both(q[i - 1], s[i])
        /\ \A i \in 0..N : q[i] \in Refilled(bk)
        /\ apply_matches(bk, s) = Open(q[N])
    BY <1>0 DEF FillSteps
  <1> DEFINE w == [i \in 0..N |-> Open(q[i])]
  <1>2. w[0] = bk /\ apply_matches(bk, s) = w[N]
    BY <1>1
  <1>3. \A i \in 1..N : w[i] = Open(Both(w[i - 1], s[i]))
    <2> SUFFICES ASSUME NEW i \in 1..N PROVE w[i] = Open(Both(w[i - 1], s[i]))
      OBVIOUS
    <2>1. i - 1 \in 0..N /\ i \in 0..N
      OBVIOUS
    <2>2. Open(Both(Open(q[i - 1]), s[i])) = Open(Both(q[i - 1], s[i]))
      BY <1>1, <2>1, OpenBoth
    <2>3. w[i] = Open(q[i]) /\ w[i - 1] = Open(q[i - 1])
      BY <2>1
    <2> HIDE DEF w
    <2> QED
      BY <1>1, <2>2, <2>3
  <1>4. \A i \in 0..N : w[i] \in Refilled(w[i])
    <2> SUFFICES ASSUME NEW i \in 0..N PROVE Open(q[i]) \in Refilled(Open(q[i]))
      OBVIOUS
    <2>1. q[i] \in [DOMAIN bk -> [c : Ciphertexts, seq : Nat, remaining : Nat]]
      BY <1>1 DEF Refilled
    <2> QED
      BY <2>1 DEF Refilled, Open
  <1> HIDE DEF w
  <1>5. OneByOne(bk, s, N, w)
    BY <1>2, <1>3, <1>4 DEF OneByOne
  <1> QED
    BY <1>5

-----------------------------------------------------------------------------
(* Replay as a sequence of projections.                                    *)

(* What replay does with sequence number n of the log lg.                  *)
RStep(lg, st, n) == IF n \in DOMAIN lg THEN replay_event(st, n, lg[n]) ELSE st

(* The projection of the log lg up to N.                                   *)
ReplayOf(lg, N) ==
    FoldLeft(LAMBDA st, n : IF n \in DOMAIN lg THEN replay_event(st, n, lg[n]) ELSE st,
             EmptyProjection, [n \in 1..N |-> n])

(* The projections r[0], ..., r[N] on the way there.                       *)
ReplaySteps(lg, N, r) ==
    /\ r[0] = EmptyProjection
    /\ \A n \in 1..N : r[n] = RStep(lg, r[n - 1], n)
    /\ ReplayOf(lg, N) = r[N]

(* Two logs have the same events up to N.                                  *)
Agree(lg, lg2, N) ==
    \A n \in 1..N : /\ n \in DOMAIN lg <=> n \in DOMAIN lg2
                    /\ n \in DOMAIN lg => lg[n] = lg2[n]

(* What replay does with the greatest number of a set.                     *)
RSet(lg, r, x) == IF x = {} THEN EmptyProjection ELSE RStep(lg, r[x \ {Max(x)}], Max(x))

LEMMA ReplayUnfolds ==
    ASSUME NEW lg, NEW N \in Nat
    PROVE  \E r : ReplaySteps(lg, N, r)
  <1> DEFINE loop(n, r) == r = [x \in SUBSET (1..n) |-> RSet(lg, r, x)]
             has(n) == \E r : loop(n, r)
             S == {n \in Nat : has(n)}
             built == CHOOSE r : loop(N, r)
  <1>1. 0 \in S
    <2> DEFINE q == [x \in SUBSET (1..0) |-> EmptyProjection]
    <2>1. SUBSET (1..0) = {{}}
      OBVIOUS
    <2>2. \A x \in SUBSET (1..0) : RSet(lg, q, x) = EmptyProjection
      BY <2>1 DEF RSet
    <2>3. loop(0, q)
      BY <2>2
    <2> HIDE DEF q, loop
    <2>4. has(0)
      BY <2>3
    <2> HIDE DEF has
    <2> QED
      BY <2>4
  <1>2. ASSUME NEW n \in Nat, n \in S PROVE n + 1 \in S
    <2>1. has(n)
      <3> HIDE DEF has
      <3> QED
        BY <1>2
    <2>2. PICK r : loop(n, r)
      BY <2>1
    <2> DEFINE q == [x \in SUBSET (1..(n + 1)) |-> RSet(lg, r, x)]
    <2>3. \A x \in SUBSET (1..n) : x \in SUBSET (1..(n + 1))
      OBVIOUS
    <2>4. \A x \in SUBSET (1..n) : q[x] = r[x]
      BY <2>2, <2>3
    <2>5. \A x \in SUBSET (1..(n + 1)) : x # {} => x \ {Max(x)} \in SUBSET (1..n)
      BY WithoutMax
    <2>6. \A x \in SUBSET (1..(n + 1)) : q[x] = RSet(lg, r, x)
      OBVIOUS
    <2>7. q = [x \in SUBSET (1..(n + 1)) |-> q[x]]
      OBVIOUS
    <2> HIDE DEF q
    <2>8. \A x \in SUBSET (1..(n + 1)) : q[x] = RSet(lg, q, x)
      BY <2>4, <2>5, <2>6 DEF RSet
    <2>9. loop(n + 1, q)
      BY <2>7, <2>8
    <2> HIDE DEF loop
    <2>10. has(n + 1)
      BY <2>9
    <2> HIDE DEF has
    <2> QED
      BY <2>10
  <1>3. has(N)
    <2> HIDE DEF has
    <2> HIDE DEF S
    <2>1. N \in S
      BY <1>1, <1>2, SetInduction
    <2> QED
      BY <2>1 DEF S
  <1>4. loop(N, built)
    <2> HIDE DEF loop
    <2> QED
      BY <1>3
  <1>5. ReplayOf(lg, N) = built[1..N]
    <2>1. DOMAIN [n \in 1..N |-> n] = 1..N
      OBVIOUS
    <2>2. \A x \in SUBSET (1..N) : x # {} => Max(x) \in 1..N
      <3> SUFFICES ASSUME NEW x \in SUBSET (1..N), x # {} PROVE Max(x) \in x
        OBVIOUS
      <3>1. x \in SUBSET (0..N)
        OBVIOUS
      <3> QED
        BY <3>1, MaxOfInitial
    <2> DEFINE fold(r, x) == IF x = {} THEN EmptyProjection
                             ELSE RStep(lg, r[x \ {Max(x)}], [n \in 1..N |-> n][Max(x)])
    <2>3. ReplayOf(lg, N) = (CHOOSE r : r = [x \in SUBSET (1..N) |-> fold(r, x)])[1..N]
      BY <2>1 DEF ReplayOf, FoldLeft, MapThenFoldSet, RStep
    <2>4. \A r : [x \in SUBSET (1..N) |-> fold(r, x)] = [x \in SUBSET (1..N) |-> RSet(lg, r, x)]
      BY <2>2 DEF RSet
    <2> DEFINE F(r) == [x \in SUBSET (1..N) |-> fold(r, x)]
    <2>5. ReplayOf(lg, N) = (CHOOSE r : r = F(r))[1..N]
      BY <2>3
    <2>6. \A r : r = F(r) <=> loop(N, r)
      BY <2>4
    <2> HIDE DEF fold, F, loop
    <2>7. (CHOOSE r : r = F(r)) = built
      BY <2>6
    <2> QED
      BY <2>5, <2>7
  <1>6. \A x \in SUBSET (1..N) : built[x] = RSet(lg, built, x)
    BY <1>4
  <1> HIDE DEF built
  <1> DEFINE q == [i \in 0..N |-> built[1..i]]
  <1>7. q[0] = EmptyProjection
    <2>1. 1..0 = {} /\ {} \in SUBSET (1..N)
      OBVIOUS
    <2> QED
      BY <1>6, <2>1 DEF RSet
  <1>8. \A i \in 1..N : q[i] = RStep(lg, q[i - 1], i)
    <2> SUFFICES ASSUME NEW i \in 1..N PROVE q[i] = RStep(lg, q[i - 1], i)
      OBVIOUS
    <2>1. Max(1..i) = i /\ (1..i) \ {Max(1..i)} = 1..(i - 1)
      BY MaxOfInterval
    <2>2. 1..i \in SUBSET (1..N) /\ 1..i # {} /\ i - 1 \in 0..N /\ i \in 0..N
      OBVIOUS
    <2>3. built[1..i] = RStep(lg, built[1..(i - 1)], i)
      BY <1>6, <2>1, <2>2 DEF RSet
    <2> QED
      BY <2>2, <2>3
  <1>9. q[N] = built[1..N]
    OBVIOUS
  <1> HIDE DEF q
  <1>10. ReplaySteps(lg, N, q)
    BY <1>5, <1>7, <1>8, <1>9 DEF ReplaySteps
  <1> QED
    BY <1>10

(* Replay of a longer log passes through the projection of the shorter.    *)
LEMMA ReplayPrefix ==
    ASSUME NEW lg, NEW lg2, NEW N \in Nat, NEW M \in Nat, N <= M, Agree(lg, lg2, N),
           NEW r, ReplaySteps(lg2, M, r)
    PROVE  r[N] = ReplayOf(lg, N)
  <1>1. PICK q : ReplaySteps(lg, N, q)
    BY ReplayUnfolds
  <1> DEFINE S == {i \in Nat : i <= N => r[i] = q[i]}
  <1>2. 0 \in S
    BY <1>1 DEF ReplaySteps
  <1>3. ASSUME NEW i \in Nat, i \in S PROVE i + 1 \in S
    <2> SUFFICES ASSUME i + 1 <= N PROVE r[i + 1] = q[i + 1]
      OBVIOUS
    <2>1. r[i] = q[i] /\ i + 1 \in 1..N /\ i + 1 \in 1..M /\ (i + 1) - 1 = i
      BY <1>3
    <2>2. r[i + 1] = RStep(lg2, r[i], i + 1) /\ q[i + 1] = RStep(lg, q[i], i + 1)
      BY <1>1, <2>1 DEF ReplaySteps
    <2> QED
      BY <2>1, <2>2 DEF RStep, Agree
  <1> HIDE DEF S
  <1>4. N \in S
    BY <1>2, <1>3, SetInduction
  <1> QED
    BY <1>1, <1>4 DEF S, ReplaySteps

(* Numbers without an event add nothing.                                   *)
LEMMA ReplaySkips ==
    ASSUME NEW lg, NEW lg2, NEW N \in Nat, NEW M \in Nat, N <= M, Agree(lg, lg2, N),
           \A n \in (N + 1)..M : n \notin DOMAIN lg2
    PROVE  ReplayOf(lg2, M) = ReplayOf(lg, N)
  <1>1. PICK r : ReplaySteps(lg2, M, r)
    BY ReplayUnfolds
  <1>2. r[N] = ReplayOf(lg, N)
    BY <1>1, ReplayPrefix
  <1> DEFINE S == {i \in Nat : N + i <= M => r[N + i] = r[N]}
  <1>3. 0 \in S
    OBVIOUS
  <1>4. ASSUME NEW i \in Nat, i \in S PROVE i + 1 \in S
    <2> SUFFICES ASSUME N + (i + 1) <= M PROVE r[N + (i + 1)] = r[N]
      OBVIOUS
    <2> DEFINE n == N + (i + 1)
    <2>1. r[N + i] = r[N] /\ n \in 1..M /\ n \in (N + 1)..M /\ n - 1 = N + i
      BY <1>4
    <2> HIDE DEF n
    <2>2. r[n] = RStep(lg2, r[N + i], n)
      BY <1>1, <2>1 DEF ReplaySteps
    <2>3. r[n] = r[N]
      BY <2>1, <2>2 DEF RStep
    <2> QED
      BY <2>3 DEF n
  <1> HIDE DEF S
  <1>5. M - N \in S
    BY <1>3, <1>4, SetInduction
  <1>6. r[M] = r[N]
    <2>1. M - N \in Nat /\ N + (M - N) = M
      OBVIOUS
    <2> QED
      BY <1>5, <2>1 DEF S
  <1> QED
    BY <1>1, <1>2, <1>6 DEF ReplaySteps

-----------------------------------------------------------------------------
(* The invariant.  It holds with torn appends and restarts; what does not  *)
(* comes further down.                                                     *)

EventTypes == {"OrderPlaced", "OrderCancelled", "OrderExpired", "OrderMatched",
               "AuctionExecuted", "PairRegistered", "PairSuspended", "PairDelisted"}

(* Event n of a log: an order is named after its placement, a match fills  *)
(* orders placed before it.                                                *)
EventOK(e, n) ==
    /\ e.type \in EventTypes
    /\ e.type = "OrderPlaced" => /\ e.id = n /\ e.c \in Ciphertexts
                                 /\ Plain[e.c].size > 0 /\ Plain[e.c].price > 0
    /\ e.type = "OrderMatched" => /\ e.size \in Nat \ {0}
                                  /\ e.bid \in 1..(n - 1) /\ e.ask \in 1..(n - 1)

LogOK(lg, N) ==
    /\ DOMAIN lg \subseteq 1..N
    /\ \A n \in DOMAIN lg : EventOK(lg[n], n)

(* A book of orders placed up to N, each with something left.              *)
BookOK(bk, N) ==
    /\ bk \in [DOMAIN bk -> [c : Ciphertexts, seq : Nat, remaining : Nat \ {0}]]
    /\ DOMAIN bk \subseteq 1..N
    /\ \A i \in DOMAIN bk : bk[i].seq = i /\ Plain[bk[i].c].price > 0

(* The placements in T have spent their keys.                              *)
Covers(lg, T, seen, nullifiers, nonces) ==
    \A n \in T : lg[n].type = "OrderPlaced" =>
        /\ lg[n].c \in seen
        /\ Plain[lg[n].c].nullifier \in nullifiers
        /\ <<Plain[lg[n].c].trader, Plain[lg[n].c].nonce>> \in nonces

PlacingOK(pl) ==
    pl = Idle \/ \E c \in Ciphertexts : \/ pl = [pc |-> "decrypting", c |-> c]
                                        \/ /\ pl = [pc |-> "looking_up", c |-> c]
                                           /\ Plain[c].size > 0 /\ Plain[c].price > 0

TickShape(tk) ==
    tk = [pc |-> tk.pc, now |-> tk.now, queue |-> tk.queue, chunks |-> tk.chunks,
          expiry_failed |-> tk.expiry_failed]

(* The state of the store.                                                 *)
StoreOK ==
    /\ last_seq \in Nat
    /\ LogOK(log, last_seq)
    /\ unacked \subseteq DOMAIN log

(* The tick holds the lock while it matches, so the pairs it has still to  *)
(* match stay Active, and what it left in the book has not expired.        *)
TickOK ==
    /\ TickShape(tick)
    /\ tick.pc \in {"idle", "locking", "matching", "proving"}
    /\ now \in Nat /\ tick.now \in Nat
    /\ lock = IF tick.pc = "matching" THEN "tick" ELSE "free"
    /\ tick.pc = "matching" =>
        /\ tick.queue \subseteq ActivePairs
        /\ ~tick.expiry_failed => \A i \in DOMAIN book : ~(Order(i).expires_at <= tick.now)

(* The acknowledged placements have spent their keys, and share none.      *)
KeysOK ==
    /\ Covers(log, DOMAIN log \ unacked, seen_ciphertexts, spent_nullifiers, spent_order_nonces)
    /\ ReplayKeysSpentOnce

(* A placement that is about to be persisted has a size.                   *)
TasksOK == placing = [t \in Tasks |-> placing[t]] /\ \A t \in Tasks : PlacingOK(placing[t])

Inv == StoreOK /\ BookOK(book, last_seq) /\ KeysOK /\ TasksOK /\ TickOK

-----------------------------------------------------------------------------
(* What the operations on books and logs keep.                             *)

LEMMA BookIsOpen ==
    ASSUME NEW bk, NEW N, BookOK(bk, N)
    PROVE  bk \in Refilled(bk) /\ Open(bk) = bk
  <1>1. bk \in Refilled(bk)
    BY DEF BookOK, Refilled
  <1>2. \A i \in DOMAIN bk : bk[i].remaining > 0
    BY DEF BookOK
  <1>3. bk = [i \in DOMAIN bk |-> bk[i]]
    BY DEF BookOK
  <1>4. {j \in DOMAIN bk : bk[j].remaining > 0} = DOMAIN bk
    BY <1>2
  <1> QED
    BY <1>1, <1>3, <1>4 DEF Open

(* Fills take from orders of the book and add none.                        *)
LEMMA OpenKeeps ==
    ASSUME NEW bk, NEW N, BookOK(bk, N), NEW b \in Refilled(bk)
    PROVE  /\ BookOK(Open(b), N)
           /\ DOMAIN Open(b) \subseteq DOMAIN bk
           /\ \A i \in DOMAIN Open(b) : Open(b)[i].c = bk[i].c
  <1>1. /\ b \in [DOMAIN bk -> [c : Ciphertexts, seq : Nat, remaining : Nat]]
        /\ \A i \in DOMAIN bk : b[i].c = bk[i].c /\ b[i].seq = bk[i].seq
    BY DEF Refilled
  <1> DEFINE D == {j \in DOMAIN bk : b[j].remaining > 0}
             o == Open(b)
  <1>2. o = [i \in D |-> b[i]]
    BY <1>1 DEF Open
  <1> HIDE DEF o
  <1>3. DOMAIN o = D /\ D \subseteq DOMAIN bk /\ \A i \in D : o[i] = b[i]
    BY <1>2
  <1>4. \A i \in D : o[i] \in [c : Ciphertexts, seq : Nat, remaining : Nat \ {0}]
    <2> SUFFICES ASSUME NEW i \in D
                 PROVE  o[i] \in [c : Ciphertexts, seq : Nat, remaining : Nat \ {0}]
      OBVIOUS
    <2>1. o[i] = b[i] /\ b[i] \in [c : Ciphertexts, seq : Nat, remaining : Nat]
      BY <1>1, <1>3
    <2>2. b[i].remaining \in Nat \ {0}
      BY <2>1
    <2> QED
      BY <2>1, <2>2
  <1>5. o \in [DOMAIN o -> [c : Ciphertexts, seq : Nat, remaining : Nat \ {0}]]
    BY <1>2, <1>3, <1>4
  <1>6. DOMAIN o \subseteq 1..N /\ \A i \in DOMAIN o : o[i].seq = i
    BY <1>1, <1>3 DEF BookOK
  <1>7. \A i \in DOMAIN o : o[i].c = bk[i].c
    BY <1>1, <1>3
  <1>8. \A i \in DOMAIN o : Plain[o[i].c].price > 0
    BY <1>3, <1>7 DEF BookOK
  <1>9. BookOK(o, N)
    BY <1>5, <1>6, <1>8 DEF BookOK
  <1> QED
    BY <1>3, <1>7, <1>9 DEF o

LEMMA ApplyKeeps ==
    ASSUME NEW bk, NEW N, BookOK(bk, N), NEW n \in Nat, NEW s, s = [i \in 1..n |-> s[i]],
           \A i \in 1..n : s[i].size \in Nat
    PROVE  /\ BookOK(apply_matches(bk, s), N)
           /\ DOMAIN apply_matches(bk, s) \subseteq DOMAIN bk
           /\ \A i \in DOMAIN apply_matches(bk, s) : apply_matches(bk, s)[i].c = bk[i].c
  <1>1. PICK q : FillSteps(bk, s, n, q)
    BY BookIsOpen, FillsUnfold
  <1>2. q[n] \in Refilled(bk) /\ apply_matches(bk, s) = Open(q[n])
    BY <1>1 DEF FillSteps
  <1> QED
    BY <1>2, OpenKeeps

LEMMA RemoveKeeps ==
    ASSUME NEW bk, NEW N, BookOK(bk, N), NEW ids
    PROVE  BookOK(remove_orders(bk, ids), N)
  BY DEF BookOK, remove_orders

LEMMA LongerLog ==
    ASSUME NEW bk, NEW N \in Nat, NEW M \in Nat, N <= M, BookOK(bk, N)
    PROVE  BookOK(bk, M)
  BY DEF BookOK

(* An append, whether it succeeds or fails: what is new of the log are the *)
(* first of the events, acknowledged all or none.                          *)
LEMMA AppendGrows ==
    ASSUME StoreOK, NEW events, Len(events) \in Nat,
           \A i \in 1..Len(events) : EventOK(events[i], last_seq + i),
           Append_(events) \/ AppendFails(events)
    PROVE  /\ StoreOK'
           /\ last_seq' = last_seq + Len(events)
           /\ Agree(log, log', last_seq)
           /\ \A n \in DOMAIN log : n \in DOMAIN log' /\ log'[n] = log[n]
           /\ \A n \in DOMAIN log' \ DOMAIN log : /\ n - last_seq \in 1..Len(events)
                                                  /\ n \in Nat /\ n > last_seq
                                                  /\ log'[n] = events[n - last_seq]
           /\ unacked \subseteq unacked' /\ \A n \in DOMAIN log : n \in unacked' => n \in unacked
           /\ AppendFails(events) => DOMAIN log' \ DOMAIN log \subseteq unacked'
           /\ Append_(events) => unacked' = unacked
  <1>1. PICK k \in 0..Len(events) :
            /\ log' = LogWith(events, k)
            /\ \/ unacked' = unacked /\ k = Len(events)
               \/ unacked' = unacked \cup (last_seq + 1)..(last_seq + k)
    BY DEF Append_, AppendFails
  <1>2. last_seq' = last_seq + Len(events)
    BY DEF Append_, AppendFails
  <1>3. last_seq \in Nat /\ DOMAIN log \subseteq 1..last_seq /\ unacked \subseteq DOMAIN log
        /\ \A n \in DOMAIN log : EventOK(log[n], n)
    BY DEF StoreOK, LogOK
  <1> DEFINE new == (last_seq + 1)..(last_seq + k)
  <1>4. DOMAIN log' = DOMAIN log \cup new
    BY <1>1 DEF LogWith
  <1>5. \A n \in DOMAIN log : log'[n] = log[n]
    <2> SUFFICES ASSUME NEW n \in DOMAIN log PROVE log'[n] = log[n]
      OBVIOUS
    <2>1. ~(n > last_seq)
      BY <1>3
    <2> QED
      BY <1>1, <2>1 DEF LogWith
  <1>6. \A n \in new : /\ n - last_seq \in 1..Len(events) /\ n \in Nat /\ n > last_seq
                       /\ log'[n] = events[n - last_seq] /\ last_seq + (n - last_seq) = n
    <2> SUFFICES ASSUME NEW n \in new
                 PROVE  /\ n - last_seq \in 1..Len(events) /\ n \in Nat /\ n > last_seq
                        /\ log'[n] = events[n - last_seq] /\ last_seq + (n - last_seq) = n
      OBVIOUS
    <2>1. n \in Nat /\ n > last_seq /\ n - last_seq \in 1..Len(events) /\ last_seq + (n - last_seq) = n
      BY <1>1, <1>3
    <2>2. log'[n] = events[n - last_seq]
      BY <1>1, <2>1 DEF LogWith
    <2> QED
      BY <2>1, <2>2
  <1>7. \A n \in DOMAIN log' : EventOK(log'[n], n)
    BY <1>3, <1>4, <1>5, <1>6
  <1>8. DOMAIN log' \subseteq 1..last_seq'
    BY <1>1, <1>2, <1>3, <1>4
  <1>9. unacked' \subseteq DOMAIN log'
    BY <1>1, <1>3, <1>4
  <1>10. StoreOK'
    BY <1>2, <1>3, <1>7, <1>8, <1>9 DEF StoreOK, LogOK
  <1>11. \A n \in new : n \notin DOMAIN log
    BY <1>3, <1>6
  <1>12. Agree(log, log', last_seq)
    <2>1. \A n \in 1..last_seq : n \notin new
      BY <1>3
    <2> QED
      BY <1>4, <1>5, <2>1 DEF Agree
  <1>13. unacked \subseteq unacked' /\ \A n \in DOMAIN log : n \in unacked' => n \in unacked
    BY <1>1, <1>11
  <1>14. Append_(events) => unacked' = unacked
    BY DEF Append_
  <1>15. AppendFails(events) => DOMAIN log' \ DOMAIN log \subseteq unacked'
    <2> SUFFICES ASSUME AppendFails(events) PROVE DOMAIN log' \ DOMAIN log \subseteq unacked'
      OBVIOUS
    <2>1. PICK j \in 0..Len(events) :
              log' = LogWith(events, j) /\ unacked' = unacked \cup (last_seq + 1)..(last_seq + j)
      BY DEF AppendFails
    <2>2. DOMAIN log' = DOMAIN log \cup (last_seq + 1)..(last_seq + j)
      BY <2>1 DEF LogWith
    <2> QED
      BY <2>1, <2>2
  <1> QED
    BY <1>2, <1>4, <1>5, <1>6, <1>10, <1>12, <1>13, <1>14, <1>15

(* The plaintext behind an order.                                          *)
LEMMA PlainType == \A c \in Ciphertexts : /\ Plain[c].price \in Nat /\ Plain[c].size \in Nat
                                          /\ Plain[c].expires_at \in Nat
                                          /\ Plain[c].side \in {"Buy", "Sell"}
                                          /\ Plain[c].trader \in Traders
  BY EngineAssumption DEF Plaintexts, Traders

(* The orders of a pair are two sides with different ids.                  *)
LEMMA SidesOfBook ==
    ASSUME last_seq \in Nat, BookOK(book, last_seq), NEW pair
    PROVE  TwoSides(OrdersOf(pair, "Buy"), OrdersOf(pair, "Sell"))
  <1>1. \A i \in DOMAIN book : /\ book[i].c \in Ciphertexts /\ book[i].remaining \in Nat
                               /\ book[i].seq = i /\ i \in 1..last_seq
    BY DEF BookOK
  <1>2. IsFiniteSet(DOMAIN book)
    <2>1. IsFiniteSet(1..last_seq)
      BY FS_Interval
    <2> QED
      BY <2>1, FS_Subset DEF BookOK
  <1>3. \A side : IsSide(OrdersOf(pair, side))
    <2> SUFFICES ASSUME NEW side PROVE IsSide(OrdersOf(pair, side))
      OBVIOUS
    <2> DEFINE X == {i \in DOMAIN book : Order(i).pair = pair /\ Order(i).side = side}
               f == [i \in X |-> [id |-> i, trader |-> Order(i).trader, price |-> Order(i).price,
                                  seq |-> book[i].seq, remaining |-> book[i].remaining]]
               S == OrdersOf(pair, side)
    <2>1. S = {f[i] : i \in X}
      BY DEF OrdersOf
    <2>2. f \in Surjection(X, S)
      <3>1. f \in [X -> S]
        BY <2>1
      <3>2. \A o \in S : \E i \in X : f[i] = o
        BY <2>1
      <3> HIDE DEF f, S
      <3> QED
        BY <3>1, <3>2 DEF Surjection
    <2>3. IsFiniteSet(X)
      BY <1>2, FS_Subset
    <2>4. IsFiniteSet(S)
      BY <2>2, <2>3, FS_Surjection
    <2>5. \A o \in S : o.price \in Nat /\ o.seq \in Nat /\ o.remaining \in Nat
      <3> SUFFICES ASSUME NEW i \in X
                   PROVE  f[i].price \in Nat /\ f[i].seq \in Nat /\ f[i].remaining \in Nat
        BY <2>1
      <3>1. i \in DOMAIN book /\ book[i].c \in Ciphertexts /\ book[i].remaining \in Nat
            /\ book[i].seq \in Nat
        BY <1>1
      <3>2. Order(i).price \in Nat
        BY <3>1, PlainType DEF Order
      <3> QED
        BY <3>1, <3>2
    <2>6. \A o, p \in S : o.seq = p.seq => o = p
      <3> SUFFICES ASSUME NEW o \in S, NEW p \in S, o.seq = p.seq PROVE o = p
        OBVIOUS
      <3>1. PICK i \in X : o = f[i]
        BY <2>1
      <3>2. PICK j \in X : p = f[j]
        BY <2>1
      <3>3. f[i].seq = i /\ f[j].seq = j
        BY <1>1
      <3> QED
        BY <3>1, <3>2, <3>3
    <2> HIDE DEF S
    <2>7. IsSide(S)
      BY <2>4, <2>5, <2>6 DEF IsSide
    <2> QED
      BY <2>7 DEF S
  <1>4. \A b \in OrdersOf(pair, "Buy"), a \in OrdersOf(pair, "Sell") : b.id # a.id
    BY DEF OrdersOf
  <1> QED
    BY <1>3, <1>4 DEF TwoSides

(* ... of which the theorems about rounds speak.                           *)
LEMMA BookStands ==
    ASSUME last_seq \in Nat, BookOK(book, last_seq), NEW pair
    PROVE  Standing(OrdersOf(pair, "Buy"), OrdersOf(pair, "Sell"))
  <1>1. TwoSides(OrdersOf(pair, "Buy"), OrdersOf(pair, "Sell"))
    BY SidesOfBook
  <1>2. \A side : Named(OrdersOf(pair, side))
    BY DEF OrdersOf, Named
  <1>3. \A i \in DOMAIN book : /\ Order(i).price \in Nat \ {0}
                               /\ book[i].remaining \in Nat \ {0}
    BY PlainType DEF BookOK, Order
  <1>4. \A side : \A o \in OrdersOf(pair, side) : /\ o.price \in Nat \ {0}
                                                  /\ o.remaining \in Nat \ {0}
    BY <1>3 DEF OrdersOf
  <1> QED
    BY <1>1, <1>2, <1>4 DEF Standing

(* A match of two resting orders of a pair that both accept its price.     *)
GoodMatch(pair, price, m) ==
    /\ m.bid \in DOMAIN book /\ m.ask \in DOMAIN book
    /\ Order(m.bid).pair = pair /\ Order(m.ask).pair = pair
    /\ Order(m.bid).side = "Buy" /\ Order(m.ask).side = "Sell"
    /\ Order(m.bid).trader # Order(m.ask).trader
    /\ Order(m.bid).price >= m.price /\ m.price >= Order(m.ask).price
    /\ m.size \in Nat \ {0}
    /\ m.price = price

(* The round of a pair has such matches only.                              *)
LEMMA RoundOfBook ==
    ASSUME last_seq \in Nat, BookOK(book, last_seq), NEW pair,
           NEW result, result = run(OrdersOf(pair, "Buy"), OrdersOf(pair, "Sell")),
           result # NoAuction
    PROVE  /\ Len(result.matches) \in Nat
           /\ result.matches = [i \in 1..Len(result.matches) |-> result.matches[i]]
           /\ \A k \in 1..Len(result.matches) : GoodMatch(pair, result.price, result.matches[k])
  <1> DEFINE buys == OrdersOf(pair, "Buy")
             sells == OrdersOf(pair, "Sell")
             B == Bidders(buys, result.price)
             A == Askers(sells, result.price)
             ms == result.matches
  <1>1. RoundOK(buys, sells, result)
    <2>1. TwoSides(buys, sells)
      BY SidesOfBook
    <2> HIDE DEF buys, sells
    <2> QED
      BY <2>1, RunIsLegal DEF buys, sells
  <1>2. ms \in Seq(Legal(B, A, result.price))
    BY <1>1 DEF RoundOK
  <1>3. Len(ms) \in Nat /\ ms = [i \in 1..Len(ms) |-> ms[i]]
        /\ \A k \in 1..Len(ms) : ms[k] \in Legal(B, A, result.price)
    <2> HIDE DEF ms, B, A
    <2> QED
      BY <1>2
  <1>4. ASSUME NEW m \in Legal(B, A, result.price)
        PROVE  GoodMatch(pair, result.price, m)
    <2>1. PICK b \in B, a \in A : m.bid = b.id /\ m.ask = a.id /\ b.trader # a.trader
      BY <1>4 DEF Legal
    <2>2. m.price = result.price /\ m.size \in Nat \ {0}
      BY <1>4 DEF Legal
    <2>3. /\ b \in buys /\ b.price >= result.price
          /\ a \in sells /\ a.price <= result.price
      BY <2>1 DEF Bidders, Askers
    <2>4. /\ b.id \in DOMAIN book /\ Order(b.id).pair = pair /\ Order(b.id).side = "Buy"
          /\ b.trader = Order(b.id).trader /\ b.price = Order(b.id).price
      <3>1. PICK i \in {j \in DOMAIN book : Order(j).pair = pair /\ Order(j).side = "Buy"} :
                b = [id |-> i, trader |-> Order(i).trader, price |-> Order(i).price,
                     seq |-> book[i].seq, remaining |-> book[i].remaining]
        BY <2>3 DEF OrdersOf
      <3>2. b.id = i /\ b.trader = Order(i).trader /\ b.price = Order(i).price
        BY <3>1
      <3> QED
        BY <3>1, <3>2
    <2>5. /\ a.id \in DOMAIN book /\ Order(a.id).pair = pair /\ Order(a.id).side = "Sell"
          /\ a.trader = Order(a.id).trader /\ a.price = Order(a.id).price
      <3>1. PICK i \in {j \in DOMAIN book : Order(j).pair = pair /\ Order(j).side = "Sell"} :
                a = [id |-> i, trader |-> Order(i).trader, price |-> Order(i).price,
                     seq |-> book[i].seq, remaining |-> book[i].remaining]
        BY <2>3 DEF OrdersOf
      <3>2. a.id = i /\ a.trader = Order(i).trader /\ a.price = Order(i).price
        BY <3>1
      <3> QED
        BY <3>1, <3>2
    <2> HIDE DEF B, A, buys, sells
    <2>6. result.price >= a.price
      BY <2>3
    <2> QED
      BY <2>1, <2>2, <2>3, <2>4, <2>5, <2>6 DEF GoodMatch
  <1> QED
    BY <1>3, <1>4

-----------------------------------------------------------------------------
(* What replay yields.                                                     *)

(* A projection of the events of lg up to n.                               *)
Shape(st) == st = [book |-> st.book, status |-> st.status, seen |-> st.seen,
                   nullifiers |-> st.nullifiers, nonces |-> st.nonces]

ProjOK(st, lg, n) ==
    /\ Shape(st)
    /\ BookOK(st.book, n)
    /\ Covers(lg, {m \in DOMAIN lg : m <= n}, st.seen, st.nullifiers, st.nonces)

(* The book with order n in it.                                            *)
Placed(bk, n, c) ==
    [i \in DOMAIN bk \cup {n} |-> IF i = n THEN [c |-> c, seq |-> n, remaining |-> Plain[c].size]
                                  ELSE bk[i]]

LEMMA PlacedKeeps ==
    ASSUME NEW bk, NEW N \in Nat, BookOK(bk, N), NEW n \in Nat, n > N,
           NEW c \in Ciphertexts, Plain[c].size > 0 /\ Plain[c].price > 0
    PROVE  BookOK(Placed(bk, n, c), n)
  <1> DEFINE R == [c : Ciphertexts, seq : Nat, remaining : Nat \ {0}]
             b == Placed(bk, n, c)
  <1>1. DOMAIN b = DOMAIN bk \cup {n} /\ b = [i \in DOMAIN b |-> b[i]]
    BY DEF Placed
  <1>2. n \notin DOMAIN bk
    BY DEF BookOK
  <1>3. b[n] = [c |-> c, seq |-> n, remaining |-> Plain[c].size]
    BY DEF Placed
  <1>4. Plain[c].size \in Nat \ {0}
    BY PlainType
  <1>5. \A i \in DOMAIN bk : b[i] = bk[i]
    BY <1>2 DEF Placed
  <1> HIDE DEF b
  <1>6. b[n] \in R /\ b[n].seq = n /\ Plain[b[n].c].price > 0
    BY <1>3, <1>4
  <1>7. \A i \in DOMAIN bk : bk[i] \in R /\ bk[i].seq = i /\ i \in 1..n /\ Plain[bk[i].c].price > 0
    BY DEF BookOK
  <1>8. \A i \in DOMAIN b : b[i] \in R /\ b[i].seq = i /\ i \in 1..n /\ Plain[b[i].c].price > 0
    BY <1>1, <1>5, <1>6, <1>7
  <1>9. BookOK(b, n)
    <2> HIDE DEF R
    <2>1. b \in [DOMAIN b -> R]
      BY <1>1, <1>8
    <2>2. DOMAIN b \subseteq 1..n /\ \A i \in DOMAIN b : b[i].seq = i /\ Plain[b[i].c].price > 0
      BY <1>8
    <2> QED
      BY <2>1, <2>2 DEF BookOK, R
  <1> QED
    BY <1>9 DEF b

(* A projection with another book or registry.                             *)
SetBook(st, x) == [st EXCEPT !.book = x]
SetReg(st, x) == [st EXCEPT !.status = x]

LEMMA ShapeKeeps ==
    ASSUME NEW st, Shape(st), NEW x
    PROVE  /\ SetBook(st, x) = [book |-> x, status |-> st.status, seen |-> st.seen,
                              nullifiers |-> st.nullifiers, nonces |-> st.nonces]
           /\ SetReg(st, x) = [book |-> st.book, status |-> x, seen |-> st.seen,
                               nullifiers |-> st.nullifiers, nonces |-> st.nonces]
  BY DEF Shape, SetBook, SetReg

(* What each event does to the projection.                                 *)
LEMMA ReplayOfPlaced ==
    ASSUME NEW st, NEW n, NEW e, e.type = "OrderPlaced"
    PROVE  replay_event(st, n, e) = ReplayPlaced(st, n, e)
  BY DEF replay_event

LEMMA ReplayOfRemoval ==
    ASSUME NEW st, NEW n, NEW e, e.type \in {"OrderCancelled", "OrderExpired"}
    PROVE  replay_event(st, n, e) = SetBook(st, remove_orders(st.book, {e.id}))
  BY DEF replay_event, SetBook

LEMMA ReplayOfMatch ==
    ASSUME NEW st, NEW n, NEW e, e.type = "OrderMatched"
    PROVE  replay_event(st, n, e) = SetBook(st, apply_matches(st.book, <<e>>))
  BY DEF replay_event, SetBook

LEMMA ReplayOfAuction ==
    ASSUME NEW st, NEW n, NEW e, e.type = "AuctionExecuted"
    PROVE  replay_event(st, n, e) = st
  BY DEF replay_event

LEMMA ReplayOfRegistration ==
    ASSUME NEW st, NEW n, NEW e, e.type = "PairRegistered"
    PROVE  replay_event(st, n, e) = SetReg(st, WithStatus(st, e.pair, "Active"))
  BY DEF replay_event, SetReg

LEMMA ReplayOfSuspension ==
    ASSUME NEW st, NEW n, NEW e, e.type = "PairSuspended"
    PROVE  replay_event(st, n, e) = SetReg(st, ChangedStatus(st, e.pair, "Suspended"))
  BY DEF replay_event, SetReg

LEMMA ReplayOfDelisting ==
    ASSUME NEW st, NEW n, NEW e, e.type = "PairDelisted"
    PROVE  replay_event(st, n, e) = SetReg(st, ChangedStatus(st, e.pair, "Delisted"))
  BY DEF replay_event, SetReg

(* One event of the log.                                                   *)
LEMMA ReplayEventKeeps ==
    ASSUME NEW lg, NEW n \in Nat \ {0}, n \in DOMAIN lg, EventOK(lg[n], n), DOMAIN lg \subseteq Nat,
           NEW st, ProjOK(st, lg, n - 1)
    PROVE  ProjOK(replay_event(st, n, lg[n]), lg, n)
  <1> DEFINE e == lg[n]
             new == replay_event(st, n, lg[n])
             upto(k) == {m \in DOMAIN lg : m <= k}
  <1>1. Shape(st) /\ BookOK(st.book, n - 1)
        /\ Covers(lg, upto(n - 1), st.seen, st.nullifiers, st.nonces)
    BY DEF ProjOK
  <1>2. BookOK(st.book, n)
    <2>1. n - 1 \in Nat /\ n - 1 <= n
      OBVIOUS
    <2> QED
      BY <1>1, <2>1, LongerLog
  <1>3. upto(n) = upto(n - 1) \cup {n}
    <2>1. \A m \in DOMAIN lg : m \in Nat
      OBVIOUS
    <2> QED
      BY <2>1
  <1>4. e.type # "OrderPlaced" => Covers(lg, upto(n), st.seen, st.nullifiers, st.nonces)
    BY <1>1, <1>3 DEF Covers
  <1>5. e.type \in EventTypes /\ new = replay_event(st, n, e)
    BY DEF EventOK
  <1> HIDE DEF upto
  <1>6. CASE e.type = "OrderPlaced"
    <2>1. new = ReplayPlaced(st, n, e)
      <3> HIDE DEF new, e
      <3> QED
        BY <1>5, <1>6, ReplayOfPlaced
    <2>2. e.id = n /\ e.c \in Ciphertexts /\ Plain[e.c].size > 0 /\ Plain[e.c].price > 0
      BY <1>6 DEF EventOK
    <2>3. /\ Shape(new)
          /\ new.book = Placed(st.book, n, e.c)
          /\ new.seen = st.seen \cup {e.c}
          /\ new.nullifiers = st.nullifiers \cup {Plain[e.c].nullifier}
          /\ new.nonces = st.nonces \cup {<<Plain[e.c].trader, Plain[e.c].nonce>>}
      <3> HIDE DEF new, e
      <3> QED
        BY <2>1, <2>2 DEF ReplayPlaced, Shape, Placed
    <2> HIDE DEF new
    <2>4. BookOK(new.book, n)
      <3>1. n - 1 \in Nat /\ n > n - 1
        OBVIOUS
      <3> QED
        BY <1>1, <2>2, <2>3, <3>1, PlacedKeeps
    <2>5. Covers(lg, upto(n), new.seen, new.nullifiers, new.nonces)
      BY <1>1, <1>3, <2>3 DEF Covers
    <2>6. ProjOK(new, lg, n)
      BY <2>3, <2>4, <2>5 DEF ProjOK, upto
    <2> QED
      BY <2>6 DEF new
  <1>7. ASSUME NEW b, BookOK(b, n), e.type # "OrderPlaced", new = SetBook(st, b)
        PROVE  ProjOK(new, lg, n)
    <2>1. new = [book |-> b, status |-> st.status, seen |-> st.seen,
                 nullifiers |-> st.nullifiers, nonces |-> st.nonces]
      BY <1>1, <1>7, ShapeKeeps
    <2> HIDE DEF new
    <2>2. /\ Shape(new) /\ new.book = b
          /\ new.seen = st.seen /\ new.nullifiers = st.nullifiers /\ new.nonces = st.nonces
      BY <2>1 DEF Shape
    <2> QED
      BY <1>4, <1>7, <2>2 DEF ProjOK, upto
  <1>8. ASSUME NEW x, e.type # "OrderPlaced", new = SetReg(st, x)
        PROVE  ProjOK(new, lg, n)
    <2>1. new = [book |-> st.book, status |-> x, seen |-> st.seen,
                 nullifiers |-> st.nullifiers, nonces |-> st.nonces]
      BY <1>1, <1>8, ShapeKeeps
    <2> HIDE DEF new
    <2>2. /\ Shape(new) /\ new.book = st.book
          /\ new.seen = st.seen /\ new.nullifiers = st.nullifiers /\ new.nonces = st.nonces
      BY <2>1 DEF Shape
    <2> QED
      BY <1>2, <1>4, <1>8, <2>2 DEF ProjOK, upto
  <1>9. CASE e.type \in {"OrderCancelled", "OrderExpired"}
    <2>1. new = SetBook(st, remove_orders(st.book, {e.id}))
      <3> HIDE DEF new, e
      <3> QED
        BY <1>5, <1>9, ReplayOfRemoval
    <2> HIDE DEF new
    <2>2. ProjOK(new, lg, n)
      BY <1>2, <1>7, <1>9, <2>1, RemoveKeeps
    <2> QED
      BY <2>2 DEF new
  <1>10. CASE e.type = "OrderMatched"
    <2>1. new = SetBook(st, apply_matches(st.book, <<e>>))
      <3> HIDE DEF new, e
      <3> QED
        BY <1>5, <1>10, ReplayOfMatch
    <2>2. e.size \in Nat
      BY <1>10 DEF EventOK
    <2> DEFINE s == <<e>>
    <2>3. s = [i \in 1..1 |-> s[i]] /\ \A i \in 1..1 : s[i].size \in Nat
      BY <2>2
    <2> HIDE DEF new, s
    <2>4. BookOK(apply_matches(st.book, s), n)
      BY <1>2, <2>3, ApplyKeeps
    <2>5. ProjOK(new, lg, n)
      BY <1>7, <1>10, <2>1, <2>4 DEF s
    <2> QED
      BY <2>5 DEF new
  <1>11. CASE e.type = "AuctionExecuted"
    <2>1. new = st
      <3> HIDE DEF new, e
      <3> QED
        BY <1>5, <1>11, ReplayOfAuction
    <2> QED
      BY <1>1, <1>2, <1>4, <1>11, <2>1 DEF ProjOK, upto
  <1>12. CASE e.type \in {"PairRegistered", "PairSuspended", "PairDelisted"}
    <2>1. \E x : new = SetReg(st, x)
      <3> HIDE DEF new, e
      <3> QED
        BY <1>5, <1>12, ReplayOfRegistration, ReplayOfSuspension, ReplayOfDelisting
    <2> HIDE DEF new
    <2>2. ProjOK(new, lg, n)
      BY <1>8, <1>12, <2>1
    <2> QED
      BY <2>2 DEF new
  <1> QED
    BY <1>5, <1>6, <1>9, <1>10, <1>11, <1>12 DEF EventTypes

(* The whole log.                                                          *)
LEMMA ReplayedIsProjection ==
    ASSUME NEW lg, NEW N \in Nat, LogOK(lg, N)
    PROVE  ProjOK(ReplayOf(lg, N), lg, N)
  <1>1. PICK r : ReplaySteps(lg, N, r)
    BY ReplayUnfolds
  <1>2. DOMAIN lg \subseteq 1..N /\ DOMAIN lg \subseteq Nat /\ \A n \in DOMAIN lg : EventOK(lg[n], n)
    BY DEF LogOK
  <1> DEFINE S == {n \in Nat : n <= N => ProjOK(r[n], lg, n)}
  <1>3. 0 \in S
    <2>1. r[0] = EmptyProjection
      BY <1>1 DEF ReplaySteps
    <2>2. ProjOK(EmptyProjection, lg, 0)
      <3>1. Shape(EmptyProjection) /\ EmptyProjection.book = <<>>
        BY DEF Shape, EmptyProjection
      <3>2. BookOK(<<>>, 0)
        BY DEF BookOK
      <3>3. {m \in DOMAIN lg : m <= 0} = {}
        BY <1>2
      <3> QED
        BY <3>1, <3>2, <3>3 DEF ProjOK, Covers
    <2> QED
      BY <2>1, <2>2
  <1>4. ASSUME NEW n \in Nat, n \in S PROVE n + 1 \in S
    <2> SUFFICES ASSUME n + 1 <= N PROVE ProjOK(r[n + 1], lg, n + 1)
      OBVIOUS
    <2> DEFINE k == n + 1
    <2>1. k \in 1..N /\ k - 1 = n /\ k \in Nat \ {0} /\ ProjOK(r[k - 1], lg, k - 1)
      BY <1>4
    <2> HIDE DEF k
    <2>2. r[k] = RStep(lg, r[k - 1], k)
      BY <1>1, <2>1 DEF ReplaySteps
    <2>3. CASE k \in DOMAIN lg
      <3>1. r[k] = replay_event(r[k - 1], k, lg[k])
        BY <2>2, <2>3 DEF RStep
      <3>2. ProjOK(r[k], lg, k)
        BY <1>2, <2>1, <2>3, <3>1, ReplayEventKeeps
      <3> QED
        BY <3>2 DEF k
    <2>4. CASE k \notin DOMAIN lg
      <3>1. r[k] = r[k - 1]
        BY <2>2, <2>4 DEF RStep
      <3>2. {m \in DOMAIN lg : m <= k} = {m \in DOMAIN lg : m <= k - 1}
        BY <1>2, <2>1, <2>4
      <3>3. BookOK(r[k].book, k)
        <4>1. BookOK(r[k].book, k - 1) /\ k - 1 \in Nat /\ k - 1 <= k
          BY <2>1, <3>1 DEF ProjOK
        <4> QED
          BY <2>1, <4>1, LongerLog
      <3>4. ProjOK(r[k], lg, k)
        BY <2>1, <3>1, <3>2, <3>3 DEF ProjOK
      <3> QED
        BY <3>4 DEF k
    <2> QED
      BY <2>3, <2>4
  <1> HIDE DEF S
  <1>5. N \in S
    BY <1>3, <1>4, SetInduction
  <1> QED
    BY <1>1, <1>5 DEF S, ReplaySteps

-----------------------------------------------------------------------------
(* Each action keeps the invariant.                                        *)

LEMMA InitInv == Init => Inv
  <1> SUFFICES ASSUME Init PROVE Inv
    OBVIOUS
  <1> USE DEF Init
  <1>1. StoreOK
    BY DEF StoreOK, LogOK
  <1>2. BookOK(book, last_seq)
    BY DEF BookOK
  <1>3. KeysOK
    BY DEF KeysOK, Covers, ReplayKeysSpentOnce, EventsOf
  <1>4. TasksOK
    BY DEF TasksOK, PlacingOK
  <1>5. TickOK
    BY DEF TickOK, TickShape, TickIdle
  <1> QED
    BY <1>1, <1>2, <1>3, <1>4, <1>5 DEF Inv

(* The keys of the acknowledged placements, when nothing acknowledged is   *)
(* placed.                                                                 *)
LEMMA KeysKept ==
    ASSUME StoreOK, KeysOK, NEW events, Len(events) \in Nat,
           \A i \in 1..Len(events) : EventOK(events[i], last_seq + i),
           \/ Append_(events) /\ \A i \in 1..Len(events) : events[i].type # "OrderPlaced"
           \/ AppendFails(events),
           UNCHANGED spent
    PROVE  KeysOK'
  <1>1. Append_(events) \/ AppendFails(events)
    OBVIOUS
  <1>2. /\ \A n \in DOMAIN log : n \in DOMAIN log' /\ log'[n] = log[n]
        /\ \A n \in DOMAIN log' \ DOMAIN log : /\ n - last_seq \in 1..Len(events)
                                               /\ log'[n] = events[n - last_seq]
        /\ unacked \subseteq unacked' /\ \A n \in DOMAIN log : n \in unacked' => n \in unacked
        /\ AppendFails(events) => DOMAIN log' \ DOMAIN log \subseteq unacked'
    BY <1>1, AppendGrows
  <1>3. \A n \in DOMAIN log' \ unacked' : log'[n].type = "OrderPlaced" =>
            n \in DOMAIN log \ unacked /\ log'[n] = log[n]
    BY <1>2
  <1>4. \A n \in EventsOf("OrderPlaced")' \ unacked' :
            n \in EventsOf("OrderPlaced") \ unacked /\ log'[n] = log[n]
    BY <1>3 DEF EventsOf
  <1>5. ReplayKeysSpentOnce'
    BY <1>4 DEF KeysOK, ReplayKeysSpentOnce
  <1>6. Covers(log', DOMAIN log' \ unacked', seen_ciphertexts', spent_nullifiers', spent_order_nonces')
    BY <1>3 DEF KeysOK, Covers, spent
  <1> QED
    BY <1>5, <1>6 DEF KeysOK

(* A placement that is not persisted touches nothing but itself.           *)
LEMMA UntouchedKeeps ==
    ASSUME Inv, TasksOK',
           UNCHANGED <<log, last_seq, unacked, book, status, spent, tick, lock, now>>
    PROVE  Inv'
  <1>1. StoreOK' /\ BookOK(book', last_seq')
    BY DEF Inv, StoreOK
  <1>2. KeysOK'
    BY DEF Inv, KeysOK, ReplayKeysSpentOnce, EventsOf, spent
  <1>3. TickOK'
    BY DEF Inv, TickOK, Order, ActivePairs
  <1> QED
    BY <1>1, <1>2, <1>3 DEF Inv

LEMMA SubmitOrderKeeps ==
    ASSUME Inv, NEW t \in Tasks, NEW c \in Ciphertexts, SubmitOrder(t, c)
    PROVE  Inv'
  <1>1. TasksOK'
    BY DEF Inv, TasksOK, PlacingOK, SubmitOrder
  <1> QED
    BY <1>1, UntouchedKeeps DEF SubmitOrder, store, registry

LEMMA ValidateOrderKeeps ==
    ASSUME Inv, NEW t \in Tasks, ValidateOrder(t)
    PROVE  Inv'
  <1>1. TasksOK'
    <2>1. PICK c \in Ciphertexts : placing[t] = [pc |-> "decrypting", c |-> c]
      BY DEF Inv, TasksOK, PlacingOK, ValidateOrder, Idle
    <2>2. Plain[c].size > 0 /\ Plain[c].price > 0
      BY <2>1 DEF ValidateOrder
    <2>3. placing' = [placing EXCEPT ![t].pc = "looking_up"]
      BY DEF ValidateOrder
    <2>4. placing'[t] = [pc |-> "looking_up", c |-> c]
      BY <2>1, <2>3 DEF Inv, TasksOK
    <2>5. \A u \in Tasks : u # t => placing'[u] = placing[u]
      BY <2>3 DEF Inv, TasksOK
    <2>6. placing' = [u \in Tasks |-> placing'[u]]
      BY <2>3 DEF Inv, TasksOK
    <2> QED
      BY <2>2, <2>4, <2>5, <2>6 DEF Inv, TasksOK, PlacingOK
  <1> QED
    BY <1>1, UntouchedKeeps DEF ValidateOrder, store, registry

LEMMA IdleKeeps ==
    ASSUME TasksOK, NEW t \in Tasks, placing' = [placing EXCEPT ![t] = Idle]
    PROVE  TasksOK'
  BY DEF TasksOK, PlacingOK

LEMMA RejectOrderKeeps ==
    ASSUME Inv, NEW t \in Tasks, RejectOrder(t)
    PROVE  Inv'
  <1>1. TasksOK'
    BY IdleKeeps DEF Inv, RejectOrder
  <1> QED
    BY <1>1, UntouchedKeeps DEF RejectOrder, store, registry

LEMMA DropSecretKeeps ==
    ASSUME Inv, NEW id, drop_secret(id)
    PROVE  Inv'
  BY DEF Inv, drop_secret, store, registry, spent, process, StoreOK, KeysOK, TickOK, TasksOK,
         ReplayKeysSpentOnce, EventsOf, Order, ActivePairs

(* The steps of the tick that touch neither the log nor the book.          *)
LEMMA QuietTickKeeps ==
    ASSUME Inv, StartTick \/ ReleaseLock \/ build_batch_witness \/ prune_dead_secrets \/ ClockTick
    PROVE  Inv'
  <1>1. UNCHANGED <<store, book, registry, spent, placing>>
    BY DEF StartTick, ReleaseLock, build_batch_witness, prune_dead_secrets, ClockTick
  <1>2. StoreOK' /\ BookOK(book', last_seq') /\ KeysOK' /\ TasksOK'
    BY <1>1 DEF Inv, store, spent, StoreOK, KeysOK, TasksOK, ReplayKeysSpentOnce, EventsOf
  <1>3. TickOK'
    <2> USE <1>1 DEF Inv, TickOK, TickShape
    <2>1. CASE StartTick
      BY <2>1 DEF StartTick
    <2>2. CASE ReleaseLock
      BY <2>2 DEF ReleaseLock
    <2>3. CASE build_batch_witness
      BY <2>3 DEF build_batch_witness
    <2>4. CASE prune_dead_secrets
      BY <2>4 DEF prune_dead_secrets, TickIdle
    <2>5. CASE ClockTick
      BY <2>5 DEF ClockTick, ActivePairs, Order, registry
    <2> QED
      BY <2>1, <2>2, <2>3, <2>4, <2>5
  <1> QED
    BY <1>2, <1>3 DEF Inv

(* Whoever holds the lock does not meet a tick that is matching.           *)
LEMMA FreeTickKept ==
    ASSUME TickOK, lock = "free", UNCHANGED <<tick, lock, now>>
    PROVE  TickOK'
  BY DEF TickOK

LEMMA CancelOrderKeeps ==
    ASSUME Inv, NEW id \in DOMAIN book, cancel_order(id)
    PROVE  Inv'
  <1> DEFINE events == <<[type |-> "OrderCancelled", id |-> id]>>
  <1>1. Len(events) = 1 /\ events[1].type = "OrderCancelled"
    OBVIOUS
  <1>2. \/ Append_(events) /\ book' = remove_orders(book, {id})
        \/ AppendFails(events) /\ UNCHANGED book
    BY DEF cancel_order
  <1>3. UNCHANGED <<spent, placing, tick, lock, now>> /\ lock = "free"
    BY DEF cancel_order
  <1> HIDE DEF events
  <1>4. \A i \in 1..Len(events) : EventOK(events[i], last_seq + i) /\ events[i].type # "OrderPlaced"
    BY <1>1 DEF EventOK, EventTypes
  <1>5. StoreOK' /\ last_seq' = last_seq + 1
    <2>1. Len(events) \in Nat
      BY <1>1
    <2>2. StoreOK' /\ last_seq' = last_seq + Len(events)
      BY <1>2, <1>4, <2>1, AppendGrows DEF Inv
    <2> QED
      BY <1>1, <2>2
  <1>6. KeysOK'
    BY <1>1, <1>2, <1>3, <1>4, KeysKept DEF Inv
  <1>7. BookOK(book', last_seq')
    <2>1. BookOK(book', last_seq)
      BY <1>2, RemoveKeeps DEF Inv
    <2> QED
      BY <1>5, <2>1, LongerLog DEF Inv, StoreOK
  <1>8. TasksOK' /\ TickOK'
    BY <1>3, FreeTickKept DEF Inv, TasksOK
  <1> QED
    BY <1>5, <1>6, <1>7, <1>8 DEF Inv

(* Registering and suspending a pair.                                      *)
LEMMA PairKeeps ==
    ASSUME Inv, NEW pair, register_pair_with_event(pair) \/ suspend_pair(pair)
    PROVE  Inv'
  <1> DEFINE reg == <<[type |-> "PairRegistered", pair |-> pair]>>
             sus == <<[type |-> "PairSuspended", pair |-> pair]>>
  <1>1. \E events \in {reg, sus} : Append_(events) \/ AppendFails(events)
    BY DEF register_pair_with_event, suspend_pair
  <1>2. UNCHANGED <<book, spent, placing, tick, lock, now>> /\ lock = "free"
    BY DEF register_pair_with_event, suspend_pair
  <1>3. PICK events \in {reg, sus} : Append_(events) \/ AppendFails(events)
    BY <1>1
  <1>4. Len(events) = 1 /\ events[1].type \in {"PairRegistered", "PairSuspended"}
    BY <1>3
  <1> HIDE DEF reg, sus
  <1>5. \A i \in 1..Len(events) : EventOK(events[i], last_seq + i) /\ events[i].type # "OrderPlaced"
    BY <1>4 DEF EventOK, EventTypes
  <1>6. StoreOK' /\ last_seq' = last_seq + 1
    <2>1. Len(events) \in Nat
      BY <1>4
    <2>2. StoreOK' /\ last_seq' = last_seq + Len(events)
      BY <1>3, <1>5, <2>1, AppendGrows DEF Inv
    <2> QED
      BY <1>4, <2>2
  <1>7. KeysOK'
    BY <1>2, <1>3, <1>4, <1>5, KeysKept DEF Inv
  <1>8. BookOK(book', last_seq')
    BY <1>2, <1>6, LongerLog DEF Inv, StoreOK
  <1>9. TasksOK' /\ TickOK'
    BY <1>2, FreeTickKept DEF Inv, TasksOK
  <1> QED
    BY <1>6, <1>7, <1>8, <1>9 DEF Inv

(* Any set of resting orders is finite and can be listed.                  *)
LEMMA RestingListed ==
    ASSUME Inv, NEW ids \in SUBSET DOMAIN book
    PROVE  /\ Cardinality(ids) \in Nat
           /\ SetToSeq(ids) \in [1..Cardinality(ids) -> ids]
           /\ \A x \in ids : \E i \in 1..Cardinality(ids) : SetToSeq(ids)[i] = x
  <1>1. IsFiniteSet(1..last_seq)
    BY FS_Interval DEF Inv, StoreOK
  <1>2. IsFiniteSet(ids)
    BY <1>1, FS_Subset DEF Inv, BookOK
  <1> QED
    BY <1>2, SeqOfSet

(* The events that remove a set of orders.                                 *)
Removals(ids, type) == [i \in 1..Cardinality(ids) |-> [type |-> type, id |-> SetToSeq(ids)[i]]]

LEMMA RemovalsOK ==
    ASSUME Inv, NEW ids \in SUBSET DOMAIN book, NEW type
    PROVE  /\ Removals(ids, type) \in Seq([type : {type}, id : ids])
           /\ Len(Removals(ids, type)) = Cardinality(ids)
           /\ Cardinality(ids) \in Nat
           /\ \A i \in 1..Cardinality(ids) : /\ Removals(ids, type)[i].type = type
                                             /\ Removals(ids, type)[i].id = SetToSeq(ids)[i]
  <1>1. Cardinality(ids) \in Nat /\ SetToSeq(ids) \in [1..Cardinality(ids) -> ids]
    BY RestingListed
  <1>2. \A i \in 1..Cardinality(ids) : SetToSeq(ids)[i] \in ids
    BY <1>1
  <1>3. Removals(ids, type) \in [1..Cardinality(ids) -> [type : {type}, id : ids]]
    BY <1>2 DEF Removals
  <1>4. \A i \in 1..Cardinality(ids) : /\ Removals(ids, type)[i].type = type
                                       /\ Removals(ids, type)[i].id = SetToSeq(ids)[i]
    BY DEF Removals
  <1> DEFINE s == Removals(ids, type)
             n == Cardinality(ids)
             E == [type : {type}, id : ids]
  <1> HIDE DEF s, n, E
  <1>5. n \in Nat /\ s \in [1..n -> E]
    BY <1>1, <1>3 DEF s, n, E
  <1>6. s \in Seq(E) /\ Len(s) = n
    BY <1>5
  <1> QED
    BY <1>1, <1>4, <1>6 DEF s, n, E

LEMMA DelistPairKeeps ==
    ASSUME Inv, NEW pair, delist_pair(pair)
    PROVE  Inv'
  <1> DEFINE open == order_ids_for(pair)
             cancels == Removals(open, "OrderCancelled")
             last == [type |-> "PairDelisted", pair |-> pair]
             events == Append(cancels, last)
  <1>1. \/ Append_(events) /\ book' = remove_orders(book, open)
        \/ AppendFails(events) /\ UNCHANGED book
    BY DEF delist_pair, Removals
  <1>2. UNCHANGED <<spent, placing, tick, lock, now>> /\ lock = "free"
    BY DEF delist_pair
  <1>3. open \in SUBSET DOMAIN book
    BY DEF order_ids_for
  <1>4. /\ cancels \in Seq([type : {"OrderCancelled"}, id : open])
        /\ Len(cancels) \in Nat
        /\ \A i \in 1..Len(cancels) : cancels[i].type = "OrderCancelled"
    <2> HIDE DEF open
    <2>1. /\ Removals(open, "OrderCancelled") \in Seq([type : {"OrderCancelled"}, id : open])
          /\ Len(Removals(open, "OrderCancelled")) = Cardinality(open)
          /\ Cardinality(open) \in Nat
          /\ \A i \in 1..Cardinality(open) : Removals(open, "OrderCancelled")[i].type = "OrderCancelled"
      BY <1>3, RemovalsOK
    <2> QED
      BY <2>1
  <1>5. last.type = "PairDelisted"
    OBVIOUS
  <1>6. Len(events) \in Nat /\ \A i \in 1..Len(events) : events[i].type \in {"OrderCancelled", "PairDelisted"}
    <2> HIDE DEF cancels, last
    <2>1. /\ Len(events) = Len(cancels) + 1
          /\ \A i \in 1..Len(events) : events[i] = IF i <= Len(cancels) THEN cancels[i] ELSE last
      BY <1>4
    <2> HIDE DEF events
    <2> QED
      BY <1>4, <1>5, <2>1
  <1> HIDE DEF events
  <1>7. \A i \in 1..Len(events) : EventOK(events[i], last_seq + i) /\ events[i].type # "OrderPlaced"
    BY <1>6 DEF EventOK, EventTypes
  <1>8. StoreOK' /\ last_seq' = last_seq + Len(events)
    BY <1>1, <1>6, <1>7, AppendGrows DEF Inv
  <1>9. KeysOK'
    BY <1>1, <1>2, <1>6, <1>7, KeysKept DEF Inv
  <1>10. BookOK(book', last_seq')
    <2>1. BookOK(book', last_seq)
      BY <1>1, RemoveKeeps DEF Inv
    <2>2. last_seq' \in Nat /\ last_seq \in Nat /\ last_seq <= last_seq'
      BY <1>6, <1>8 DEF Inv, StoreOK
    <2> QED
      BY <2>1, <2>2, LongerLog
  <1>11. TasksOK' /\ TickOK'
    BY <1>2, FreeTickKept DEF Inv, TasksOK
  <1> QED
    BY <1>8, <1>9, <1>10, <1>11 DEF Inv

(* The last lock scope tests every key against the spent sets, in which    *)
(* those of the acknowledged placements are.                               *)
LEMMA PersistKeeps ==
    ASSUME Inv, NEW t \in Tasks, persist_order_placed(t)
    PROVE  Inv'
  <1> DEFINE n == last_seq + 1
  <1>1. PICK c \in Ciphertexts : placing[t].c = c /\ Plain[c].size > 0 /\ Plain[c].price > 0
    BY DEF Inv, TasksOK, PlacingOK, persist_order_placed, Idle
  <1> DEFINE e == [type |-> "OrderPlaced", id |-> n, c |-> c]
             events == <<e>>
  <1>2. /\ Admissible(c)
        /\ \/ Append_(events) /\ Admit(c, n, n)
           \/ AppendFails(events) /\ UNCHANGED <<book, spent>>
    BY <1>1 DEF persist_order_placed, PlacedEvent
  <1>3. TasksOK'
    BY IdleKeeps DEF Inv, persist_order_placed
  <1>4. TickOK'
    BY FreeTickKept DEF Inv, persist_order_placed
  <1>5. Len(events) = 1 /\ events[1] = e /\ Len(events) \in Nat
    OBVIOUS
  <1>6. e.type = "OrderPlaced" /\ e.id = n /\ e.c = c
    OBVIOUS
  <1> HIDE DEF events, e
  <1>7. \A i \in 1..Len(events) : EventOK(events[i], last_seq + i)
    BY <1>1, <1>5, <1>6 DEF EventOK, EventTypes
  <1>8. StoreOK' /\ last_seq' = n
    <2>1. StoreOK' /\ last_seq' = last_seq + Len(events)
      BY <1>2, <1>5, <1>7, AppendGrows DEF Inv
    <2> QED
      BY <1>5, <2>1
  <1>9. last_seq \in Nat /\ n \in Nat /\ n > last_seq
    BY DEF Inv, StoreOK
  <1>10. CASE AppendFails(events) /\ UNCHANGED <<book, spent>>
    <2>1. KeysOK'
      BY <1>5, <1>7, <1>10, KeysKept DEF Inv
    <2>2. BookOK(book', last_seq')
      <3>1. BookOK(book', last_seq) /\ last_seq <= n
        BY <1>9, <1>10 DEF Inv
      <3> HIDE DEF n
      <3> QED
        BY <1>8, <1>9, <3>1, LongerLog
    <2> QED
      BY <1>3, <1>4, <1>8, <2>1, <2>2 DEF Inv
  <1>11. CASE Append_(events) /\ Admit(c, n, n)
    <2>1. book' = Placed(book, n, c)
      BY <1>11 DEF Admit, Placed
    <2>2. BookOK(book', last_seq')
      <3> HIDE DEF n
      <3> QED
        BY <1>1, <1>8, <1>9, <2>1, PlacedKeeps DEF Inv
    <2>3. /\ \A k \in DOMAIN log : k \in DOMAIN log' /\ log'[k] = log[k]
          /\ \A k \in DOMAIN log' \ DOMAIN log : /\ k - last_seq \in 1..Len(events)
                                                 /\ k \in Nat
                                                 /\ log'[k] = events[k - last_seq]
          /\ unacked' = unacked
      BY <1>5, <1>7, <1>11, AppendGrows DEF Inv
    <2>4. \A k \in DOMAIN log' \ DOMAIN log : k = n /\ log'[k] = e
      <3> SUFFICES ASSUME NEW k \in DOMAIN log' \ DOMAIN log PROVE k = n /\ log'[k] = e
        OBVIOUS
      <3>1. k - last_seq \in 1..1 /\ k \in Nat /\ log'[k] = events[k - last_seq]
        BY <1>5, <2>3
      <3>2. k - last_seq = 1
        BY <3>1
      <3> QED
        BY <1>5, <1>9, <3>1, <3>2
    <2>5. /\ seen_ciphertexts' = seen_ciphertexts \cup {c}
          /\ spent_nullifiers' = spent_nullifiers \cup {Plain[c].nullifier}
          /\ spent_order_nonces' = spent_order_nonces \cup {<<Plain[c].trader, Plain[c].nonce>>}
      BY <1>11 DEF Admit
    <2>6. /\ c \notin seen_ciphertexts
          /\ Plain[c].nullifier \notin spent_nullifiers
          /\ <<Plain[c].trader, Plain[c].nonce>> \notin spent_order_nonces
      BY <1>2 DEF Admissible
    <2>7. \A k \in EventsOf("OrderPlaced") \ unacked :
              /\ log[k].c \in seen_ciphertexts
              /\ Plain[log[k].c].nullifier \in spent_nullifiers
              /\ <<Plain[log[k].c].trader, Plain[log[k].c].nonce>> \in spent_order_nonces
      BY DEF Inv, KeysOK, Covers, EventsOf
    <2>8. \A k \in EventsOf("OrderPlaced")' \ unacked' :
              \/ k \in EventsOf("OrderPlaced") \ unacked /\ log'[k] = log[k]
              \/ k = n /\ log'[k] = e
      BY <2>3, <2>4 DEF EventsOf
    <2> HIDE DEF n
    <2>9. ReplayKeysSpentOnce'
      <3> SUFFICES ASSUME NEW x \in EventsOf("OrderPlaced")' \ unacked',
                          NEW y \in EventsOf("OrderPlaced")' \ unacked', x # y
                   PROVE  LET p == Plain[log'[x].c]
                              q == Plain[log'[y].c]
                          IN  /\ log'[x].c # log'[y].c
                              /\ p.nullifier # q.nullifier
                              /\ <<p.trader, p.nonce>> # <<q.trader, q.nonce>>
        BY DEF ReplayKeysSpentOnce
      <3>1. CASE log'[x] = e /\ log'[y] = log[y] /\ y \in EventsOf("OrderPlaced") \ unacked
        BY <1>6, <2>6, <2>7, <3>1
      <3>2. CASE log'[y] = e /\ log'[x] = log[x] /\ x \in EventsOf("OrderPlaced") \ unacked
        BY <1>6, <2>6, <2>7, <3>2
      <3>3. CASE /\ log'[x] = log[x] /\ x \in EventsOf("OrderPlaced") \ unacked
                 /\ log'[y] = log[y] /\ y \in EventsOf("OrderPlaced") \ unacked
        BY <3>3 DEF Inv, KeysOK, ReplayKeysSpentOnce
      <3> QED
        BY <2>8, <3>1, <3>2, <3>3
    <2>10. Covers(log', DOMAIN log' \ unacked', seen_ciphertexts', spent_nullifiers',
                  spent_order_nonces')
      <3> SUFFICES ASSUME NEW k \in DOMAIN log' \ unacked', log'[k].type = "OrderPlaced"
                   PROVE  /\ log'[k].c \in seen_ciphertexts'
                          /\ Plain[log'[k].c].nullifier \in spent_nullifiers'
                          /\ <<Plain[log'[k].c].trader, Plain[log'[k].c].nonce>>
                                \in spent_order_nonces'
        BY DEF Covers
      <3>1. k \in EventsOf("OrderPlaced")' \ unacked'
        BY DEF EventsOf
      <3> QED
        BY <1>6, <2>5, <2>7, <2>8, <3>1
    <2> QED
      BY <1>3, <1>4, <1>8, <2>2, <2>9, <2>10 DEF Inv, KeysOK
  <1> QED
    BY <1>2, <1>10, <1>11

LEMMA ExpireOrdersKeeps ==
    ASSUME Inv, ExpireOrders
    PROVE  Inv'
  <1> DEFINE expired == collect_expired(tick.now)
             events == Removals(expired, "OrderExpired")
             Continue(failed) == tick' = [tick EXCEPT !.pc = "matching", !.queue = ActivePairs,
                                                      !.expiry_failed = failed]
  <1>1. \/ Append_(events) /\ book' = remove_orders(book, expired) /\ Continue(FALSE)
        \/ AppendFails(events) /\ Continue(TRUE) /\ UNCHANGED book
    BY DEF ExpireOrders, Removals
  <1>2. UNCHANGED <<status, spent, placing, now>> /\ lock' = "tick"
    BY DEF ExpireOrders, registry
  <1>3. expired \in SUBSET DOMAIN book
    BY DEF collect_expired
  <1>4. Len(events) \in Nat /\ \A i \in 1..Len(events) : events[i].type = "OrderExpired"
    <2> HIDE DEF expired
    <2>1. /\ Len(Removals(expired, "OrderExpired")) = Cardinality(expired)
          /\ Cardinality(expired) \in Nat
          /\ \A i \in 1..Cardinality(expired) : Removals(expired, "OrderExpired")[i].type = "OrderExpired"
      BY <1>3, RemovalsOK
    <2> QED
      BY <2>1
  <1> HIDE DEF events
  <1>5. \A i \in 1..Len(events) : EventOK(events[i], last_seq + i) /\ events[i].type # "OrderPlaced"
    BY <1>4 DEF EventOK, EventTypes
  <1>6. StoreOK' /\ last_seq' = last_seq + Len(events)
    BY <1>1, <1>4, <1>5, AppendGrows DEF Inv
  <1>7. KeysOK'
    BY <1>1, <1>2, <1>4, <1>5, KeysKept DEF Inv
  <1>8. BookOK(book', last_seq')
    <2>1. BookOK(book', last_seq)
      BY <1>1, RemoveKeeps DEF Inv
    <2>2. last_seq' \in Nat /\ last_seq \in Nat /\ last_seq <= last_seq'
      BY <1>4, <1>6 DEF Inv, StoreOK
    <2> QED
      BY <2>1, <2>2, LongerLog
  <1>9. TasksOK'
    BY <1>2 DEF Inv, TasksOK
  <1>10. PICK f \in BOOLEAN : /\ Continue(f)
                              /\ ~f => book' = remove_orders(book, expired)
    BY <1>1
  <1>11. tick' = [pc |-> "matching", now |-> tick.now, queue |-> ActivePairs,
                  chunks |-> tick.chunks, expiry_failed |-> f]
    <2>1. TickShape(tick)
      BY DEF Inv, TickOK
    <2> QED
      BY <1>10, <2>1 DEF TickShape
  <1>12. /\ tick'.pc = "matching" /\ tick'.now = tick.now /\ tick'.queue = ActivePairs
         /\ tick'.expiry_failed = f /\ TickShape(tick)'
    BY <1>11 DEF TickShape
  <1>13. ~f => \A i \in DOMAIN book' : ~(Plain[book'[i].c].expires_at <= tick.now)
    BY <1>10 DEF remove_orders, collect_expired, Order
  <1>14. ActivePairs' = ActivePairs
    BY <1>2 DEF ActivePairs
  <1>15. TickOK'
    BY <1>2, <1>12, <1>13, <1>14 DEF Inv, TickOK, Order
  <1> QED
    BY <1>6, <1>7, <1>8, <1>9, <1>15 DEF Inv

(* The events of a round: the auction, then its matches.                   *)
LEMMA RoundEventsShape ==
    ASSUME NEW pair, NEW result, NEW n \in Nat, n = Len(result.matches)
    PROVE  /\ Len(RoundEvents(pair, result)) = n + 1
           /\ RoundEvents(pair, result)[1].type = "AuctionExecuted"
           /\ \A k \in 1..n : LET e == RoundEvents(pair, result)[k + 1]
                              IN  /\ e.type = "OrderMatched"
                                  /\ e.bid = result.matches[k].bid
                                  /\ e.ask = result.matches[k].ask
                                  /\ e.price = result.matches[k].price
                                  /\ e.size = result.matches[k].size
  <1> DEFINE a == <<[type |-> "AuctionExecuted", pair |-> pair, price |-> result.price]>>
             m(k) == [type |-> "OrderMatched", bid |-> result.matches[k].bid,
                      ask |-> result.matches[k].ask, price |-> result.matches[k].price,
                      size |-> result.matches[k].size]
             s == [k \in 1..n |-> m(k)]
             T == {a[1]} \cup {m(k) : k \in 1..n}
             events == a \o s
  <1>1. RoundEvents(pair, result) = events
    BY DEF RoundEvents
  <1>2. a \in Seq(T) /\ Len(a) = 1
    OBVIOUS
  <1>3. s \in [1..n -> T]
    <2> HIDE DEF m, a
    <2> QED
      OBVIOUS
  <1>4. \A k \in 1..n : s[k] = m(k)
    <2> HIDE DEF m
    <2> QED
      OBVIOUS
  <1>5. a[1].type = "AuctionExecuted"
    OBVIOUS
  <1> HIDE DEF a, s, T
  <1>6. s \in Seq(T) /\ Len(s) = n
    BY <1>3
  <1>7. /\ Len(events) = 1 + n
        /\ events[1] = a[1]
        /\ \A k \in 1..n : events[k + 1] = s[k]
    <2>0. /\ Len(a \o s) = Len(a) + Len(s)
          /\ \A i \in 1..(Len(a) + Len(s)) :
                (a \o s)[i] = IF i <= Len(a) THEN a[i] ELSE s[i - Len(a)]
      BY <1>2, <1>6, ConcatProperties
    <2>1. Len(events) = 1 + n
      BY <1>2, <1>6, <2>0
    <2>2. \A i \in 1..(1 + n) : events[i] = IF i <= 1 THEN a[i] ELSE s[i - 1]
      BY <1>2, <1>6, <2>0
    <2> HIDE DEF events
    <2>3. \A k \in 1..n : k + 1 \in 1..(1 + n) /\ ~(k + 1 <= 1) /\ (k + 1) - 1 = k
      OBVIOUS
    <2>4. \A k \in 1..n : events[k + 1] = s[k]
      BY <2>2, <2>3
    <2> QED
      BY <2>1, <2>2, <2>4
  <1> HIDE DEF events
  <1>8. \A k \in 1..n : /\ events[k + 1].type = "OrderMatched"
                        /\ events[k + 1].bid = result.matches[k].bid
                        /\ events[k + 1].ask = result.matches[k].ask
                        /\ events[k + 1].price = result.matches[k].price
                        /\ events[k + 1].size = result.matches[k].size
    <2>1. \A k \in 1..n : events[k + 1] = m(k)
      <3> HIDE DEF m
      <3> QED
        BY <1>4, <1>7
    <2> SUFFICES ASSUME NEW k \in 1..n
                 PROVE  /\ m(k).type = "OrderMatched"
                        /\ m(k).bid = result.matches[k].bid
                        /\ m(k).ask = result.matches[k].ask
                        /\ m(k).price = result.matches[k].price
                        /\ m(k).size = result.matches[k].size
      <3> HIDE DEF m
      <3> QED
        BY <2>1
    <2> QED
      OBVIOUS
  <1> QED
    BY <1>1, <1>5, <1>7, <1>8

(* The outcomes of MatchPair, by name.                                     *)
MatchedPair == CHOOSE p \in tick.queue : TRUE
Round == run(OrdersOf(MatchedPair, "Buy"), OrdersOf(MatchedPair, "Sell"))

(* A match event, with its index in the round.                             *)
LEMMA RoundEventsOK ==
    ASSUME Inv, Round # NoAuction
    PROVE  LET events == RoundEvents(MatchedPair, Round)
           IN  /\ Len(events) \in Nat
               /\ \A i \in 1..Len(events) : /\ EventOK(events[i], last_seq + i)
                                            /\ events[i].type \in {"AuctionExecuted", "OrderMatched"}
               /\ \A i \in 1..Len(events) : events[i].type = "OrderMatched" =>
                    \E k \in 1..Len(Round.matches) :
                        /\ i = k + 1
                        /\ events[i].bid = Round.matches[k].bid
                        /\ events[i].ask = Round.matches[k].ask
                        /\ events[i].price = Round.matches[k].price
                        /\ events[i].size = Round.matches[k].size
  <1> DEFINE events == RoundEvents(MatchedPair, Round)
             n == Len(Round.matches)
  <1>1. last_seq \in Nat /\ BookOK(book, last_seq)
    BY DEF Inv, StoreOK
  <1>2. /\ n \in Nat
        /\ \A k \in 1..n : /\ Round.matches[k].bid \in DOMAIN book
                           /\ Round.matches[k].ask \in DOMAIN book
                           /\ Round.matches[k].size \in Nat \ {0}
    <2> DEFINE pair == MatchedPair
    <2>1. Round = run(OrdersOf(pair, "Buy"), OrdersOf(pair, "Sell"))
      BY DEF Round
    <2> HIDE DEF pair
    <2>2. n \in Nat /\ \A k \in 1..n : GoodMatch(pair, Round.price, Round.matches[k])
      BY <1>1, <2>1, RoundOfBook
    <2> QED
      BY <2>2 DEF GoodMatch
  <1>3. /\ Len(events) = n + 1
        /\ events[1].type = "AuctionExecuted"
        /\ \A k \in 1..n : /\ events[k + 1].type = "OrderMatched"
                           /\ events[k + 1].bid = Round.matches[k].bid
                           /\ events[k + 1].ask = Round.matches[k].ask
                           /\ events[k + 1].price = Round.matches[k].price
                           /\ events[k + 1].size = Round.matches[k].size
    BY <1>2, RoundEventsShape
  <1> HIDE DEF events, n
  <1>4. \A i \in 1..Len(events) : i = 1 \/ (i - 1 \in 1..n /\ (i - 1) + 1 = i)
    BY <1>2, <1>3
  <1>5. \A k \in 1..n : EventOK(events[k + 1], last_seq + (k + 1))
    <2> SUFFICES ASSUME NEW k \in 1..n PROVE EventOK(events[k + 1], last_seq + (k + 1))
      OBVIOUS
    <2>1. /\ events[k + 1].bid \in 1..last_seq /\ events[k + 1].ask \in 1..last_seq
          /\ events[k + 1].size \in Nat \ {0}
      BY <1>1, <1>2, <1>3 DEF BookOK
    <2>2. k \in Nat /\ \A j \in 1..last_seq : j \in 1..((last_seq + (k + 1)) - 1)
      BY <1>1, <1>2
    <2>3. events[k + 1].type = "OrderMatched"
      BY <1>3
    <2> QED
      BY <2>1, <2>2, <2>3 DEF EventOK, EventTypes
  <1>6. EventOK(events[1], last_seq + 1)
    BY <1>3 DEF EventOK, EventTypes
  <1>7. Len(events) \in Nat
    BY <1>2, <1>3
  <1>8. \A i \in 1..Len(events) : /\ EventOK(events[i], last_seq + i)
                                  /\ events[i].type \in {"AuctionExecuted", "OrderMatched"}
    <2> SUFFICES ASSUME NEW i \in 1..Len(events)
                 PROVE  /\ EventOK(events[i], last_seq + i)
                        /\ events[i].type \in {"AuctionExecuted", "OrderMatched"}
      OBVIOUS
    <2>1. CASE i = 1
      BY <1>3, <1>6, <2>1
    <2>2. CASE i - 1 \in 1..n /\ (i - 1) + 1 = i
      <3> DEFINE k == i - 1
      <3>1. k \in 1..n /\ k + 1 = i
        BY <2>2
      <3> HIDE DEF k
      <3> QED
        BY <1>3, <1>5, <3>1
    <2> QED
      BY <1>4, <2>1, <2>2
  <1>9. \A i \in 1..Len(events) : events[i].type = "OrderMatched" =>
            \E k \in 1..n : /\ i = k + 1
                            /\ events[i].bid = Round.matches[k].bid
                            /\ events[i].ask = Round.matches[k].ask
                            /\ events[i].price = Round.matches[k].price
                            /\ events[i].size = Round.matches[k].size
    <2> SUFFICES ASSUME NEW i \in 1..Len(events), events[i].type = "OrderMatched"
                 PROVE  \E k \in 1..n : /\ i = k + 1
                                        /\ events[i].bid = Round.matches[k].bid
                                        /\ events[i].ask = Round.matches[k].ask
                                        /\ events[i].price = Round.matches[k].price
                                        /\ events[i].size = Round.matches[k].size
      OBVIOUS
    <2> DEFINE k == i - 1
    <2>1. k \in 1..n /\ k + 1 = i
      BY <1>3, <1>4
    <2> HIDE DEF k
    <2> QED
      BY <1>3, <2>1
  <1> QED
    BY <1>7, <1>8, <1>9 DEF events, n

(* A round leaves the orders of the book, or fewer.                        *)
LEMMA MatchPairShrinks ==
    ASSUME Inv, MatchPair
    PROVE  /\ BookOK(book', last_seq)
           /\ DOMAIN book' \subseteq DOMAIN book
           /\ \A i \in DOMAIN book' : book'[i].c = book[i].c
  <1>1. UNCHANGED book \/ (Round # NoAuction /\ book' = apply_matches(book, Round.matches))
    BY DEF MatchPair, Round, MatchedPair
  <1>2. CASE UNCHANGED book
    BY <1>2 DEF Inv
  <1>3. CASE Round # NoAuction /\ book' = apply_matches(book, Round.matches)
    <2> DEFINE ms == Round.matches
               pair == MatchedPair
    <2>1. last_seq \in Nat /\ BookOK(book, last_seq)
      BY DEF Inv, StoreOK
    <2>2. Round = run(OrdersOf(pair, "Buy"), OrdersOf(pair, "Sell"))
      BY DEF Round
    <2> HIDE DEF pair
    <2>3. /\ Len(ms) \in Nat /\ ms = [i \in 1..Len(ms) |-> ms[i]]
          /\ \A i \in 1..Len(ms) : ms[i].size \in Nat
      <3>1. /\ Len(ms) \in Nat /\ ms = [i \in 1..Len(ms) |-> ms[i]]
            /\ \A i \in 1..Len(ms) : GoodMatch(pair, Round.price, ms[i])
        BY <1>3, <2>1, <2>2, RoundOfBook
      <3> QED
        BY <3>1 DEF GoodMatch
    <2> HIDE DEF ms
    <2>4. /\ BookOK(apply_matches(book, ms), last_seq)
          /\ DOMAIN apply_matches(book, ms) \subseteq DOMAIN book
          /\ \A i \in DOMAIN apply_matches(book, ms) : apply_matches(book, ms)[i].c = book[i].c
      BY <2>1, <2>3, ApplyKeeps
    <2> QED
      BY <1>3, <2>4 DEF ms
  <1> QED
    BY <1>1, <1>2, <1>3

LEMMA MatchPairKeeps ==
    ASSUME Inv, MatchPair
    PROVE  Inv'
  <1> DEFINE events == RoundEvents(MatchedPair, Round)
             rest == [tick EXCEPT !.queue = @ \ {MatchedPair}]
  <1>1. \/ Round = NoAuction /\ tick' = rest /\ UNCHANGED <<store, book>>
        \/ /\ Round # NoAuction /\ Append_(events)
           /\ book' = apply_matches(book, Round.matches)
           /\ tick' = [rest EXCEPT !.chunks = @ \o ChunksOf(last_seq + 1, Len(Round.matches))]
        \/ Round # NoAuction /\ AppendFails(events) /\ tick' = rest /\ UNCHANGED book
    BY DEF MatchPair, Round, MatchedPair
  <1>2. UNCHANGED <<status, spent, placing, lock, now>> /\ tick.pc = "matching"
    BY DEF MatchPair, registry
  <1>3. TickShape(tick)
    BY DEF Inv, TickOK
  <1>4. /\ TickShape(tick)' /\ tick'.pc = "matching" /\ tick'.now = tick.now
        /\ tick'.queue = tick.queue \ {MatchedPair} /\ tick'.expiry_failed = tick.expiry_failed
    <2> DEFINE q == tick.queue \ {MatchedPair}
               explicit(chunks) == [pc |-> tick.pc, now |-> tick.now, queue |-> q, chunks |-> chunks,
                                    expiry_failed |-> tick.expiry_failed]
    <2>1. rest = explicit(tick.chunks)
      BY <1>3 DEF TickShape
    <2>2. \A x : [explicit(tick.chunks) EXCEPT !.chunks = x] = explicit(x)
      OBVIOUS
    <2> HIDE DEF rest
    <2>3. \E x : tick' = explicit(x)
      <3> HIDE DEF explicit
      <3> QED
        BY <1>1, <2>1, <2>2
    <2> QED
      BY <1>2, <2>3 DEF TickShape
  <1> HIDE DEF events, rest
  <1>5. Round # NoAuction =>
            /\ Len(events) \in Nat
            /\ \A i \in 1..Len(events) : EventOK(events[i], last_seq + i) /\ events[i].type # "OrderPlaced"
    BY RoundEventsOK DEF events
  <1>6. Round # NoAuction => StoreOK' /\ last_seq' = last_seq + Len(events)
    BY <1>1, <1>5, AppendGrows DEF Inv
  <1>7. StoreOK' /\ last_seq <= last_seq'
    <2>1. CASE Round = NoAuction
      BY <1>1, <2>1 DEF Inv, StoreOK, store
    <2>2. CASE Round # NoAuction
      BY <1>5, <1>6, <2>2 DEF Inv, StoreOK
    <2> QED
      BY <2>1, <2>2
  <1>8. KeysOK'
    <2>1. CASE Round = NoAuction
      BY <1>1, <1>2, <2>1 DEF Inv, KeysOK, store, spent, ReplayKeysSpentOnce, EventsOf
    <2>2. CASE Round # NoAuction
      BY <1>1, <1>2, <1>5, <2>2, KeysKept DEF Inv
    <2> QED
      BY <2>1, <2>2
  <1>9. /\ BookOK(book', last_seq)
        /\ DOMAIN book' \subseteq DOMAIN book
        /\ \A i \in DOMAIN book' : book'[i].c = book[i].c
    BY MatchPairShrinks
  <1>10. BookOK(book', last_seq')
    BY <1>7, <1>9, LongerLog DEF Inv, StoreOK
  <1>11. TasksOK'
    BY <1>2 DEF Inv, TasksOK
  <1>12. TickOK'
    <2>1. ActivePairs' = ActivePairs
      BY <1>2 DEF ActivePairs
    <2>2. ~tick.expiry_failed => \A i \in DOMAIN book' : ~(Order(i)'.expires_at <= tick.now)
      BY <1>2, <1>9 DEF Inv, TickOK, Order
    <2> QED
      BY <1>2, <1>4, <2>1, <2>2 DEF Inv, TickOK
  <1> QED
    BY <1>7, <1>8, <1>10, <1>11, <1>12 DEF Inv

(* The numbers after the last durable event hold none, so replay may stop  *)
(* there.                                                                  *)
LEMMA ReplayedUpToLast ==
    ASSUME StoreOK, NEW M, M = Max(DOMAIN log \cup {0})
    PROVE  M \in Nat /\ M <= last_seq /\ LogOK(log, M) /\ Replayed = ReplayOf(log, M)
  <1>1. last_seq \in Nat /\ DOMAIN log \subseteq 1..last_seq
    BY DEF StoreOK, LogOK
  <1> DEFINE D == DOMAIN log \cup {0}
  <1>2. D \in SUBSET (0..last_seq) /\ D # {}
    BY <1>1
  <1>3. M \in D /\ \A y \in D : M >= y
    <2> HIDE DEF D
    <2>1. M = Max(D)
      BY DEF D
    <2> QED
      BY <1>1, <1>2, <2>1, MaxOfInitial
  <1>4. M \in Nat /\ M <= last_seq
    BY <1>1, <1>2, <1>3
  <1>5. LogOK(log, M)
    BY <1>1, <1>3, <1>4 DEF LogOK, StoreOK
  <1>6. \A n \in (M + 1)..last_seq : n \notin DOMAIN log
    <2> SUFFICES ASSUME NEW n \in DOMAIN log PROVE n \notin (M + 1)..last_seq
      OBVIOUS
    <2>1. M >= n
      BY <1>3
    <2> QED
      BY <1>1, <1>4, <2>1
  <1>7. Agree(log, log, M)
    BY DEF Agree
  <1>8. ReplayOf(log, last_seq) = ReplayOf(log, M)
    BY <1>1, <1>4, <1>6, <1>7, ReplaySkips
  <1>9. Replayed = ReplayOf(log, last_seq)
    BY DEF Replayed, ReplayOf
  <1> QED
    BY <1>4, <1>5, <1>8, <1>9

LEMMA RestartKeeps ==
    ASSUME Inv, Restart
    PROVE  Inv'
  <1> DEFINE M == Max(DOMAIN log \cup {0})
  <1>1. M \in Nat /\ M <= last_seq /\ LogOK(log, M) /\ Replayed = ReplayOf(log, M)
    BY ReplayedUpToLast DEF Inv
  <1>2. /\ last_seq' = M /\ log' = log /\ unacked' = unacked /\ now' = now
        /\ book' = Replayed.book
        /\ seen_ciphertexts' = Replayed.seen
        /\ spent_nullifiers' = Replayed.nullifiers
        /\ spent_order_nonces' = Replayed.nonces
        /\ placing' = [t \in Tasks |-> Idle]
        /\ lock' = "free" /\ tick' = TickIdle
    BY DEF Restart
  <1> HIDE DEF M
  <1>3. ProjOK(Replayed, log, M)
    BY <1>1, ReplayedIsProjection
  <1>4. StoreOK'
    BY <1>1, <1>2 DEF Inv, StoreOK
  <1>5. BookOK(book', last_seq')
    BY <1>2, <1>3 DEF ProjOK
  <1>6. KeysOK'
    <2>1. {m \in DOMAIN log : m <= M} = DOMAIN log
      BY <1>1 DEF LogOK
    <2>2. Covers(log', DOMAIN log' \ unacked', seen_ciphertexts', spent_nullifiers', spent_order_nonces')
      BY <1>2, <1>3, <2>1 DEF ProjOK, Covers
    <2> QED
      BY <1>2, <2>2 DEF Inv, KeysOK, ReplayKeysSpentOnce, EventsOf
  <1>7. TasksOK'
    BY <1>2 DEF TasksOK, PlacingOK
  <1>8. TickOK'
    BY <1>2 DEF Inv, TickOK, TickShape, TickIdle
  <1> QED
    BY <1>4, <1>5, <1>6, <1>7, <1>8 DEF Inv

LEMMA StepInv == Inv /\ [Next]_vars => Inv'
  <1> SUFFICES ASSUME Inv, [Next]_vars PROVE Inv'
    OBVIOUS
  <1>1. ASSUME NEW t \in Tasks, NEW c \in Ciphertexts, SubmitOrder(t, c) PROVE Inv'
    BY <1>1, SubmitOrderKeeps
  <1>2. ASSUME NEW t \in Tasks, ValidateOrder(t) PROVE Inv'
    BY <1>2, ValidateOrderKeeps
  <1>3. ASSUME NEW t \in Tasks, RejectOrder(t) PROVE Inv'
    BY <1>3, RejectOrderKeeps
  <1>4. ASSUME NEW t \in Tasks, persist_order_placed(t) PROVE Inv'
    BY <1>4, PersistKeeps
  <1>5. ASSUME NEW id \in DOMAIN book, cancel_order(id) PROVE Inv'
    BY <1>5, CancelOrderKeeps
  <1>6. ASSUME NEW id \in dropping, drop_secret(id) PROVE Inv'
    BY <1>6, DropSecretKeeps
  <1>7. ASSUME NEW pair \in Pairs, register_pair_with_event(pair) \/ suspend_pair(pair) PROVE Inv'
    BY <1>7, PairKeeps
  <1>8. ASSUME NEW pair \in Pairs, delist_pair(pair) PROVE Inv'
    BY <1>8, DelistPairKeeps
  <1>9. CASE StartTick \/ ReleaseLock \/ build_batch_witness \/ prune_dead_secrets \/ ClockTick
    BY <1>9, QuietTickKeeps
  <1>10. CASE ExpireOrders
    BY <1>10, ExpireOrdersKeeps
  <1>11. CASE MatchPair
    BY <1>11, MatchPairKeeps
  <1>12. CASE Restart
    BY <1>12, RestartKeeps
  <1>13. CASE UNCHANGED vars
    BY <1>13 DEF vars, Inv, StoreOK, KeysOK, TasksOK, TickOK, ReplayKeysSpentOnce, EventsOf,
                 Order, ActivePairs
  <1> QED
    BY <1>1, <1>2, <1>3, <1>4, <1>5, <1>6, <1>7, <1>8, <1>9, <1>10, <1>11, <1>12, <1>13 DEF Next

LEMMA Invariance == Spec => []Inv
  <1>1. Init => Inv
    BY InitInv
  <1>2. Inv /\ [Next]_vars => Inv'
    BY StepInv
  <1> QED
    BY <1>1, <1>2, PTL DEF Spec

(* persist_order_placed: no two acknowledged orders share a ciphertext, a  *)
(* nullifier or a trader's nonce, for any number of placements in flight,  *)
(* with torn appends and restarts at any point.                            *)
THEOREM KeysAreSpentOnce == Spec => []ReplayKeysSpentOnce
  <1>1. Inv => ReplayKeysSpentOnce
    BY DEF Inv, KeysOK
  <1> QED
    BY <1>1, Invariance, PTL

(* The rounds of the engine keep the promises of the auction: whatever     *)
(* book the engine reaches, with torn appends and restarts too, the round  *)
(* that tick_under_lock would run for a pair fills by price and time,      *)
(* leaves no two orders that may trade, and is at a price that no price    *)
(* executes more than.                                                     *)
TicksClear ==
    \A pair \in Pairs :
        LET buys == OrdersOf(pair, "Buy")
            sells == OrdersOf(pair, "Sell")
        IN  \E price \in Nat : Clears(buys, sells, run(buys, sells), price)

(* Every book the engine reaches is one whose rounds clear.                *)
THEOREM EngineRoundsClear == Spec => []TicksClear
  <1>1. Inv => TicksClear
    BY BookStands, RunClears DEF Inv, StoreOK, TicksClear
  <1> QED
    BY <1>1, Invariance, PTL

-----------------------------------------------------------------------------
(* What a step may append.                                                 *)

(* The step appends the events, of the types T, or fails to.               *)
Appends(events, T) ==
    /\ Len(events) \in Nat
    /\ \A i \in 1..Len(events) : EventOK(events[i], last_seq + i) /\ events[i].type \in T
    /\ Append_(events) \/ AppendFails(events)

LEMMA SingleAppend ==
    ASSUME NEW e, EventOK(e, last_seq + 1), NEW T, e.type \in T,
           Append_(<<e>>) \/ AppendFails(<<e>>)
    PROVE  Appends(<<e>>, T)
  <1> DEFINE events == <<e>>
  <1>1. Len(events) = 1 /\ events[1] = e
    OBVIOUS
  <1> HIDE DEF events
  <1>2. \A i \in 1..Len(events) : i = 1
    BY <1>1
  <1>3. \A i \in 1..Len(events) : EventOK(events[i], last_seq + i) /\ events[i].type \in T
    BY <1>1, <1>2
  <1>4. Len(events) \in Nat
    BY <1>1
  <1> QED
    BY <1>3, <1>4 DEF Appends, events

Unmatched == EventTypes \ {"OrderMatched"}
Quiet == EventTypes \ {"OrderMatched", "OrderPlaced"}

LEMMA RemovalsAppend ==
    ASSUME Inv, ExpireOrders \/ \E pair \in Pairs : delist_pair(pair)
    PROVE  \E events : Appends(events, Quiet)
  <1>1. CASE ExpireOrders
    <2> DEFINE expired == collect_expired(tick.now)
               events == Removals(expired, "OrderExpired")
    <2>1. Append_(events) \/ AppendFails(events)
      BY <1>1 DEF ExpireOrders, Removals
    <2>2. expired \in SUBSET DOMAIN book
      BY DEF collect_expired
    <2> HIDE DEF expired
    <2>3. Len(events) \in Nat /\ \A i \in 1..Len(events) : events[i].type = "OrderExpired"
      <3>1. /\ Len(Removals(expired, "OrderExpired")) = Cardinality(expired)
            /\ Cardinality(expired) \in Nat
            /\ \A i \in 1..Cardinality(expired) : Removals(expired, "OrderExpired")[i].type = "OrderExpired"
        BY <2>2, RemovalsOK
      <3> QED
        BY <3>1
    <2> HIDE DEF events
    <2>4. Appends(events, Quiet)
      BY <2>1, <2>3 DEF Appends, Quiet, EventOK, EventTypes
    <2> QED
      BY <2>4
  <1>2. ASSUME NEW pair \in Pairs, delist_pair(pair) PROVE \E events : Appends(events, Quiet)
    <2> DEFINE open == order_ids_for(pair)
               cancels == Removals(open, "OrderCancelled")
               last == [type |-> "PairDelisted", pair |-> pair]
               events == Append(cancels, last)
    <2>1. Append_(events) \/ AppendFails(events)
      BY <1>2 DEF delist_pair, Removals
    <2>2. open \in SUBSET DOMAIN book
      BY DEF order_ids_for
    <2> HIDE DEF open
    <2>3. /\ cancels \in Seq([type : {"OrderCancelled"}, id : open])
          /\ Len(cancels) = Cardinality(open) /\ Cardinality(open) \in Nat
          /\ \A i \in 1..Cardinality(open) : cancels[i].type = "OrderCancelled"
      BY <2>2, RemovalsOK
    <2>4. last.type = "PairDelisted"
      OBVIOUS
    <2> HIDE DEF cancels, last
    <2>5. /\ Len(events) = Len(cancels) + 1
          /\ \A i \in 1..Len(events) : events[i] = IF i <= Len(cancels) THEN cancels[i] ELSE last
      BY <2>3
    <2> HIDE DEF events
    <2>6. \A i \in 1..Len(events) : events[i].type \in {"OrderCancelled", "PairDelisted"}
      BY <2>3, <2>4, <2>5
    <2>7. Appends(events, Quiet)
      BY <2>1, <2>3, <2>5, <2>6 DEF Appends, Quiet, EventOK, EventTypes
    <2> QED
      BY <2>7
  <1> QED
    BY <1>1, <1>2

(* Only MatchPair records matches.                                         *)
LEMMA OtherEvents ==
    ASSUME Inv, [Next]_vars, ~MatchPair
    PROVE  UNCHANGED log \/ \E events : Appends(events, Unmatched)
  <1>1. ASSUME NEW t \in Tasks, NEW c \in Ciphertexts, SubmitOrder(t, c) PROVE UNCHANGED log
    BY <1>1 DEF SubmitOrder, store
  <1>2. ASSUME NEW t \in Tasks, ValidateOrder(t) \/ RejectOrder(t) PROVE UNCHANGED log
    BY <1>2 DEF ValidateOrder, RejectOrder, store
  <1>3. ASSUME NEW t \in Tasks, persist_order_placed(t)
        PROVE  \E events : Appends(events, Unmatched)
    <2>1. PICK c \in Ciphertexts : placing[t].c = c /\ Plain[c].size > 0 /\ Plain[c].price > 0
      BY <1>3 DEF Inv, TasksOK, PlacingOK, persist_order_placed, Idle
    <2> DEFINE e == [type |-> "OrderPlaced", id |-> last_seq + 1, c |-> c]
    <2>2. Append_(<<e>>) \/ AppendFails(<<e>>)
      BY <1>3, <2>1 DEF persist_order_placed, PlacedEvent
    <2>3. EventOK(e, last_seq + 1) /\ e.type \in Unmatched
      BY <2>1 DEF EventOK, EventTypes, Unmatched
    <2> HIDE DEF e
    <2> QED
      BY <2>2, <2>3, SingleAppend
  <1>4. ASSUME NEW id \in DOMAIN book, cancel_order(id)
        PROVE  \E events : Appends(events, Unmatched)
    <2> DEFINE e == [type |-> "OrderCancelled", id |-> id]
    <2>1. Append_(<<e>>) \/ AppendFails(<<e>>)
      BY <1>4 DEF cancel_order
    <2>2. EventOK(e, last_seq + 1) /\ e.type \in Unmatched
      BY DEF EventOK, EventTypes, Unmatched
    <2> HIDE DEF e
    <2> QED
      BY <2>1, <2>2, SingleAppend
  <1>5. ASSUME NEW id \in dropping, drop_secret(id) PROVE UNCHANGED log
    BY <1>5 DEF drop_secret, store
  <1>6. ASSUME NEW pair \in Pairs, register_pair_with_event(pair) \/ suspend_pair(pair)
        PROVE  \E events : Appends(events, Unmatched)
    <2> DEFINE reg == [type |-> "PairRegistered", pair |-> pair]
               sus == [type |-> "PairSuspended", pair |-> pair]
    <2>1. PICK e \in {reg, sus} : Append_(<<e>>) \/ AppendFails(<<e>>)
      BY <1>6 DEF register_pair_with_event, suspend_pair
    <2>2. EventOK(e, last_seq + 1) /\ e.type \in Unmatched
      BY <2>1 DEF EventOK, EventTypes, Unmatched
    <2> QED
      BY <2>1, <2>2, SingleAppend
  <1>7. CASE ExpireOrders \/ \E pair \in Pairs : delist_pair(pair)
    <2>1. PICK events : Appends(events, Quiet)
      BY <1>7, RemovalsAppend
    <2>2. Appends(events, Unmatched)
      BY <2>1 DEF Appends, Quiet, Unmatched
    <2> QED
      BY <2>2
  <1>8. CASE StartTick \/ ReleaseLock \/ build_batch_witness \/ prune_dead_secrets \/ ClockTick \/ Restart
    BY <1>8 DEF StartTick, ReleaseLock, build_batch_witness, prune_dead_secrets, ClockTick, Restart, store
  <1>9. CASE UNCHANGED vars
    BY <1>9 DEF vars
  <1> QED
    BY <1>1, <1>2, <1>3, <1>4, <1>5, <1>6, <1>7, <1>8, <1>9 DEF Next

(* A match that a step records is one of the round of the pair it matches. *)
LEMMA RecordedMatch ==
    ASSUME Inv, [Next]_vars, NEW n \in DOMAIN log' \ DOMAIN log, log'[n].type = "OrderMatched"
    PROVE  /\ tick.pc = "matching" /\ MatchedPair \in tick.queue
           /\ GoodMatch(MatchedPair, Round.price, log'[n])
  <1>1. ASSUME NEW events, NEW T, Appends(events, T)
        PROVE  \E i \in 1..Len(events) : log'[n] = events[i] /\ events[i].type \in T
    <2>1. /\ \A k \in DOMAIN log' \ DOMAIN log : /\ k - last_seq \in 1..Len(events)
                                                 /\ log'[k] = events[k - last_seq]
      BY <1>1, AppendGrows DEF Appends, Inv
    <2> QED
      BY <1>1, <2>1 DEF Appends
  <1>2. MatchPair
    <2>1. ASSUME ~MatchPair PROVE FALSE
      <3>1. PICK events : Appends(events, Unmatched)
        BY <2>1, OtherEvents
      <3> QED
        BY <1>1, <3>1 DEF Unmatched
    <2> QED
      BY <2>1
  <1> DEFINE events == RoundEvents(MatchedPair, Round)
  <1>3. Round # NoAuction /\ (Append_(events) \/ AppendFails(events))
    BY <1>2 DEF MatchPair, Round, MatchedPair, store
  <1>4. tick.pc = "matching" /\ MatchedPair \in tick.queue
    BY <1>2 DEF MatchPair, MatchedPair
  <1>5. /\ Len(events) \in Nat
        /\ \A i \in 1..Len(events) : /\ EventOK(events[i], last_seq + i)
                                     /\ events[i].type \in {"AuctionExecuted", "OrderMatched"}
        /\ \A i \in 1..Len(events) : events[i].type = "OrderMatched" =>
             \E k \in 1..Len(Round.matches) :
                 /\ i = k + 1
                 /\ events[i].bid = Round.matches[k].bid
                 /\ events[i].ask = Round.matches[k].ask
                 /\ events[i].price = Round.matches[k].price
                 /\ events[i].size = Round.matches[k].size
    BY <1>3, RoundEventsOK
  <1> HIDE DEF events
  <1>6. PICK i \in 1..Len(events) : log'[n] = events[i]
    <2>1. Appends(events, {"AuctionExecuted", "OrderMatched"})
      BY <1>3, <1>5 DEF Appends
    <2> QED
      BY <1>1, <2>1
  <1>7. PICK k \in 1..Len(Round.matches) :
                 /\ log'[n].bid = Round.matches[k].bid
                 /\ log'[n].ask = Round.matches[k].ask
                 /\ log'[n].price = Round.matches[k].price
                 /\ log'[n].size = Round.matches[k].size
    BY <1>5, <1>6
  <1>8. GoodMatch(MatchedPair, Round.price, Round.matches[k])
    <2> DEFINE pair == MatchedPair
    <2>1. Round = run(OrdersOf(pair, "Buy"), OrdersOf(pair, "Sell"))
      BY DEF Round
    <2> HIDE DEF pair
    <2>2. \A j \in 1..Len(Round.matches) : GoodMatch(pair, Round.price, Round.matches[j])
      BY <1>3, <2>1, RoundOfBook DEF Inv, StoreOK
    <2> QED
      BY <2>2 DEF pair
  <1> QED
    BY <1>4, <1>7, <1>8 DEF GoodMatch

(* tick_under_lock, for any orders and any interleaving: a recorded match  *)
(* is of two resting orders of an Active pair, of different traders, on    *)
(* opposite sides and at a price both accept.                              *)
THEOREM RecordedMatchesAreLegal == Spec => MatchesAreLegal
  <1> DEFINE A == \A n \in DOMAIN log' \ DOMAIN log :
                    log'[n].type = "OrderMatched" =>
                        LET b == log'[n].bid
                            a == log'[n].ask
                        IN  /\ {a, b} \subseteq DOMAIN book
                            /\ Order(b).pair = Order(a).pair /\ status[Order(b).pair] = "Active"
                            /\ Order(b).side = "Buy" /\ Order(a).side = "Sell"
                            /\ Order(b).trader # Order(a).trader
                            /\ Order(b).price >= log'[n].price /\ log'[n].price >= Order(a).price
  <1>1. Inv /\ [Next]_vars => A
    <2> SUFFICES ASSUME Inv, [Next]_vars,
                        NEW n \in DOMAIN log' \ DOMAIN log, log'[n].type = "OrderMatched"
                 PROVE  LET b == log'[n].bid
                            a == log'[n].ask
                        IN  /\ {a, b} \subseteq DOMAIN book
                            /\ Order(b).pair = Order(a).pair /\ status[Order(b).pair] = "Active"
                            /\ Order(b).side = "Buy" /\ Order(a).side = "Sell"
                            /\ Order(b).trader # Order(a).trader
                            /\ Order(b).price >= log'[n].price /\ log'[n].price >= Order(a).price
      OBVIOUS
    <2>1. /\ tick.pc = "matching" /\ MatchedPair \in tick.queue
          /\ GoodMatch(MatchedPair, Round.price, log'[n])
      BY RecordedMatch
    <2>2. status[MatchedPair] = "Active"
      BY <2>1 DEF Inv, TickOK, ActivePairs
    <2> QED
      BY <2>1, <2>2 DEF GoodMatch
  <1>2. Spec => [][A]_vars
    BY <1>1, Invariance, PTL DEF Spec
  <1> QED
    BY <1>2 DEF MatchesAreLegal

(* tick_under_lock: what has expired by the tick's clock is matched only   *)
(* in a tick that could not persist the expiries.                          *)
THEOREM ExpiredOrdersAreNotMatched == Spec => ExpiredNotMatched
  <1> DEFINE A == \A n \in DOMAIN log' \ DOMAIN log :
                    log'[n].type = "OrderMatched" /\ ~tick.expiry_failed =>
                        /\ tick.now < Order(log'[n].bid).expires_at
                        /\ tick.now < Order(log'[n].ask).expires_at
  <1>1. Inv /\ [Next]_vars => A
    <2> SUFFICES ASSUME Inv, [Next]_vars, NEW n \in DOMAIN log' \ DOMAIN log,
                        log'[n].type = "OrderMatched", ~tick.expiry_failed
                 PROVE  /\ tick.now < Order(log'[n].bid).expires_at
                        /\ tick.now < Order(log'[n].ask).expires_at
      OBVIOUS
    <2>1. /\ tick.pc = "matching"
          /\ log'[n].bid \in DOMAIN book /\ log'[n].ask \in DOMAIN book
      BY RecordedMatch DEF GoodMatch
    <2>2. ASSUME NEW i \in DOMAIN book PROVE tick.now < Order(i).expires_at
      <3>1. ~(Order(i).expires_at <= tick.now) /\ tick.now \in Nat
        BY <2>1 DEF Inv, TickOK
      <3>2. Order(i).expires_at \in Nat
        BY PlainType DEF Inv, BookOK, Order
      <3> QED
        BY <3>1, <3>2
    <2> QED
      BY <2>1, <2>2
  <1>2. Spec => [][A]_vars
    BY <1>1, Invariance, PTL DEF Spec
  <1> QED
    BY <1>2 DEF ExpiredNotMatched

-----------------------------------------------------------------------------
(* The live state is the replay of the log.                                *)

Live == [book |-> book, status |-> status, seen |-> seen_ciphertexts,
         nullifiers |-> spent_nullifiers, nonces |-> spent_order_nonces]

(* From st by replaying the K events of s, numbered from N + 1.            *)
Replays(st, N, s, K, r) ==
    /\ r[0] = st
    /\ \A k \in 1..K : r[k] = replay_event(r[k - 1], N + k, s[k])

Extends_(st, N, s, K, r, st2) == Replays(st, N, s, K, r) /\ st2 = r[K]

LEMMA ReplayedIs == Replayed = ReplayOf(log, last_seq) /\ Replayed' = ReplayOf(log', last_seq')
  <1>1. Replayed = ReplayOf(log, last_seq)
    BY DEF Replayed, ReplayOf
  <1>2. (Replayed = ReplayOf(log, last_seq))'
    BY <1>1, PTL
  <1> QED
    BY <1>1, <1>2

LEMMA AppendReplays ==
    ASSUME StoreOK, NEW events, Len(events) \in Nat, Append_(events)
    PROVE  \E r : Extends_(Replayed, last_seq, events, Len(events), r, Replayed')
  <1> DEFINE K == Len(events)
             N == last_seq
             lg2 == log'
  <1>1. N \in Nat /\ K \in Nat /\ N + K \in Nat /\ N <= N + K /\ DOMAIN log \subseteq 1..N
    BY DEF StoreOK, LogOK
  <1>2. last_seq' = N + K /\ lg2 = LogWith(events, K)
    BY DEF Append_
  <1>3. \A n \in 1..N : (n \in DOMAIN log <=> n \in DOMAIN lg2) /\ (n \in DOMAIN log => log[n] = lg2[n])
    BY <1>1, <1>2 DEF LogWith
  <1>4. \A k \in 1..K : N + k \in DOMAIN lg2 /\ lg2[N + k] = events[k]
    <2> SUFFICES ASSUME NEW k \in 1..K PROVE N + k \in DOMAIN lg2 /\ lg2[N + k] = events[k]
      OBVIOUS
    <2> DEFINE n == N + k
    <2>1. n \in (N + 1)..(N + K) /\ n > N /\ n - N = k
      BY <1>1
    <2> HIDE DEF n
    <2>2. n \in DOMAIN lg2 /\ lg2[n] = events[n - N]
      BY <1>2, <2>1 DEF LogWith
    <2> QED
      BY <2>1, <2>2 DEF n
  <1> HIDE DEF lg2, K, N
  <1>5. Agree(log, lg2, N)
    BY <1>3 DEF Agree
  <1>6. PICK q : ReplaySteps(lg2, N + K, q)
    BY <1>1, ReplayUnfolds
  <1>7. q[N] = ReplayOf(log, N)
    BY <1>1, <1>5, <1>6, ReplayPrefix
  <1>8. q[N + K] = ReplayOf(lg2, N + K)
    BY <1>6 DEF ReplaySteps
  <1> DEFINE r == [k \in 0..K |-> q[N + k]]
  <1>9. r[0] = q[N] /\ r[K] = q[N + K]
    BY <1>1
  <1>10. \A k \in 1..K : r[k] = replay_event(r[k - 1], N + k, events[k])
    <2> SUFFICES ASSUME NEW k \in 1..K PROVE r[k] = replay_event(r[k - 1], N + k, events[k])
      OBVIOUS
    <2> DEFINE n == N + k
    <2>1. n \in 1..(N + K) /\ n - 1 = N + (k - 1) /\ k - 1 \in 0..K /\ k \in 0..K
      BY <1>1
    <2>2. r[k] = q[n] /\ r[k - 1] = q[N + (k - 1)]
      BY <2>1
    <2>3. n \in DOMAIN lg2 /\ lg2[n] = events[k]
      BY <1>4
    <2> HIDE DEF n, r
    <2>4. q[n] = RStep(lg2, q[n - 1], n)
      BY <1>6, <2>1 DEF ReplaySteps
    <2>5. q[n] = replay_event(q[n - 1], n, events[k])
      BY <2>3, <2>4 DEF RStep
    <2> QED
      BY <2>1, <2>2, <2>5 DEF n
  <1> HIDE DEF r
  <1>11. Replayed = r[0] /\ Replayed' = r[K]
    BY <1>2, <1>7, <1>8, <1>9, ReplayedIs DEF lg2, N
  <1>12. Extends_(Replayed, N, events, K, r, Replayed')
    BY <1>10, <1>11 DEF Extends_, Replays
  <1> QED
    BY <1>12 DEF N, K

LEMMA EventReplays ==
    ASSUME StoreOK, NEW e, Append_(<<e>>)
    PROVE  Replayed' = replay_event(Replayed, last_seq + 1, e)
  <1> DEFINE events == <<e>>
  <1>1. Len(events) = 1 /\ Len(events) \in Nat /\ events[1] = e /\ Append_(events)
    OBVIOUS
  <1> HIDE DEF events
  <1>2. PICK r : Extends_(Replayed, last_seq, events, Len(events), r, Replayed')
    BY <1>1, AppendReplays
  <1>3. Extends_(Replayed, last_seq, events, 1, r, Replayed')
    BY <1>1, <1>2
  <1>4. 1 \in 1..1 /\ 1 - 1 = 0
    OBVIOUS
  <1> QED
    BY <1>1, <1>3, <1>4 DEF Extends_, Replays

(* An append that left no trace.                                           *)
LEMMA LostAppend ==
    ASSUME StoreOK, NEW events, Len(events) \in Nat,
           \A i \in 1..Len(events) : EventOK(events[i], last_seq + i),
           AppendFails(events), unacked' = {}
    PROVE  Replayed' = Replayed /\ unacked = {}
  <1>1. /\ StoreOK'
        /\ last_seq' = last_seq + Len(events)
        /\ Agree(log, log', last_seq)
        /\ DOMAIN log' \ DOMAIN log \subseteq unacked'
        /\ unacked \subseteq unacked'
    BY AppendGrows
  <1>2. last_seq \in Nat /\ last_seq' \in Nat /\ last_seq <= last_seq' /\ DOMAIN log \subseteq 1..last_seq
    BY <1>1 DEF StoreOK, LogOK
  <1>3. \A n \in (last_seq + 1)..last_seq' : n \notin DOMAIN log'
    BY <1>1, <1>2
  <1> DEFINE N == last_seq
             M == last_seq'
             lg2 == log'
  <1>4. N \in Nat /\ M \in Nat /\ N <= M /\ Agree(log, lg2, N)
        /\ \A n \in (N + 1)..M : n \notin DOMAIN lg2
    BY <1>1, <1>2, <1>3
  <1> HIDE DEF N, M, lg2
  <1>5. ReplayOf(lg2, M) = ReplayOf(log, N)
    BY <1>4, ReplaySkips
  <1> QED
    BY <1>1, <1>5, ReplayedIs DEF N, M, lg2

LEMMA LiveWithBook ==
    ASSUME NEW x
    PROVE  /\ SetBook(Live, x).book = x
           /\ SetBook(Live, book) = Live
           /\ \A y : SetBook(SetBook(Live, x), y) = SetBook(Live, y)
  <1> DEFINE with(y) == [book |-> y, status |-> status, seen |-> seen_ciphertexts,
                         nullifiers |-> spent_nullifiers, nonces |-> spent_order_nonces]
  <1>1. \A y : SetBook(Live, y) = with(y)
    BY DEF SetBook, Live
  <1>2. SetBook(Live, x).book = x
    BY <1>1
  <1>3. SetBook(Live, book) = Live
    BY <1>1 DEF Live
  <1>4. ASSUME NEW y PROVE SetBook(with(x), y) = with(y)
    BY DEF SetBook
  <1> HIDE DEF with
  <1> QED
    BY <1>1, <1>2, <1>3, <1>4

(* The removals of a set of orders take exactly that set out.              *)
LEMMA RemovalsReplay ==
    ASSUME Inv, NEW ids \in SUBSET DOMAIN book, NEW type \in {"OrderCancelled", "OrderExpired"},
           NEW K, K = Cardinality(ids), NEW s, \A i \in 1..K : s[i] = Removals(ids, type)[i],
           NEW N, NEW r, Replays(Live, N, s, K, r)
    PROVE  r[K] = SetBook(Live, remove_orders(book, ids))
  <1>1. /\ K \in Nat
        /\ \A x \in ids : \E i \in 1..K : SetToSeq(ids)[i] = x
        /\ \A i \in 1..K : SetToSeq(ids)[i] \in ids
    BY RestingListed
  <1>2. \A i \in 1..K : s[i].type \in {"OrderCancelled", "OrderExpired"} /\ s[i].id = SetToSeq(ids)[i]
    <2>1. \A i \in 1..K : /\ Removals(ids, type)[i].type = type
                          /\ Removals(ids, type)[i].id = SetToSeq(ids)[i]
      BY DEF Removals
    <2> QED
      BY <2>1
  <1> DEFINE x(i) == SetToSeq(ids)[i]
             got(k) == {x(i) : i \in 1..k}
             S == {k \in Nat : k <= K => r[k] = SetBook(Live, remove_orders(book, got(k)))}
  <1>3. 0 \in S
    <2>1. got(0) = {}
      OBVIOUS
    <2>2. remove_orders(book, {}) = book
      BY DEF remove_orders, Inv, BookOK
    <2>3. r[0] = Live
      BY DEF Replays
    <2> QED
      BY <2>1, <2>2, <2>3, LiveWithBook
  <1>4. ASSUME NEW k \in Nat, k \in S PROVE k + 1 \in S
    <2> SUFFICES ASSUME k + 1 <= K
                 PROVE  r[k + 1] = SetBook(Live, remove_orders(book, got(k + 1)))
      OBVIOUS
    <2>1. r[k] = SetBook(Live, remove_orders(book, got(k))) /\ k + 1 \in 1..K /\ (k + 1) - 1 = k
      BY <1>1, <1>4
    <2>2. got(k + 1) = got(k) \cup {x(k + 1)}
      <3> HIDE DEF x
      <3>1. 1..(k + 1) = 1..k \cup {k + 1}
        OBVIOUS
      <3> QED
        BY <3>1
    <2> HIDE DEF got, x
    <2>3. r[k + 1] = replay_event(r[k], N + (k + 1), s[k + 1])
      BY <2>1 DEF Replays
    <2> DEFINE e == s[k + 1]
               left == remove_orders(book, got(k))
    <2>4. e.type \in {"OrderCancelled", "OrderExpired"} /\ e.id = x(k + 1)
      BY <1>2, <2>1 DEF x
    <2> HIDE DEF e
    <2>5. r[k + 1] = SetBook(r[k], remove_orders(r[k].book, {e.id}))
      BY <2>3, <2>4, ReplayOfRemoval DEF e
    <2>6. r[k] = SetBook(Live, left)
      BY <2>1
    <2> HIDE DEF left
    <2>7. r[k].book = left /\ \A y : SetBook(r[k], y) = SetBook(Live, y)
      BY <2>6, LiveWithBook
    <2>8. r[k + 1] = SetBook(Live, remove_orders(left, {e.id}))
      BY <2>5, <2>7
    <2>9. remove_orders(left, {e.id}) = remove_orders(book, got(k) \cup {e.id})
      BY DEF left, remove_orders
    <2> QED
      BY <2>2, <2>4, <2>8, <2>9
  <1> HIDE DEF S
  <1>5. K \in S
    BY <1>1, <1>3, <1>4, SetInduction
  <1>6. got(K) = ids
    BY <1>1
  <1>7. r[K] = SetBook(Live, remove_orders(book, got(K)))
    <2> HIDE DEF got
    <2> QED
      BY <1>1, <1>5 DEF S
  <1> QED
    BY <1>6, <1>7

(* s has the events of the n matches ms of a round.                        *)
Records(s, ms, n) ==
    /\ ms = [i \in 1..n |-> ms[i]]
    /\ \A i \in 1..n : ms[i].size \in Nat \ {0}
    /\ s[1].type = "AuctionExecuted"
    /\ \A k \in 1..n : /\ s[k + 1].type = "OrderMatched" /\ s[k + 1].bid = ms[k].bid
                       /\ s[k + 1].ask = ms[k].ask /\ s[k + 1].size = ms[k].size

(* Replaying the matches of a round is applying the round.                 *)
LEMMA RoundReplays ==
    ASSUME NEW bk, bk \in Refilled(bk), Open(bk) = bk,
           NEW n \in Nat, NEW ms, NEW s, Records(s, ms, n),
           Live.book = bk, NEW N, NEW r, Replays(Live, N, s, n + 1, r)
    PROVE  r[n + 1] = SetBook(Live, apply_matches(bk, ms))
  <1>0. /\ ms = [i \in 1..n |-> ms[i]]
        /\ \A i \in 1..n : ms[i].size \in Nat \ {0}
        /\ s[1].type = "AuctionExecuted"
        /\ \A k \in 1..n : /\ s[k + 1].type = "OrderMatched" /\ s[k + 1].bid = ms[k].bid
                           /\ s[k + 1].ask = ms[k].ask /\ s[k + 1].size = ms[k].size
    BY DEF Records
  <1>1. PICK w : OneByOne(bk, ms, n, w)
    BY <1>0, RoundIsItsMatches
  <1>2. /\ w[0] = bk
        /\ \A i \in 1..n : w[i] = Open(Both(w[i - 1], ms[i]))
        /\ \A i \in 0..n : w[i] \in Refilled(w[i])
        /\ apply_matches(bk, ms) = w[n]
    BY <1>1 DEF OneByOne
  <1> DEFINE S == {k \in Nat : k <= n => r[k + 1] = SetBook(Live, w[k])}
  <1>3. 0 \in S
    <2>1. 1 \in 1..(n + 1) /\ 1 - 1 = 0 /\ 0 + 1 = 1
      OBVIOUS
    <2>2. r[1] = Live
      BY <1>0, <2>1, ReplayOfAuction DEF Replays
    <2>3. SetBook(Live, bk) = Live
      BY DEF SetBook, Live
    <2> QED
      BY <1>2, <2>1, <2>2, <2>3
  <1>4. ASSUME NEW k \in Nat, k \in S PROVE k + 1 \in S
    <2> DEFINE i == k + 1
    <2> SUFFICES ASSUME i <= n PROVE r[i + 1] = SetBook(Live, w[i])
      OBVIOUS
    <2>1. /\ r[i] = SetBook(Live, w[k]) /\ i \in 1..n /\ i - 1 = k /\ i + 1 \in 1..(n + 1)
          /\ (i + 1) - 1 = i /\ k \in 0..n /\ i \in Nat
      BY <1>4
    <2> HIDE DEF i
    <2>2. r[i + 1] = replay_event(r[i], N + (i + 1), s[i + 1])
      BY <2>1 DEF Replays
    <2>3. /\ s[i + 1].type = "OrderMatched" /\ s[i + 1].bid = ms[i].bid
          /\ s[i + 1].ask = ms[i].ask /\ s[i + 1].size = ms[i].size
          /\ ms[i].size \in Nat
      BY <1>0, <2>1
    <2>4. r[i + 1] = SetBook(r[i], apply_matches(r[i].book, <<s[i + 1]>>))
      BY <2>2, <2>3, ReplayOfMatch
    <2>5. r[i + 1] = SetBook(Live, apply_matches(w[k], <<s[i + 1]>>))
      BY <2>1, <2>4, LiveWithBook
    <2>6. w[k] \in Refilled(w[k])
      BY <1>2, <2>1
    <2>7. apply_matches(w[k], <<s[i + 1]>>) = Open(Both(w[k], s[i + 1]))
      BY <2>3, <2>6, SingleFill
    <2>8. Both(w[k], s[i + 1]) = Both(w[k], ms[i])
      BY <2>3 DEF Both
    <2>9. w[i] = Open(Both(w[k], ms[i]))
      BY <1>2, <2>1
    <2> QED
      BY <2>5, <2>7, <2>8, <2>9
  <1> HIDE DEF S
  <1>5. n \in S
    BY <1>3, <1>4, SetInduction
  <1> QED
    BY <1>2, <1>5 DEF S

(* LiveIsReplay, with the record of the live state named.                  *)
LEMMA LiveForm ==
    /\ LiveIsReplay <=> (unacked = {} => Replayed = Live)
    /\ LiveIsReplay' <=> (unacked' = {} => Replayed' = Live')
    /\ Live.book = book /\ Live.status = status /\ Live.seen = seen_ciphertexts
    /\ Live.nullifiers = spent_nullifiers /\ Live.nonces = spent_order_nonces
    /\ Live' = [book |-> book', status |-> status', seen |-> seen_ciphertexts',
                nullifiers |-> spent_nullifiers', nonces |-> spent_order_nonces']
  BY DEF LiveIsReplay, Live

LEMMA LiveUntouched ==
    ASSUME LiveIsReplay, UNCHANGED <<log, last_seq, unacked, book, status, spent>>
    PROVE  LiveIsReplay'
  <1>1. Replayed' = Replayed
    BY ReplayedIs
  <1>2. Live' = Live
    BY DEF Live, spent
  <1> QED
    BY <1>1, <1>2, LiveForm

(* A failed append changes neither side, or is unacknowledged.             *)
LEMMA LiveAfterLoss ==
    ASSUME StoreOK, LiveIsReplay, NEW events, Len(events) \in Nat,
           \A i \in 1..Len(events) : EventOK(events[i], last_seq + i),
           AppendFails(events), UNCHANGED <<book, status, spent>>
    PROVE  LiveIsReplay'
  <1> SUFFICES ASSUME unacked' = {} PROVE Replayed' = Live'
    BY LiveForm
  <1>1. Replayed' = Replayed /\ unacked = {}
    BY LostAppend
  <1>2. Live' = Live
    BY DEF Live, spent
  <1> QED
    BY <1>1, <1>2, LiveForm

LEMMA PersistReplays ==
    ASSUME Inv, LiveIsReplay, NEW t \in Tasks, persist_order_placed(t)
    PROVE  LiveIsReplay'
  <1> DEFINE n == last_seq + 1
  <1>1. PICK c \in Ciphertexts : placing[t].c = c /\ Plain[c].size > 0 /\ Plain[c].price > 0
    BY DEF Inv, TasksOK, PlacingOK, persist_order_placed, Idle
  <1> DEFINE e == [type |-> "OrderPlaced", id |-> n, c |-> c]
             events == <<e>>
  <1>2. /\ Admissible(c) /\ UNCHANGED status
        /\ \/ Append_(events) /\ Admit(c, n, n)
           \/ AppendFails(events) /\ UNCHANGED <<book, spent>>
    BY <1>1 DEF persist_order_placed, PlacedEvent, registry
  <1>3. e.type = "OrderPlaced" /\ e.id = n /\ e.c = c
    OBVIOUS
  <1> HIDE DEF e
  <1>4. CASE AppendFails(events) /\ UNCHANGED <<book, spent>>
    <2>1. Len(events) = 1 /\ events[1] = e /\ Len(events) \in Nat
      OBVIOUS
    <2> HIDE DEF events
    <2>2. \A i \in 1..Len(events) : EventOK(events[i], last_seq + i)
      BY <1>1, <1>3, <2>1 DEF EventOK, EventTypes
    <2> QED
      BY <1>2, <1>4, <2>1, <2>2, LiveAfterLoss DEF Inv
  <1>5. CASE Append_(events) /\ Admit(c, n, n)
    <2> SUFFICES ASSUME unacked' = {} PROVE Replayed' = Live'
      BY LiveForm
    <2>1. Replayed = Live
      BY <1>5, LiveForm DEF Append_
    <2>2. Replayed' = replay_event(Live, n, e)
      BY <1>5, <2>1, EventReplays DEF Inv
    <2> HIDE DEF n
    <2>3. Replayed' = ReplayPlaced(Live, n, e)
      BY <1>3, <2>2, ReplayOfPlaced
    <2>4. Plain[c].pair \in DOMAIN status
      BY <1>2 DEF Admissible
    <2>5. ReplayPlaced(Live, n, e) =
            [book |-> [i \in DOMAIN book \cup {n} |->
                        IF i = n THEN [c |-> c, seq |-> n, remaining |-> Plain[c].size]
                        ELSE book[i]],
             status |-> status, seen |-> seen_ciphertexts \cup {c},
             nullifiers |-> spent_nullifiers \cup {Plain[c].nullifier},
             nonces |-> spent_order_nonces \cup {<<Plain[c].trader, Plain[c].nonce>>}]
      BY <1>3, <2>4, LiveForm DEF ReplayPlaced
    <2> QED
      BY <1>2, <1>5, <2>3, <2>5, LiveForm DEF Admit
  <1> QED
    BY <1>2, <1>4, <1>5

LEMMA CancelReplays ==
    ASSUME Inv, LiveIsReplay, NEW id \in DOMAIN book, cancel_order(id)
    PROVE  LiveIsReplay'
  <1> DEFINE e == [type |-> "OrderCancelled", id |-> id]
             events == <<e>>
  <1>1. \/ Append_(events) /\ book' = remove_orders(book, {id})
        \/ AppendFails(events) /\ UNCHANGED book
    BY DEF cancel_order
  <1>2. UNCHANGED <<status, spent>>
    BY DEF cancel_order, registry
  <1>3. e.type = "OrderCancelled" /\ e.id = id
    OBVIOUS
  <1> HIDE DEF e
  <1>4. CASE AppendFails(events) /\ UNCHANGED book
    <2>1. Len(events) = 1 /\ events[1] = e /\ Len(events) \in Nat
      OBVIOUS
    <2> HIDE DEF events
    <2>2. \A i \in 1..Len(events) : EventOK(events[i], last_seq + i)
      BY <1>3, <2>1 DEF EventOK, EventTypes
    <2> QED
      BY <1>2, <1>4, <2>1, <2>2, LiveAfterLoss DEF Inv
  <1>5. CASE Append_(events) /\ book' = remove_orders(book, {id})
    <2> SUFFICES ASSUME unacked' = {} PROVE Replayed' = Live'
      BY LiveForm
    <2>1. Replayed = Live
      BY <1>5, LiveForm DEF Append_
    <2>2. Replayed' = replay_event(Live, last_seq + 1, e)
      BY <1>5, <2>1, EventReplays DEF Inv
    <2>3. Replayed' = SetBook(Live, book')
      BY <1>3, <1>5, <2>2, ReplayOfRemoval, LiveForm
    <2> QED
      BY <1>2, <2>3, LiveForm DEF SetBook, Live, spent
  <1> QED
    BY <1>1, <1>4, <1>5

LEMMA PairReplays ==
    ASSUME Inv, LiveIsReplay, NEW pair, NEW type, NEW s, NEW e,
           e.type = type, e.pair = pair,
           <<type, s>> \in {<<"PairRegistered", "Active">>, <<"PairSuspended", "Suspended">>},
           type = "PairSuspended" => pair \in DOMAIN status,
           \/ Append_(<<e>>) /\ SetStatus(pair, s)
           \/ AppendFails(<<e>>) /\ UNCHANGED status,
           UNCHANGED <<book, spent>>
    PROVE  LiveIsReplay'
  <1> DEFINE events == <<e>>
  <1>0. \/ type = "PairRegistered" /\ s = "Active"
        \/ type = "PairSuspended" /\ s = "Suspended" /\ pair \in DOMAIN status
    OBVIOUS
  <1>1. CASE AppendFails(events) /\ UNCHANGED status
    <2>1. Len(events) = 1 /\ events[1] = e /\ Len(events) \in Nat
      OBVIOUS
    <2> HIDE DEF events
    <2>2. \A i \in 1..Len(events) : EventOK(events[i], last_seq + i)
      BY <1>0, <2>1 DEF EventOK, EventTypes
    <2> QED
      BY <1>1, <2>1, <2>2, LiveAfterLoss DEF Inv
  <1>2. CASE Append_(events) /\ SetStatus(pair, s)
    <2> SUFFICES ASSUME unacked' = {} PROVE Replayed' = Live'
      BY LiveForm
    <2>1. Replayed = Live
      BY <1>2, LiveForm DEF Append_
    <2>2. Replayed' = replay_event(Live, last_seq + 1, e)
      BY <1>2, <2>1, EventReplays DEF Inv
    <2>3. status' = WithStatus(Live, pair, s)
      BY <1>2, LiveForm DEF SetStatus, WithStatus
    <2>4. type = "PairSuspended" => ChangedStatus(Live, pair, s) = WithStatus(Live, pair, s)
      BY LiveForm DEF ChangedStatus
    <2>5. Replayed' = SetReg(Live, status')
      BY <1>0, <2>2, <2>3, <2>4, ReplayOfRegistration, ReplayOfSuspension
    <2> QED
      BY <2>5, LiveForm DEF SetReg, Live, spent
  <1> QED
    BY <1>1, <1>2

LEMMA ExpireReplays ==
    ASSUME Inv, LiveIsReplay, ExpireOrders
    PROVE  LiveIsReplay'
  <1> DEFINE ids == collect_expired(tick.now)
             events == Removals(ids, "OrderExpired")
             K == Cardinality(ids)
  <1>1. \/ Append_(events) /\ book' = remove_orders(book, ids)
        \/ AppendFails(events) /\ UNCHANGED book
    BY DEF ExpireOrders, Removals
  <1>2. UNCHANGED <<status, spent>>
    BY DEF ExpireOrders, registry
  <1>3. ids \in SUBSET DOMAIN book
    BY DEF collect_expired
  <1> HIDE DEF ids
  <1>4. Len(events) = K /\ K \in Nat /\ \A i \in 1..K : events[i].type = "OrderExpired"
    BY <1>3, RemovalsOK
  <1>5. CASE AppendFails(events) /\ UNCHANGED book
    <2> HIDE DEF events, K
    <2>1. \A i \in 1..Len(events) : EventOK(events[i], last_seq + i)
      BY <1>4 DEF EventOK, EventTypes
    <2> QED
      BY <1>2, <1>4, <1>5, <2>1, LiveAfterLoss DEF Inv
  <1>6. CASE Append_(events) /\ book' = remove_orders(book, ids)
    <2> SUFFICES ASSUME unacked' = {} PROVE Replayed' = Live'
      BY LiveForm
    <2>1. Replayed = Live
      BY <1>6, LiveForm DEF Append_
    <2>2. PICK r : Extends_(Live, last_seq, events, K, r, Replayed')
      BY <1>4, <1>6, <2>1, AppendReplays DEF Inv
    <2>3. Replays(Live, last_seq, events, K, r) /\ Replayed' = r[K]
      BY <2>2 DEF Extends_
    <2>4. \A i \in 1..K : events[i] = Removals(ids, "OrderExpired")[i]
      OBVIOUS
    <2> HIDE DEF events, K
    <2>5. K = Cardinality(ids)
      BY DEF K
    <2>6. r[K] = SetBook(Live, remove_orders(book, ids))
      BY <1>3, <2>3, <2>4, <2>5, RemovalsReplay
    <2>7. Replayed' = SetBook(Live, book')
      BY <1>6, <2>3, <2>6
    <2> QED
      BY <1>2, <2>7, LiveForm DEF SetBook, Live, spent
  <1> QED
    BY <1>1, <1>5, <1>6

(* Of a sequence of events that is a prefix of another.                    *)
LEMMA ReplaysPrefix ==
    ASSUME NEW st, NEW N, NEW s, NEW K \in Nat, NEW r, Replays(st, N, s, K + 1, r)
    PROVE  Replays(st, N, s, K, r) /\ r[K + 1] = replay_event(r[K], N + (K + 1), s[K + 1])
  <1>1. \A k \in 1..K : k \in 1..(K + 1)
    OBVIOUS
  <1>2. K + 1 \in 1..(K + 1) /\ (K + 1) - 1 = K
    OBVIOUS
  <1> QED
    BY <1>1, <1>2 DEF Replays

LEMMA DelistReplays ==
    ASSUME Inv, LiveIsReplay, NEW pair, delist_pair(pair)
    PROVE  LiveIsReplay'
  <1> DEFINE ids == order_ids_for(pair)
             cancels == Removals(ids, "OrderCancelled")
             last == [type |-> "PairDelisted", pair |-> pair]
             events == Append(cancels, last)
             K == Cardinality(ids)
  <1>1. \/ Append_(events) /\ book' = remove_orders(book, ids) /\ SetStatus(pair, "Delisted")
        \/ AppendFails(events) /\ UNCHANGED <<book, status>>
    BY DEF delist_pair, Removals
  <1>2. UNCHANGED spent /\ pair \in DOMAIN status
    BY DEF delist_pair
  <1>3. ids \in SUBSET DOMAIN book
    BY DEF order_ids_for
  <1> HIDE DEF ids
  <1>4. /\ cancels \in Seq([type : {"OrderCancelled"}, id : ids])
        /\ Len(cancels) = K /\ K \in Nat
        /\ \A i \in 1..K : cancels[i].type = "OrderCancelled"
    BY <1>3, RemovalsOK
  <1>5. last.type = "PairDelisted" /\ last.pair = pair
    OBVIOUS
  <1>6. /\ Len(events) = K + 1
        /\ \A i \in 1..K : events[i] = cancels[i]
        /\ events[K + 1] = last
    <2> HIDE DEF cancels, last, K
    <2>1. /\ Len(events) = Len(cancels) + 1
          /\ \A i \in 1..Len(events) : events[i] = IF i <= Len(cancels) THEN cancels[i] ELSE last
      BY <1>4
    <2> HIDE DEF events
    <2>2. \A i \in 1..K : i \in 1..(K + 1) /\ i <= K
      BY <1>4
    <2>3. K + 1 \in 1..(K + 1) /\ ~(K + 1 <= K)
      BY <1>4
    <2> QED
      BY <1>4, <2>1, <2>2, <2>3
  <1> HIDE DEF events, last
  <1>7. CASE AppendFails(events) /\ UNCHANGED <<book, status>>
    <2> HIDE DEF cancels, K
    <2>0. \A i \in 1..(K + 1) : i \in 1..K \/ i = K + 1
      BY <1>4
    <2>1. \A i \in 1..Len(events) : events[i].type \in {"OrderCancelled", "PairDelisted"}
      BY <1>4, <1>5, <1>6, <2>0
    <2>2. \A i \in 1..Len(events) : EventOK(events[i], last_seq + i)
      BY <2>1 DEF EventOK, EventTypes
    <2>3. Len(events) \in Nat
      BY <1>4, <1>6
    <2> QED
      BY <1>2, <1>7, <2>2, <2>3, LiveAfterLoss DEF Inv
  <1>8. CASE Append_(events) /\ book' = remove_orders(book, ids) /\ SetStatus(pair, "Delisted")
    <2> SUFFICES ASSUME unacked' = {} PROVE Replayed' = Live'
      BY LiveForm
    <2>1. Replayed = Live
      BY <1>8, LiveForm DEF Append_
    <2>2. PICK r : Extends_(Live, last_seq, events, K + 1, r, Replayed')
      <3>1. Len(events) \in Nat
        BY <1>4, <1>6
      <3>2. \E r : Extends_(Live, last_seq, events, Len(events), r, Replayed')
        BY <1>8, <2>1, <3>1, AppendReplays DEF Inv
      <3> QED
        BY <1>6, <3>2
    <2>3. Replays(Live, last_seq, events, K + 1, r) /\ Replayed' = r[K + 1]
      BY <2>2 DEF Extends_
    <2>4. /\ Replays(Live, last_seq, events, K, r)
          /\ r[K + 1] = replay_event(r[K], last_seq + (K + 1), last)
      BY <1>4, <1>6, <2>3, ReplaysPrefix
    <2>5. r[K] = SetBook(Live, remove_orders(book, ids))
      <3>1. \A i \in 1..K : events[i] = Removals(ids, "OrderCancelled")[i]
        BY <1>6
      <3> HIDE DEF cancels, K
      <3>2. K = Cardinality(ids)
        BY DEF K
      <3> QED
        BY <1>3, <2>4, <3>1, <3>2, RemovalsReplay
    <2> HIDE DEF cancels, K
    <2>6. r[K] = [book |-> book', status |-> status, seen |-> seen_ciphertexts,
                  nullifiers |-> spent_nullifiers, nonces |-> spent_order_nonces]
      BY <1>8, <2>5 DEF SetBook, Live
    <2>7. r[K + 1] = SetReg(r[K], ChangedStatus(r[K], pair, "Delisted"))
      BY <1>5, <2>4, ReplayOfDelisting
    <2>8. ChangedStatus(r[K], pair, "Delisted") = status'
      <3>1. r[K].status = status
        BY <2>6
      <3> QED
        BY <1>2, <1>8, <3>1 DEF ChangedStatus, WithStatus, SetStatus
    <2>9. SetReg(r[K], status') = [book |-> book', status |-> status', seen |-> seen_ciphertexts,
                                   nullifiers |-> spent_nullifiers, nonces |-> spent_order_nonces]
      BY <2>6 DEF SetReg
    <2> QED
      BY <1>2, <2>3, <2>7, <2>8, <2>9, LiveForm DEF spent
  <1> QED
    BY <1>1, <1>7, <1>8

LEMMA MatchPairReplays ==
    ASSUME Inv, LiveIsReplay, MatchPair
    PROVE  LiveIsReplay'
  <1> DEFINE events == RoundEvents(MatchedPair, Round)
             ms == Round.matches
             n == Len(ms)
             pair == MatchedPair
  <1>1. \/ Round = NoAuction /\ UNCHANGED <<store, book>>
        \/ Round # NoAuction /\ Append_(events) /\ book' = apply_matches(book, ms)
        \/ Round # NoAuction /\ AppendFails(events) /\ UNCHANGED book
    BY DEF MatchPair, Round, MatchedPair
  <1>2. UNCHANGED <<status, spent>>
    BY DEF MatchPair, registry
  <1>3. CASE Round = NoAuction /\ UNCHANGED <<store, book>>
    BY <1>2, <1>3, LiveUntouched DEF store
  <1>4. CASE Round # NoAuction /\ AppendFails(events) /\ UNCHANGED book
    <2>1. Len(events) \in Nat /\ \A i \in 1..Len(events) : EventOK(events[i], last_seq + i)
      BY <1>4, RoundEventsOK
    <2> HIDE DEF events
    <2> QED
      BY <1>2, <1>4, <2>1, LiveAfterLoss DEF Inv
  <1>5. CASE Round # NoAuction /\ Append_(events) /\ book' = apply_matches(book, ms)
    <2> SUFFICES ASSUME unacked' = {} PROVE Replayed' = Live'
      BY LiveForm
    <2>1. Replayed = Live
      BY <1>5, LiveForm DEF Append_
    <2>2. last_seq \in Nat /\ BookOK(book, last_seq) /\ StoreOK
      BY DEF Inv, StoreOK
    <2>3. Round = run(OrdersOf(pair, "Buy"), OrdersOf(pair, "Sell"))
      BY DEF Round
    <2> HIDE DEF pair
    <2>4. /\ n \in Nat /\ ms = [i \in 1..n |-> ms[i]]
          /\ \A k \in 1..n : ms[k].size \in Nat \ {0}
      <3>1. /\ n \in Nat /\ ms = [i \in 1..n |-> ms[i]]
            /\ \A k \in 1..n : GoodMatch(pair, Round.price, ms[k])
        BY <1>5, <2>2, <2>3, RoundOfBook
      <3> QED
        BY <3>1 DEF GoodMatch
    <2>5. /\ Len(events) = n + 1
          /\ events[1].type = "AuctionExecuted"
          /\ \A k \in 1..n : /\ events[k + 1].type = "OrderMatched"
                             /\ events[k + 1].bid = ms[k].bid
                             /\ events[k + 1].ask = ms[k].ask
                             /\ events[k + 1].size = ms[k].size
      BY <2>4, RoundEventsShape
    <2> HIDE DEF events, ms, n
    <2>6. PICK r : Extends_(Live, last_seq, events, n + 1, r, Replayed')
      <3>1. Len(events) \in Nat
        BY <2>4, <2>5
      <3>2. \E r : Extends_(Live, last_seq, events, Len(events), r, Replayed')
        BY <1>5, <2>1, <2>2, <3>1, AppendReplays
      <3> QED
        BY <2>5, <3>2
    <2>7. Replays(Live, last_seq, events, n + 1, r) /\ Replayed' = r[n + 1]
      BY <2>6 DEF Extends_
    <2>8. book \in Refilled(book) /\ Open(book) = book
      BY <2>2, BookIsOpen
    <2>9. Live.book = book
      BY LiveForm
    <2>10. r[n + 1] = SetBook(Live, apply_matches(book, ms))
      <3>1. Records(events, ms, n)
        BY <2>4, <2>5 DEF Records
      <3> QED
        BY <2>4, <2>7, <2>8, <2>9, <3>1, RoundReplays
    <2>11. Replayed' = SetBook(Live, book')
      BY <1>5, <2>7, <2>10
    <2> QED
      BY <1>2, <2>11, LiveForm DEF SetBook, Live, spent
  <1> QED
    BY <1>1, <1>3, <1>4, <1>5

(* A boot takes its state from the replay.                                 *)
LEMMA RestartReplays ==
    ASSUME Inv, Restart
    PROVE  Replayed' = Live'
  <1> DEFINE M == Max(DOMAIN log \cup {0})
  <1>1. M \in Nat /\ LogOK(log, M) /\ Replayed = ReplayOf(log, M)
    BY ReplayedUpToLast DEF Inv
  <1>2. /\ last_seq' = M /\ log' = log
        /\ book' = Replayed.book /\ status' = Replayed.status
        /\ seen_ciphertexts' = Replayed.seen
        /\ spent_nullifiers' = Replayed.nullifiers
        /\ spent_order_nonces' = Replayed.nonces
    BY DEF Restart
  <1> HIDE DEF M
  <1>3. Shape(Replayed)
    BY <1>1, ReplayedIsProjection DEF ProjOK
  <1>4. Replayed' = Replayed
    BY <1>1, <1>2, ReplayedIs
  <1> QED
    BY <1>2, <1>3, <1>4, LiveForm DEF Shape

LEMMA StepReplays == Inv /\ LiveIsReplay /\ [Next]_vars => LiveIsReplay'
  <1> SUFFICES ASSUME Inv, LiveIsReplay, [Next]_vars PROVE LiveIsReplay'
    OBVIOUS
  <1>1. ASSUME NEW t \in Tasks,
               \/ \E c \in Ciphertexts : SubmitOrder(t, c)
               \/ ValidateOrder(t)
               \/ RejectOrder(t)
        PROVE  LiveIsReplay'
    BY <1>1, LiveUntouched DEF SubmitOrder, ValidateOrder, RejectOrder, store, registry
  <1>2. ASSUME NEW t \in Tasks, persist_order_placed(t) PROVE LiveIsReplay'
    BY <1>2, PersistReplays
  <1>3. ASSUME NEW id \in DOMAIN book, cancel_order(id) PROVE LiveIsReplay'
    BY <1>3, CancelReplays
  <1>4. ASSUME NEW id \in dropping, drop_secret(id) PROVE LiveIsReplay'
    BY <1>4, LiveUntouched DEF drop_secret, store, registry
  <1>5. ASSUME NEW pair \in Pairs, register_pair_with_event(pair) PROVE LiveIsReplay'
    <2> DEFINE e == [type |-> "PairRegistered", pair |-> pair]
    <2>1. /\ \/ Append_(<<e>>) /\ SetStatus(pair, "Active")
             \/ AppendFails(<<e>>) /\ UNCHANGED status
          /\ UNCHANGED <<book, spent>>
      BY <1>5 DEF register_pair_with_event
    <2>2. e.type = "PairRegistered" /\ e.pair = pair
      OBVIOUS
    <2> HIDE DEF e
    <2> QED
      BY <2>1, <2>2, PairReplays
  <1>6. ASSUME NEW pair \in Pairs, suspend_pair(pair) PROVE LiveIsReplay'
    <2> DEFINE e == [type |-> "PairSuspended", pair |-> pair]
    <2>1. /\ \/ Append_(<<e>>) /\ SetStatus(pair, "Suspended")
             \/ AppendFails(<<e>>) /\ UNCHANGED status
          /\ UNCHANGED <<book, spent>>
          /\ pair \in DOMAIN status
      BY <1>6 DEF suspend_pair
    <2>2. e.type = "PairSuspended" /\ e.pair = pair
      OBVIOUS
    <2> HIDE DEF e
    <2> QED
      BY <2>1, <2>2, PairReplays
  <1>7. ASSUME NEW pair \in Pairs, delist_pair(pair) PROVE LiveIsReplay'
    BY <1>7, DelistReplays
  <1>8. CASE ExpireOrders
    BY <1>8, ExpireReplays
  <1>9. CASE MatchPair
    BY <1>9, MatchPairReplays
  <1>10. CASE StartTick \/ ReleaseLock \/ build_batch_witness \/ prune_dead_secrets \/ ClockTick
    BY <1>10, LiveUntouched
       DEF StartTick, ReleaseLock, build_batch_witness, prune_dead_secrets, ClockTick, store, registry
  <1>11. CASE Restart
    BY <1>11, RestartReplays, LiveForm
  <1>12. CASE UNCHANGED vars
    BY <1>12, LiveUntouched DEF vars, spent
  <1> QED
    BY <1>1, <1>2, <1>3, <1>4, <1>5, <1>6, <1>7, <1>8, <1>9, <1>10, <1>11, <1>12 DEF Next

(* overview.md 3.3: as long as no append that reported an error left       *)
(* something durable, replaying the log gives the live book, registry and  *)
(* spent sets in every state: the replay of recover.rs and the live path   *)
(* of engine.rs and tick.rs are the same function of the events, batched   *)
(* fills and one fill at a time included, and a restart changes nothing.   *)
THEOREM ReplayIsLive == Spec => []LiveIsReplay
  <1>1. Init => LiveIsReplay
    <2> SUFFICES ASSUME Init PROVE Replayed = Live
      BY LiveForm
    <2>1. log = <<>> /\ last_seq = 0
      BY DEF Init
    <2>2. PICK r : ReplaySteps(log, 0, r)
      BY ReplayUnfolds
    <2>3. ReplayOf(log, 0) = EmptyProjection
      BY <2>2 DEF ReplaySteps
    <2>4. Live = EmptyProjection
      BY DEF Live, EmptyProjection, Init
    <2> QED
      BY <2>1, <2>3, <2>4, ReplayedIs
  <1> QED
    BY <1>1, StepReplays, Invariance, PTL DEF Spec

-----------------------------------------------------------------------------
(* What the book and the registry may do in a step.                        *)

(* Orders only leave, and a pair is delisted only with its orders.         *)
Shrinks ==
    /\ DOMAIN book' \subseteq DOMAIN book
    /\ \A i \in DOMAIN book' : book'[i].c = book[i].c
    /\ \A p \in DOMAIN status' : status'[p] = "Delisted" =>
            \/ p \in DOMAIN status /\ status[p] = "Delisted"
            \/ \A i \in DOMAIN book' : Plain[book'[i].c].pair # p
    /\ unacked \subseteq unacked' /\ restarts' = restarts

(* One order enters, which the last lock scope has found admissible.       *)
Places ==
    \E c \in Ciphertexts :
        /\ Admissible(c)
        /\ book' = Placed(book, last_seq + 1, c)
        /\ UNCHANGED <<status, unacked, restarts>>

LEMMA StatusAfter ==
    ASSUME NEW pair, NEW s, SetStatus(pair, s), NEW p \in DOMAIN status', p # pair
    PROVE  p \in DOMAIN status /\ status'[p] = status[p]
  BY DEF SetStatus

LEMMA AppendAcks ==
    ASSUME NEW events, Append_(events) \/ AppendFails(events)
    PROVE  unacked \subseteq unacked'
  BY DEF Append_, AppendFails

LEMMA StillShrinks ==
    ASSUME UNCHANGED <<book, status, unacked, restarts>>
    PROVE  Shrinks
  BY DEF Shrinks

LEMMA BookSteps == Inv /\ [Next]_vars => Shrinks \/ Places \/ Restart
  <1> SUFFICES ASSUME Inv, [Next]_vars PROVE Shrinks \/ Places \/ Restart
    OBVIOUS
  <1>1. ASSUME NEW t \in Tasks,
               \/ \E c \in Ciphertexts : SubmitOrder(t, c)
               \/ ValidateOrder(t)
               \/ RejectOrder(t)
        PROVE  Shrinks
    BY <1>1, StillShrinks DEF SubmitOrder, ValidateOrder, RejectOrder, store, registry, process
  <1>2. ASSUME NEW t \in Tasks, persist_order_placed(t) PROVE Shrinks \/ Places
    <2>1. PICK c \in Ciphertexts : placing[t].c = c
      BY <1>2 DEF Inv, TasksOK, PlacingOK, persist_order_placed, Idle
    <2> DEFINE events == <<PlacedEvent(c)>>
    <2>2. /\ Admissible(c) /\ UNCHANGED <<status, restarts>>
          /\ \/ Append_(events) /\ Admit(c, last_seq + 1, last_seq + 1)
             \/ AppendFails(events) /\ UNCHANGED book
      BY <1>2, <2>1 DEF persist_order_placed, registry, process
    <2> HIDE DEF events
    <2>3. CASE Append_(events) /\ Admit(c, last_seq + 1, last_seq + 1)
      <3>1. book' = Placed(book, last_seq + 1, c) /\ UNCHANGED unacked
        BY <2>3 DEF Admit, Placed, Append_
      <3> QED
        BY <2>2, <3>1 DEF Places
    <2>4. CASE AppendFails(events) /\ UNCHANGED book
      BY <2>2, <2>4, AppendAcks DEF Shrinks
    <2> QED
      BY <2>2, <2>3, <2>4
  <1>3. ASSUME NEW id \in DOMAIN book, cancel_order(id) PROVE Shrinks
    <2>1. /\ UNCHANGED <<status, restarts>>
          /\ book' = book \/ book' = remove_orders(book, {id})
      BY <1>3 DEF cancel_order, registry, process
    <2>2. unacked \subseteq unacked'
      BY <1>3, AppendAcks DEF cancel_order
    <2> QED
      BY <2>1, <2>2 DEF Shrinks, remove_orders
  <1>4. ASSUME NEW id \in dropping, drop_secret(id) PROVE Shrinks
    BY <1>4, StillShrinks DEF drop_secret, store, registry, process
  <1>5. ASSUME NEW pair \in Pairs, register_pair_with_event(pair) \/ suspend_pair(pair)
        PROVE  Shrinks
    <2>1. /\ UNCHANGED <<book, restarts>>
          /\ \/ UNCHANGED status
             \/ \E s \in {"Active", "Suspended"} : SetStatus(pair, s)
      BY <1>5 DEF register_pair_with_event, suspend_pair, process
    <2>2. unacked \subseteq unacked'
      BY <1>5, AppendAcks DEF register_pair_with_event, suspend_pair
    <2>3. \A p \in DOMAIN status' : status'[p] = "Delisted" =>
              p \in DOMAIN status /\ status[p] = "Delisted"
      BY <2>1 DEF SetStatus
    <2> QED
      BY <2>1, <2>2, <2>3 DEF Shrinks
  <1>6. ASSUME NEW pair \in Pairs, delist_pair(pair) PROVE Shrinks
    <2>1. /\ UNCHANGED restarts
          /\ \/ UNCHANGED <<book, status>>
             \/ /\ book' = remove_orders(book, order_ids_for(pair))
                /\ SetStatus(pair, "Delisted")
      BY <1>6 DEF delist_pair, process
    <2>2. unacked \subseteq unacked'
      BY <1>6, AppendAcks DEF delist_pair
    <2>3. CASE UNCHANGED <<book, status>>
      BY <2>1, <2>2, <2>3 DEF Shrinks
    <2>4. CASE book' = remove_orders(book, order_ids_for(pair)) /\ SetStatus(pair, "Delisted")
      <3>1. /\ DOMAIN book' \subseteq DOMAIN book
            /\ \A i \in DOMAIN book' : book'[i].c = book[i].c /\ Plain[book'[i].c].pair # pair
        BY <2>4 DEF remove_orders, order_ids_for, Order
      <3>2. \A p \in DOMAIN status' : p = pair \/ (p \in DOMAIN status /\ status'[p] = status[p])
        BY <2>4, StatusAfter
      <3> QED
        BY <2>1, <2>2, <3>1, <3>2 DEF Shrinks
    <2> QED
      BY <2>1, <2>3, <2>4
  <1>7. CASE ExpireOrders
    <2>1. /\ UNCHANGED <<status, restarts>>
          /\ book' = book \/ book' = remove_orders(book, collect_expired(tick.now))
      BY <1>7 DEF ExpireOrders, registry, process
    <2>2. unacked \subseteq unacked'
      BY <1>7, AppendAcks DEF ExpireOrders
    <2> QED
      BY <2>1, <2>2 DEF Shrinks, remove_orders
  <1>8. CASE MatchPair
    <2>1. UNCHANGED <<status, restarts>>
      BY <1>8 DEF MatchPair, registry, process
    <2>2. UNCHANGED store \/ \E events : Append_(events) \/ AppendFails(events)
      BY <1>8 DEF MatchPair
    <2>3. unacked \subseteq unacked'
      BY <2>2, AppendAcks DEF store
    <2>4. DOMAIN book' \subseteq DOMAIN book /\ \A i \in DOMAIN book' : book'[i].c = book[i].c
      BY <1>8, MatchPairShrinks
    <2> QED
      BY <2>1, <2>3, <2>4 DEF Shrinks
  <1>9. CASE StartTick \/ ReleaseLock \/ build_batch_witness \/ prune_dead_secrets \/ ClockTick
    BY <1>9, StillShrinks DEF StartTick, ReleaseLock, build_batch_witness, prune_dead_secrets,
                              ClockTick, store, registry, process
  <1>10. CASE UNCHANGED vars
    BY <1>10, StillShrinks DEF vars
  <1> QED
    BY <1>1, <1>2, <1>3, <1>4, <1>5, <1>6, <1>7, <1>8, <1>9, <1>10 DEF Next

(* A boot from a log without unacknowledged events changes nothing of what *)
(* is persisted.                                                           *)
LEMMA RestartIsInvisible ==
    ASSUME LiveIsReplay, unacked = {}, Restart
    PROVE  UNCHANGED <<book, status, spent>>
  <1>1. Replayed = Live
    BY LiveForm
  <1> QED
    BY <1>1, LiveForm DEF Restart, spent

(* No boot of this process has read an event whose append was reported as  *)
(* failed.  Such an event is an order its owner was refused, or a cancel   *)
(* that was not carried out: a boot brings it to life, past every check.   *)
Clean == unacked = {} \/ restarts = 0

(* The resting orders of a trader.                                         *)
OrdersOfTrader(t) == {id \in DOMAIN book : Order(id).trader = t}

LEMMA FiniteBook ==
    ASSUME Inv
    PROVE  IsFiniteSet(DOMAIN book) /\ \A t : IsFiniteSet(OrdersOfTrader(t))
  <1>1. IsFiniteSet(1..last_seq)
    BY FS_Interval DEF Inv, StoreOK
  <1>2. DOMAIN book \subseteq 1..last_seq
    BY DEF Inv, BookOK
  <1>3. IsFiniteSet(DOMAIN book)
    BY <1>1, <1>2, FS_Subset
  <1>4. \A t : OrdersOfTrader(t) \subseteq DOMAIN book
    BY DEF OrdersOfTrader
  <1> QED
    BY <1>3, <1>4, FS_Subset

LEMMA CapacityForm ==
    /\ CapacityHeld <=>
            /\ Cardinality(DOMAIN book) <= MAX_ACTIVE_ORDERS
            /\ \A t \in Traders : Cardinality(OrdersOfTrader(t)) <= MAX_ACTIVE_ORDERS_PER_TRADER
    /\ CapacityHeld' <=>
            /\ Cardinality(DOMAIN book') <= MAX_ACTIVE_ORDERS
            /\ \A t \in Traders : Cardinality(OrdersOfTrader(t)') <= MAX_ACTIVE_ORDERS_PER_TRADER
  BY DEF CapacityHeld, active_order_count_for_trader, OrdersOfTrader

LEMMA ShrinkingHolds ==
    ASSUME Inv, CapacityHeld, DelistedPairIsEmpty, Shrinks
    PROVE  CapacityHeld' /\ DelistedPairIsEmpty'
  <1>1. IsFiniteSet(DOMAIN book) /\ \A t : IsFiniteSet(OrdersOfTrader(t))
    BY FiniteBook
  <1>2. DOMAIN book' \subseteq DOMAIN book /\ \A i \in DOMAIN book' : book'[i].c = book[i].c
    BY DEF Shrinks
  <1>3. \A t : OrdersOfTrader(t)' \subseteq OrdersOfTrader(t)
    BY <1>2 DEF OrdersOfTrader, Order
  <1>4. /\ Cardinality(DOMAIN book') <= Cardinality(DOMAIN book)
        /\ Cardinality(DOMAIN book) \in Nat /\ Cardinality(DOMAIN book') \in Nat
    BY <1>1, <1>2, FS_Subset, FS_CardinalityType
  <1>5. ASSUME NEW t
        PROVE  /\ Cardinality(OrdersOfTrader(t)') <= Cardinality(OrdersOfTrader(t))
               /\ Cardinality(OrdersOfTrader(t)) \in Nat /\ Cardinality(OrdersOfTrader(t)') \in Nat
    BY <1>1, <1>3, FS_Subset, FS_CardinalityType
  <1>6. Cardinality(DOMAIN book') <= MAX_ACTIVE_ORDERS
    BY <1>4, CapacityForm, EngineAssumption
  <1>7. \A t \in Traders : Cardinality(OrdersOfTrader(t)') <= MAX_ACTIVE_ORDERS_PER_TRADER
    BY <1>5, CapacityForm, EngineAssumption
  <1>8. DelistedPairIsEmpty'
    BY DEF Shrinks, DelistedPairIsEmpty, order_ids_for, Order
  <1> QED
    BY <1>6, <1>7, <1>8, CapacityForm

LEMMA PlacingHolds ==
    ASSUME Inv, CapacityHeld, DelistedPairIsEmpty, Places
    PROVE  CapacityHeld' /\ DelistedPairIsEmpty'
  <1> DEFINE n == last_seq + 1
  <1>1. PICK c \in Ciphertexts : Admissible(c) /\ book' = Placed(book, n, c) /\ UNCHANGED status
    BY DEF Places
  <1>2. n \notin DOMAIN book
    BY DEF Inv, StoreOK, BookOK
  <1> HIDE DEF n
  <1> DEFINE tr == Plain[c].trader
  <1>3. /\ status[Plain[c].pair] = "Active"
        /\ Cardinality(DOMAIN book) < MAX_ACTIVE_ORDERS
        /\ Cardinality(OrdersOfTrader(tr)) < MAX_ACTIVE_ORDERS_PER_TRADER
    BY <1>1 DEF Admissible, ensure_order_capacity, active_order_count_for_trader, OrdersOfTrader
  <1>4. /\ DOMAIN book' = DOMAIN book \cup {n}
        /\ book'[n].c = c
        /\ \A i \in DOMAIN book : book'[i].c = book[i].c
    BY <1>1, <1>2 DEF Placed
  <1>5. /\ OrdersOfTrader(tr)' = OrdersOfTrader(tr) \cup {n}
        /\ n \notin OrdersOfTrader(tr)
        /\ \A t : t # tr => OrdersOfTrader(t)' = OrdersOfTrader(t)
    BY <1>2, <1>4 DEF OrdersOfTrader, Order
  <1>6. IsFiniteSet(DOMAIN book) /\ IsFiniteSet(OrdersOfTrader(tr))
    BY FiniteBook
  <1>7. /\ Cardinality(DOMAIN book') = Cardinality(DOMAIN book) + 1
        /\ Cardinality(DOMAIN book) \in Nat
    BY <1>2, <1>4, <1>6, FS_AddElement, FS_CardinalityType
  <1>8. /\ Cardinality(OrdersOfTrader(tr)') = Cardinality(OrdersOfTrader(tr)) + 1
        /\ Cardinality(OrdersOfTrader(tr)) \in Nat
    BY <1>5, <1>6, FS_AddElement, FS_CardinalityType
  <1>9. Cardinality(DOMAIN book') <= MAX_ACTIVE_ORDERS
    BY <1>3, <1>7, EngineAssumption
  <1>10. Cardinality(OrdersOfTrader(tr)') <= MAX_ACTIVE_ORDERS_PER_TRADER
    BY <1>3, <1>8, EngineAssumption
  <1> HIDE DEF tr
  <1>11. \A t \in Traders : Cardinality(OrdersOfTrader(t)') <= MAX_ACTIVE_ORDERS_PER_TRADER
    BY <1>5, <1>10, CapacityForm
  <1>12. DelistedPairIsEmpty'
    BY <1>1, <1>3, <1>4 DEF DelistedPairIsEmpty, order_ids_for, Order
  <1> QED
    BY <1>9, <1>11, <1>12, CapacityForm

(* What holds of the book until a boot brings a refused order to life.     *)
HeldInv == restarts \in Nat /\ (Clean => CapacityHeld /\ DelistedPairIsEmpty)

LEMMA StepHolds == Inv /\ LiveIsReplay /\ HeldInv /\ [Next]_vars => HeldInv'
  <1> SUFFICES ASSUME Inv, LiveIsReplay, HeldInv, [Next]_vars PROVE HeldInv'
    OBVIOUS
  <1>1. CASE Shrinks
    <2>1. Clean' => Clean
      BY <1>1 DEF Clean, Shrinks
    <2>2. restarts' \in Nat
      BY <1>1 DEF HeldInv, Shrinks
    <2> QED
      BY <1>1, <2>1, <2>2, ShrinkingHolds DEF HeldInv
  <1>2. CASE Places
    <2>1. (Clean' => Clean) /\ restarts' \in Nat
      BY <1>2 DEF Clean, HeldInv, Places
    <2> QED
      BY <1>2, <2>1, PlacingHolds DEF HeldInv
  <1>3. CASE Restart
    <2>1. restarts' \in Nat /\ restarts' # 0 /\ unacked' = unacked
      BY <1>3 DEF Restart, HeldInv
    <2>2. ASSUME Clean' PROVE CapacityHeld' /\ DelistedPairIsEmpty'
      <3>1. unacked = {}
        BY <2>1, <2>2 DEF Clean
      <3>2. UNCHANGED <<book, status>> /\ Clean
        BY <1>3, <3>1, RestartIsInvisible DEF Clean
      <3>3. CapacityHeld /\ DelistedPairIsEmpty
        BY <3>2 DEF HeldInv
      <3> QED
        BY <3>2, <3>3 DEF CapacityHeld, DelistedPairIsEmpty, active_order_count_for_trader,
                          order_ids_for, Order
    <2> QED
      BY <2>1, <2>2 DEF HeldInv
  <1> QED
    BY <1>1, <1>2, <1>3, BookSteps

LEMMA HeldInvariance == Spec => []HeldInv
  <1>1. Init => HeldInv
    <2> SUFFICES ASSUME Init PROVE restarts \in Nat /\ CapacityHeld /\ DelistedPairIsEmpty
      BY DEF HeldInv
    <2>1. /\ DOMAIN book = {} /\ DOMAIN status = {} /\ restarts = 0
      BY DEF Init
    <2>2. \A t : OrdersOfTrader(t) = {}
      BY <2>1 DEF OrdersOfTrader
    <2>3. Cardinality({}) = 0
      BY FS_EmptySet
    <2>4. CapacityHeld
      <3>1. 0 <= MAX_ACTIVE_ORDERS /\ 0 <= MAX_ACTIVE_ORDERS_PER_TRADER
        BY EngineAssumption
      <3>2. Cardinality(DOMAIN book) = 0 /\ \A t : Cardinality(OrdersOfTrader(t)) = 0
        BY <2>1, <2>2, <2>3
      <3> QED
        BY <3>1, <3>2, CapacityForm
    <2> QED
      BY <2>1, <2>4 DEF DelistedPairIsEmpty
  <1> QED
    BY <1>1, StepHolds, Invariance, ReplayIsLive, PTL DEF Spec

(* ensure_order_capacity under the inserting lock: concurrent placements   *)
(* never push the book or a trader over the limit; nor does a restart,     *)
(* unless it replays an order whose placement was reported as failed.      *)
THEOREM CapacityIsHeld == Spec => [](Clean => CapacityHeld)
  BY HeldInvariance, PTL DEF HeldInv

(* persist_order_placed and delist_pair (#162): a delisted pair has no     *)
(* resting order, under the same condition.                                *)
THEOREM DelistedPairsAreEmpty == Spec => [](Clean => DelistedPairIsEmpty)
  BY HeldInvariance, PTL DEF HeldInv

-----------------------------------------------------------------------------
(* Orders that have left stay away.                                        *)

(* Every durable event was acknowledged.                                   *)
AllAcked == unacked = {}

LEMMA AcksKept == ~TornAppends => (Spec => []AllAcked)
  <1> SUFFICES ASSUME ~TornAppends PROVE Spec => []AllAcked
    OBVIOUS
  <1>1. Init => AllAcked
    BY DEF Init, AllAcked
  <1>2. ASSUME NEW events, Inv, unacked = {}, Append_(events) \/ AppendFails(events)
        PROVE  unacked' = {}
    <2>1. CASE Append_(events)
      BY <1>2, <2>1 DEF Append_
    <2>2. CASE AppendFails(events)
      <3>1. PICK k \in 0..Len(events) : /\ k > 0 => TornAppends
                                        /\ unacked' = unacked \cup (last_seq + 1)..(last_seq + k)
        BY <2>2 DEF AppendFails
      <3>2. k = 0
        BY <3>1
      <3>3. (last_seq + 1)..(last_seq + k) = {}
        BY <1>2, <3>2 DEF Inv, StoreOK
      <3> QED
        BY <1>2, <3>1, <3>3
    <2> QED
      BY <1>2, <2>1, <2>2
  <1>3. Inv /\ AllAcked /\ [Next]_vars => AllAcked'
    <2> SUFFICES ASSUME Inv, unacked = {}, [Next]_vars PROVE unacked' = {}
      BY DEF AllAcked
    <2>1. UNCHANGED unacked \/ \E events : Append_(events) \/ AppendFails(events)
      <3>1. ASSUME NEW t \in Tasks,
                   \/ \E c \in Ciphertexts : SubmitOrder(t, c)
                   \/ ValidateOrder(t)
                   \/ RejectOrder(t)
            PROVE  UNCHANGED unacked
        BY <3>1 DEF SubmitOrder, ValidateOrder, RejectOrder, store
      <3>2. ASSUME NEW t \in Tasks, persist_order_placed(t)
            PROVE  \E events : Append_(events) \/ AppendFails(events)
        BY <3>2 DEF persist_order_placed
      <3>3. ASSUME NEW id, cancel_order(id)
            PROVE  \E events : Append_(events) \/ AppendFails(events)
        BY <3>3 DEF cancel_order
      <3>4. ASSUME NEW id, drop_secret(id) PROVE UNCHANGED unacked
        BY <3>4 DEF drop_secret, store
      <3>5. ASSUME NEW pair, register_pair_with_event(pair) \/ suspend_pair(pair)
            PROVE  \E events : Append_(events) \/ AppendFails(events)
        BY <3>5 DEF register_pair_with_event, suspend_pair
      <3>6. ASSUME NEW pair, delist_pair(pair)
            PROVE  \E events : Append_(events) \/ AppendFails(events)
        BY <3>6 DEF delist_pair
      <3>7. CASE ExpireOrders
        BY <3>7 DEF ExpireOrders
      <3>8. CASE MatchPair
        BY <3>8 DEF MatchPair, store
      <3>9. CASE \/ StartTick \/ ReleaseLock \/ build_batch_witness \/ prune_dead_secrets
                 \/ ClockTick \/ Restart
        BY <3>9 DEF StartTick, ReleaseLock, build_batch_witness, prune_dead_secrets, ClockTick,
                    Restart, store
      <3>10. CASE UNCHANGED vars
        BY <3>10 DEF vars
      <3> QED
        BY <3>1, <3>2, <3>3, <3>4, <3>5, <3>6, <3>7, <3>8, <3>9, <3>10 DEF Next
    <2> QED
      BY <1>2, <2>1
  <1> QED
    BY <1>1, <1>3, Invariance, PTL DEF Spec

(* An order that was filled, cancelled, expired or delisted never rests    *)
(* again, not after a restart either, when an append that reports an error *)
(* leaves nothing behind.  (A cancel that is durable although it was       *)
(* reported as failed does the opposite of what its caller was told.)      *)
THEOREM OrdersStayAway == ~TornAppends => (Spec => NoResurrection)
  <1> SUFFICES ASSUME ~TornAppends PROVE Spec => NoResurrection
    OBVIOUS
  <1> DEFINE A == \A id \in EventsOf("OrderPlaced") : id \notin DOMAIN book => id \notin DOMAIN book'
  <1>1. Inv /\ LiveIsReplay /\ AllAcked /\ [Next]_vars => A
    <2> SUFFICES ASSUME Inv, LiveIsReplay, unacked = {}, [Next]_vars,
                        NEW id \in EventsOf("OrderPlaced"), id \notin DOMAIN book
                 PROVE  id \notin DOMAIN book'
      BY DEF AllAcked
    <2>1. id # last_seq + 1
      BY DEF EventsOf, Inv, StoreOK, LogOK
    <2>2. CASE Shrinks
      BY <2>2 DEF Shrinks
    <2>3. CASE Places
      BY <2>1, <2>3 DEF Places, Placed
    <2>4. CASE Restart
      BY <2>4, RestartIsInvisible
    <2> QED
      BY <2>2, <2>3, <2>4, BookSteps
  <1>2. Spec => []AllAcked
    BY AcksKept
  <1>3. Spec => [][A]_vars
    BY <1>1, <1>2, Invariance, ReplayIsLive, PTL DEF Spec
  <1> QED
    BY <1>3 DEF NoResurrection

-----------------------------------------------------------------------------
(* The secrets of the matched orders.                                      *)

Legs(k) == {log[k].bid, log[k].ask}

(* Order id is older than the process, or was cancelled after match k.     *)
Withdrawn(k, id) ==
    \/ id <= boot_seq
    \/ \E c \in EventsOf("OrderCancelled") : log[c].id = id /\ c > k

(* A chunk still to be proved: of at most batch_size matches, the secret   *)
(* of each leg in memory unless its order was withdrawn meanwhile.         *)
ChunkOK(C) ==
    /\ C \subseteq EventsOf("OrderMatched")
    /\ \A n, k \in C : k \in (n - batch_size + 1)..(n + batch_size - 1)
    /\ \A k \in C : \A id \in Legs(k) : id \in secrets \/ Withdrawn(k, id)

Chunks == {tick.chunks[j] : j \in DOMAIN tick.chunks}

(* A secret about to be dropped is that of an order whose cancel comes     *)
(* after every match of it that is not proved yet.                         *)
DroppingOK ==
    \A id \in dropping :
        /\ id \in 1..last_seq /\ id \notin DOMAIN book
        /\ \E c \in EventsOf("OrderCancelled") :
              log[c].id = id /\ \A C \in Chunks : \A k \in C : id \in Legs(k) => c > k

UnprovedOK ==
    \A n \in unproved :
        /\ n \in EventsOf("OrderMatched")
        /\ \E k \in unproved \cap (n - batch_size + 1)..(n + batch_size - 1) :
              \E id \in Legs(k) : Withdrawn(k, id)

SecretInv ==
    /\ \A id \in DOMAIN book : id > boot_seq => id \in secrets
    /\ tick.pc = "idle" => secrets \subseteq DOMAIN book \cup dropping
    /\ boot_seq \in Nat
    /\ tick.chunks \in Seq(SUBSET Nat)
    /\ \A C \in Chunks : ChunkOK(C)
    /\ DroppingOK
    /\ UnprovedOK

(* The log keeps what it has.                                              *)
Grows == \A n \in DOMAIN log : n \in DOMAIN log' /\ log'[n] = log[n]

LEMMA StoreGrows ==
    ASSUME StoreOK, NEW events, Len(events) \in Nat, Append_(events) \/ AppendFails(events)
    PROVE  Grows /\ last_seq' = last_seq + Len(events) /\ last_seq <= last_seq'
  <1>1. last_seq \in Nat /\ DOMAIN log \subseteq 1..last_seq
    BY DEF StoreOK, LogOK
  <1>2. last_seq' = last_seq + Len(events) /\ \E k \in 0..Len(events) : log' = LogWith(events, k)
    BY DEF Append_, AppendFails
  <1>3. PICK k \in 0..Len(events) : log' = LogWith(events, k)
    BY <1>2
  <1>4. Grows
    BY <1>1, <1>3 DEF Grows, LogWith
  <1>5. last_seq <= last_seq'
    BY <1>1, <1>2
  <1> QED
    BY <1>2, <1>4, <1>5

LEMMA LegsKept ==
    ASSUME Grows, NEW k \in DOMAIN log
    PROVE  Legs(k)' = Legs(k)
  BY DEF Grows, Legs

LEMMA EventsKept ==
    ASSUME Grows, NEW type
    PROVE  EventsOf(type) \subseteq EventsOf(type)' /\ EventsOf(type) \subseteq DOMAIN log
  BY DEF Grows, EventsOf

LEMMA WithdrawnKept ==
    ASSUME Grows, boot_seq' = boot_seq, NEW k, NEW id, Withdrawn(k, id)
    PROVE  Withdrawn(k, id)'
  <1>1. CASE id <= boot_seq
    BY <1>1 DEF Withdrawn
  <1>2. CASE \E c \in EventsOf("OrderCancelled") : log[c].id = id /\ c > k
    <2>1. PICK c \in EventsOf("OrderCancelled") : log[c].id = id /\ c > k
      BY <1>2
    <2>2. c \in EventsOf("OrderCancelled")' /\ c \in DOMAIN log
      BY EventsKept
    <2>3. log'[c].id = id
      BY <2>1, <2>2 DEF Grows
    <2> QED
      BY <2>1, <2>2, <2>3 DEF Withdrawn
  <1> QED
    BY <1>1, <1>2 DEF Withdrawn

(* A chunk stays in order when every secret it loses is withdrawn.         *)
LEMMA ChunkKept ==
    ASSUME Grows, boot_seq' = boot_seq, NEW C, ChunkOK(C),
           \A k \in C : \A id \in Legs(k) : id \in secrets => id \in secrets' \/ Withdrawn(k, id)
    PROVE  ChunkOK(C)'
  <1>1. C \subseteq EventsOf("OrderMatched")' /\ C \subseteq DOMAIN log
    BY EventsKept DEF ChunkOK
  <1>2. ASSUME NEW k \in C, NEW id \in Legs(k)' PROVE id \in secrets' \/ Withdrawn(k, id)'
    <2>1. id \in Legs(k)
      BY <1>1, LegsKept
    <2>2. id \in secrets' \/ Withdrawn(k, id)
      BY <2>1 DEF ChunkOK
    <2> QED
      BY <2>2, WithdrawnKept
  <1> QED
    BY <1>1, <1>2 DEF ChunkOK

LEMMA UnprovedKept ==
    ASSUME Grows, boot_seq' = boot_seq, UnprovedOK, UNCHANGED unproved
    PROVE  UnprovedOK'
  <1> SUFFICES ASSUME NEW n \in unproved
               PROVE  /\ n \in EventsOf("OrderMatched")'
                      /\ \E k \in unproved \cap (n - batch_size + 1)..(n + batch_size - 1) :
                            \E id \in Legs(k)' : Withdrawn(k, id)'
    BY DEF UnprovedOK
  <1>1. n \in EventsOf("OrderMatched")
    BY DEF UnprovedOK
  <1>2. PICK k \in unproved \cap (n - batch_size + 1)..(n + batch_size - 1) :
                \E id \in Legs(k) : Withdrawn(k, id)
    BY DEF UnprovedOK
  <1>3. PICK id \in Legs(k) : Withdrawn(k, id)
    BY <1>2
  <1>4. k \in EventsOf("OrderMatched")
    BY DEF UnprovedOK
  <1>5. k \in DOMAIN log /\ n \in EventsOf("OrderMatched")'
    BY <1>1, <1>4, EventsKept
  <1>6. id \in Legs(k)' /\ Withdrawn(k, id)'
    BY <1>3, <1>5, LegsKept, WithdrawnKept
  <1> QED
    BY <1>2, <1>5, <1>6

(* The orders still to be dropped are those that were, or fewer.           *)
LEMMA DroppingKept ==
    ASSUME Grows, last_seq \in Nat, last_seq' \in Nat, last_seq <= last_seq', DroppingOK,
           \A C \in Chunks : ChunkOK(C), Chunks' \subseteq Chunks, NEW id \in dropping,
           id \notin DOMAIN book'
    PROVE  /\ id \in 1..last_seq'
           /\ \E c \in EventsOf("OrderCancelled")' :
                log'[c].id = id /\ \A C \in Chunks' : \A k \in C : id \in Legs(k)' => c > k
  <1>1. PICK c \in EventsOf("OrderCancelled") :
            log[c].id = id /\ \A C \in Chunks : \A k \in C : id \in Legs(k) => c > k
    BY DEF DroppingOK
  <1>2. c \in EventsOf("OrderCancelled")' /\ c \in DOMAIN log
    BY EventsKept
  <1>3. log'[c].id = id
    BY <1>1, <1>2 DEF Grows
  <1>4. \A C \in Chunks : \A k \in C : k \in DOMAIN log
    BY EventsKept DEF ChunkOK
  <1>5. \A C \in Chunks' : \A k \in C : id \in Legs(k)' => c > k
    BY <1>1, <1>4, LegsKept
  <1>6. id \in 1..last_seq'
    BY DEF DroppingOK
  <1> QED
    BY <1>2, <1>3, <1>5, <1>6

(* A step that leaves secrets, chunks and what is to be dropped alone.     *)
LEMMA QuietSecrets ==
    ASSUME SecretInv, Grows, last_seq \in Nat, last_seq' \in Nat, last_seq <= last_seq',
           UNCHANGED <<secrets, dropping, unproved, boot_seq>>, tick'.chunks = tick.chunks,
           DOMAIN book' \subseteq DOMAIN book,
           tick'.pc = "idle" => tick.pc = "idle" /\ DOMAIN book' = DOMAIN book
    PROVE  SecretInv'
  <1>1. Chunks' = Chunks
    BY DEF Chunks
  <1>2. \A C \in Chunks' : ChunkOK(C)'
    BY <1>1, ChunkKept DEF SecretInv
  <1>3. DroppingOK'
    <2>1. \A id \in dropping : id \notin DOMAIN book'
      BY DEF SecretInv, DroppingOK
    <2> QED
      BY <1>1, <2>1, DroppingKept DEF SecretInv, DroppingOK
  <1>4. UnprovedOK'
    BY UnprovedKept DEF SecretInv
  <1> QED
    BY <1>2, <1>3, <1>4 DEF SecretInv

LEMMA PersistSecrets ==
    ASSUME Inv, SecretInv, NEW t \in Tasks, persist_order_placed(t)
    PROVE  SecretInv'
  <1> DEFINE n == last_seq + 1
  <1>1. PICK c \in Ciphertexts : placing[t].c = c
    BY DEF Inv, TasksOK, PlacingOK, persist_order_placed, Idle
  <1> DEFINE events == <<PlacedEvent(c)>>
  <1>2. /\ UNCHANGED <<dropping, unproved, boot_seq, tick>>
        /\ \/ Append_(events) /\ Admit(c, n, n)
           \/ AppendFails(events) /\ UNCHANGED <<book, secrets>>
    BY <1>1 DEF persist_order_placed, process
  <1>3. Len(events) = 1 /\ Len(events) \in Nat
    OBVIOUS
  <1> HIDE DEF events
  <1>4. last_seq \in Nat /\ last_seq' \in Nat /\ last_seq <= last_seq' /\ Grows /\ last_seq' = n
    <2>1. StoreOK /\ last_seq \in Nat
      BY DEF Inv, StoreOK
    <2>2. Grows /\ last_seq' = last_seq + Len(events) /\ last_seq <= last_seq'
      BY <1>2, <1>3, <2>1, StoreGrows
    <2> QED
      BY <1>3, <2>1, <2>2
  <1>5. CASE UNCHANGED <<book, secrets>>
    BY <1>2, <1>4, <1>5, QuietSecrets
  <1>6. CASE Admit(c, n, n)
    <2>1. DOMAIN book' = DOMAIN book \cup {n} /\ secrets' = secrets \cup {n}
      BY <1>6 DEF Admit
    <2>2. Chunks' = Chunks
      BY <1>2 DEF Chunks
    <2>3. \A C \in Chunks' : ChunkOK(C)'
      BY <1>2, <1>4, <2>1, <2>2, ChunkKept DEF SecretInv
    <2>4. \A id \in dropping : id \notin DOMAIN book'
      BY <1>4, <2>1 DEF SecretInv, DroppingOK
    <2>5. DroppingOK'
      BY <1>2, <1>4, <2>2, <2>4, DroppingKept DEF SecretInv, DroppingOK
    <2>6. UnprovedOK'
      BY <1>2, <1>4, UnprovedKept DEF SecretInv
    <2> QED
      BY <1>2, <2>1, <2>3, <2>5, <2>6 DEF SecretInv
  <1> QED
    BY <1>2, <1>5, <1>6

(* Orders that are withdrawn, each with its cancel in the log.             *)
LEMMA WithdrawSecrets ==
    ASSUME Inv, SecretInv, Grows, StoreOK', last_seq' \in Nat, last_seq <= last_seq',
           UNCHANGED <<secrets, unproved, boot_seq, tick>>,
           NEW ids \in SUBSET DOMAIN book, book' = remove_orders(book, ids),
           dropping' = dropping \cup ids,
           \A id \in ids : \E c \in EventsOf("OrderCancelled")' : log'[c].id = id /\ c > last_seq
    PROVE  SecretInv'
  <1>1. last_seq \in Nat /\ DOMAIN log \subseteq 1..last_seq /\ DOMAIN book \subseteq 1..last_seq
    BY DEF Inv, StoreOK, LogOK, BookOK
  <1>2. DOMAIN book' = DOMAIN book \ ids
    BY DEF remove_orders
  <1>3. Chunks' = Chunks
    BY DEF Chunks
  <1>4. \A C \in Chunks' : ChunkOK(C)'
    BY <1>3, ChunkKept DEF SecretInv
  <1>5. UnprovedOK'
    BY UnprovedKept DEF SecretInv
  <1>6. ASSUME NEW id \in dropping
        PROVE  /\ id \in 1..last_seq' /\ id \notin DOMAIN book'
               /\ \E c \in EventsOf("OrderCancelled")' :
                    log'[c].id = id /\ \A C \in Chunks' : \A k \in C : id \in Legs(k)' => c > k
    <2>1. id \notin DOMAIN book'
      BY <1>2 DEF SecretInv, DroppingOK
    <2> QED
      BY <1>1, <1>3, <2>1, DroppingKept DEF SecretInv
  <1>7. ASSUME NEW id \in ids
        PROVE  /\ id \in 1..last_seq' /\ id \notin DOMAIN book'
               /\ \E c \in EventsOf("OrderCancelled")' :
                    log'[c].id = id /\ \A C \in Chunks' : \A k \in C : id \in Legs(k)' => c > k
    <2>1. PICK c \in EventsOf("OrderCancelled")' : log'[c].id = id /\ c > last_seq
      OBVIOUS
    <2>2. c \in Nat
      BY DEF StoreOK, LogOK, EventsOf
    <2>3. \A C \in Chunks : \A k \in C : k \in 1..last_seq
      BY <1>1, EventsKept DEF SecretInv, ChunkOK
    <2>4. \A C \in Chunks' : \A k \in C : c > k
      BY <1>1, <1>3, <2>1, <2>2, <2>3
    <2>5. id \in 1..last_seq' /\ id \notin DOMAIN book'
      BY <1>1, <1>2
    <2> QED
      BY <2>1, <2>4, <2>5
  <1>8. DroppingOK'
    BY <1>6, <1>7 DEF DroppingOK
  <1>9. secrets' = secrets /\ tick' = tick /\ boot_seq' = boot_seq
    OBVIOUS
  <1> QED
    BY <1>2, <1>4, <1>5, <1>8, <1>9 DEF SecretInv

LEMMA AppendedEvent ==
    ASSUME StoreOK, NEW events, NEW K \in Nat, Len(events) = K, Append_(events), NEW i \in 1..K
    PROVE  /\ last_seq + i \in DOMAIN log' /\ log'[last_seq + i] = events[i]
           /\ last_seq + i > last_seq
  <1> DEFINE n == last_seq + i
  <1>1. n \in (last_seq + 1)..(last_seq + K) /\ n > last_seq /\ n - last_seq = i
    BY DEF StoreOK
  <1> HIDE DEF n
  <1>2. n \in DOMAIN log' /\ log'[n] = events[n - last_seq]
    BY <1>1 DEF Append_, LogWith
  <1> QED
    BY <1>1, <1>2 DEF n

LEMMA CancelSecrets ==
    ASSUME Inv, SecretInv, NEW id \in DOMAIN book, cancel_order(id)
    PROVE  SecretInv'
  <1> DEFINE e == [type |-> "OrderCancelled", id |-> id]
             events == <<e>>
  <1>1. \/ Append_(events) /\ book' = remove_orders(book, {id}) /\ dropping' = dropping \cup {id}
        \/ AppendFails(events) /\ UNCHANGED <<book, dropping>>
    BY DEF cancel_order
  <1>2. UNCHANGED <<secrets, unproved, boot_seq, tick>>
    BY DEF cancel_order, process
  <1>3. Len(events) = 1 /\ 1 \in Nat /\ events[1] = e /\ e.type = "OrderCancelled" /\ e.id = id
    OBVIOUS
  <1> HIDE DEF events, e
  <1>4. StoreOK /\ last_seq \in Nat
    BY DEF Inv, StoreOK
  <1>5. Grows /\ last_seq <= last_seq' /\ last_seq' \in Nat
    <2>1. Grows /\ last_seq' = last_seq + Len(events) /\ last_seq <= last_seq'
      BY <1>1, <1>3, <1>4, StoreGrows
    <2> QED
      BY <1>3, <1>4, <2>1
  <1>6. CASE UNCHANGED <<book, dropping>>
    BY <1>2, <1>4, <1>5, <1>6, QuietSecrets
  <1>7. CASE /\ Append_(events) /\ book' = remove_orders(book, {id})
             /\ dropping' = dropping \cup {id}
    <2>1. /\ last_seq + 1 \in DOMAIN log' /\ log'[last_seq + 1] = events[1]
          /\ last_seq + 1 > last_seq
      <3>1. 1 \in 1..1
        OBVIOUS
      <3> QED
        BY <1>3, <1>4, <1>7, <3>1, AppendedEvent
    <2>2. \E c \in EventsOf("OrderCancelled")' : log'[c].id = id /\ c > last_seq
      BY <1>3, <2>1 DEF EventsOf
    <2>3. StoreOK'
      BY CancelOrderKeeps DEF Inv
    <2> DEFINE ids == {id}
    <2>4. /\ ids \in SUBSET DOMAIN book
          /\ book' = remove_orders(book, ids) /\ dropping' = dropping \cup ids
          /\ \A x \in ids : \E c \in EventsOf("OrderCancelled")' : log'[c].id = x /\ c > last_seq
      BY <1>7, <2>2
    <2> HIDE DEF ids
    <2> QED
      BY <1>2, <1>4, <1>5, <2>3, <2>4, WithdrawSecrets
  <1> QED
    BY <1>1, <1>6, <1>7

LEMMA DelistSecrets ==
    ASSUME Inv, SecretInv, NEW pair, delist_pair(pair)
    PROVE  SecretInv'
  <1> DEFINE ids == order_ids_for(pair)
             cancels == Removals(ids, "OrderCancelled")
             last == [type |-> "PairDelisted", pair |-> pair]
             events == Append(cancels, last)
             K == Cardinality(ids)
  <1>1. \/ Append_(events) /\ book' = remove_orders(book, ids) /\ dropping' = dropping \cup ids
        \/ AppendFails(events) /\ UNCHANGED <<book, dropping>>
    BY DEF delist_pair, Removals
  <1>2. UNCHANGED <<secrets, unproved, boot_seq, tick>>
    BY DEF delist_pair, process
  <1>3. ids \in SUBSET DOMAIN book
    BY DEF order_ids_for
  <1> HIDE DEF ids
  <1>4. /\ cancels \in Seq([type : {"OrderCancelled"}, id : ids])
        /\ Len(cancels) = K /\ K \in Nat
        /\ \A i \in 1..K : cancels[i].type = "OrderCancelled" /\ cancels[i].id = SetToSeq(ids)[i]
    <2>1. /\ cancels \in Seq([type : {"OrderCancelled"}, id : ids])
          /\ Len(cancels) = K /\ K \in Nat
      BY <1>3, RemovalsOK
    <2>2. \A i \in 1..K : cancels[i].type = "OrderCancelled" /\ cancels[i].id = SetToSeq(ids)[i]
      BY DEF Removals
    <2> HIDE DEF cancels, K
    <2> QED
      BY <2>1, <2>2
  <1>5. Len(events) = K + 1 /\ \A i \in 1..K : events[i] = cancels[i]
    <2> HIDE DEF cancels, last, K
    <2>1. /\ Len(events) = Len(cancels) + 1
          /\ \A i \in 1..Len(events) : events[i] = IF i <= Len(cancels) THEN cancels[i] ELSE last
      BY <1>4
    <2> HIDE DEF events
    <2>2. \A i \in 1..K : i \in 1..(K + 1) /\ i <= K
      BY <1>4
    <2> QED
      BY <1>4, <2>1, <2>2
  <1>6. \A x \in ids : \E i \in 1..K : SetToSeq(ids)[i] = x
    BY <1>3, RestingListed
  <1> HIDE DEF events, cancels, last, K
  <1>7. StoreOK /\ last_seq \in Nat
    BY DEF Inv, StoreOK
  <1>8. Grows /\ last_seq <= last_seq' /\ last_seq' \in Nat
    <2>1. Len(events) \in Nat
      BY <1>4, <1>5
    <2>2. Grows /\ last_seq' = last_seq + Len(events) /\ last_seq <= last_seq'
      BY <1>1, <1>7, <2>1, StoreGrows
    <2> QED
      BY <1>7, <2>1, <2>2
  <1>9. CASE UNCHANGED <<book, dropping>>
    BY <1>2, <1>7, <1>8, <1>9, QuietSecrets
  <1>10. CASE /\ Append_(events) /\ book' = remove_orders(book, ids)
              /\ dropping' = dropping \cup ids
    <2>1. ASSUME NEW x \in ids
          PROVE  \E c \in EventsOf("OrderCancelled")' : log'[c].id = x /\ c > last_seq
      <3>1. PICK i \in 1..K : SetToSeq(ids)[i] = x
        BY <1>6
      <3>2. i \in 1..(K + 1) /\ K + 1 \in Nat
        BY <1>4
      <3>3. /\ last_seq + i \in DOMAIN log' /\ log'[last_seq + i] = events[i]
            /\ last_seq + i > last_seq
        BY <1>5, <1>7, <1>10, <3>2, AppendedEvent
      <3>4. events[i].type = "OrderCancelled" /\ events[i].id = x
        BY <1>4, <1>5, <3>1
      <3> QED
        BY <3>3, <3>4 DEF EventsOf
    <2>2. StoreOK'
      BY DelistPairKeeps DEF Inv
    <2> QED
      BY <1>2, <1>3, <1>8, <1>10, <2>1, <2>2, WithdrawSecrets
  <1> QED
    BY <1>1, <1>9, <1>10

LEMMA DropSecrets ==
    ASSUME Inv, SecretInv, NEW id \in dropping, drop_secret(id)
    PROVE  SecretInv'
  <1>1. /\ dropping' = dropping \ {id} /\ secrets' = secrets \ {id}
        /\ UNCHANGED <<log, last_seq, book, tick, unproved, boot_seq>>
    BY DEF drop_secret, store, process
  <1>2. Grows /\ last_seq \in Nat /\ last_seq' \in Nat /\ last_seq <= last_seq'
    BY <1>1 DEF Grows, Inv, StoreOK
  <1>3. Chunks' = Chunks
    BY <1>1 DEF Chunks
  <1>4. PICK c \in EventsOf("OrderCancelled") :
            log[c].id = id /\ \A C \in Chunks : \A k \in C : id \in Legs(k) => c > k
    BY DEF SecretInv, DroppingOK
  <1>5. ASSUME NEW C \in Chunks PROVE ChunkOK(C)'
    <2>1. \A k \in C : \A x \in Legs(k) : x \in secrets => x \in secrets' \/ Withdrawn(k, x)
      BY <1>1, <1>4 DEF Withdrawn
    <2>2. ChunkOK(C)
      BY DEF SecretInv
    <2> QED
      BY <1>1, <1>2, <2>1, <2>2, ChunkKept
  <1>6. \A x \in dropping : x \notin DOMAIN book'
    BY <1>1 DEF SecretInv, DroppingOK
  <1>7. DroppingOK'
    BY <1>1, <1>2, <1>3, <1>6, DroppingKept DEF SecretInv, DroppingOK
  <1>8. UnprovedOK'
    BY <1>1, <1>2, UnprovedKept DEF SecretInv
  <1>9. /\ \A x \in DOMAIN book' : x > boot_seq' => x \in secrets'
        /\ tick'.pc = "idle" => secrets' \subseteq DOMAIN book' \cup dropping'
        /\ tick'.chunks \in Seq(SUBSET Nat) /\ boot_seq' \in Nat
    BY <1>1, <1>6 DEF SecretInv
  <1> QED
    BY <1>3, <1>5, <1>7, <1>8, <1>9 DEF SecretInv

(* The chunks of a round are intervals of at most batch_size matches.      *)
LEMMA ChunksShape ==
    ASSUME NEW base \in Nat, NEW n \in Nat
    PROVE  /\ ChunksOf(base, n) \in Seq(SUBSET Nat)
           /\ \A j \in DOMAIN ChunksOf(base, n) :
                LET C == ChunksOf(base, n)[j]
                IN  /\ C \subseteq (base + 1)..(base + n)
                    /\ \A x, y \in C : y \in (x - batch_size + 1)..(x + batch_size - 1)
  <1> DEFINE b == batch_size
             N == (n + b - 1) \div b
             c(j) == (base + (j - 1) * b + 1)..(base + Lesser(j * b, n))
             s == ChunksOf(base, n)
  <1>1. b \in Nat /\ b > 0
    BY EngineAssumption
  <1>2. N \in Nat
    <2> HIDE DEF b
    <2>1. n + b - 1 \in Nat /\ b \in Nat \ {0}
      BY <1>1
    <2>2. \A x \in Nat, y \in Nat \ {0} : x \div y \in Nat
      OBVIOUS
    <2> QED
      BY <2>1, <2>2
  <1>3. s = [j \in 1..N |-> c(j)]
    BY DEF ChunksOf
  <1>4. ASSUME NEW j \in 1..N
        PROVE  /\ c(j) \subseteq (base + 1)..(base + n)
               /\ \A x, y \in c(j) : y \in (x - b + 1)..(x + b - 1)
    <2> HIDE DEF b, N
    <2>1. j \in Nat /\ j >= 1
      BY <1>2, <1>4
    <2>2. \A x \in Nat, y \in Nat : x * y \in Nat
      OBVIOUS
    <2> DEFINE d == (j - 1) * b
               top == j * b
    <2>3. d \in Nat /\ top \in Nat
      BY <1>1, <2>1, <2>2
    <2>4. top = d + b
      BY <1>1, <2>1
    <2>5. c(j) = (base + d + 1)..(base + Lesser(top, n))
      OBVIOUS
    <2> HIDE DEF d, top, c
    <2>6. Lesser(top, n) \in Nat /\ Lesser(top, n) <= n /\ Lesser(top, n) <= d + b
      BY <1>1, <2>3, <2>4 DEF Lesser
    <2>7. c(j) \subseteq (base + 1)..(base + n)
      BY <2>3, <2>5, <2>6
    <2>8. c(j) \subseteq (base + d + 1)..(base + (d + b))
      BY <1>1, <2>3, <2>5, <2>6
    <2>9. \A x, y \in (base + d + 1)..(base + (d + b)) : y \in (x - b + 1)..(x + b - 1)
      BY <1>1, <2>3
    <2> QED
      BY <2>7, <2>8, <2>9
  <1> HIDE DEF N, c, s
  <1>5. \A j \in 1..N : c(j) \in SUBSET Nat
    <2>1. (base + 1)..(base + n) \subseteq Nat
      OBVIOUS
    <2> QED
      BY <1>4, <2>1
  <1>6. s \in Seq(SUBSET Nat) /\ DOMAIN s = 1..N
    BY <1>2, <1>3, <1>5
  <1>7. \A j \in DOMAIN s : /\ s[j] \subseteq (base + 1)..(base + n)
                            /\ \A x, y \in s[j] : y \in (x - b + 1)..(x + b - 1)
    BY <1>3, <1>4, <1>6
  <1> QED
    BY <1>6, <1>7 DEF s

(* The sets in a sequence that is put behind another.                      *)
LEMMA ChunksAppended ==
    ASSUME NEW s \in Seq(SUBSET Nat), NEW u \in Seq(SUBSET Nat)
    PROVE  /\ s \o u \in Seq(SUBSET Nat)
           /\ \A j \in DOMAIN (s \o u) : \/ \E i \in DOMAIN s : (s \o u)[j] = s[i]
                                         \/ \E i \in DOMAIN u : (s \o u)[j] = u[i]
  <1> DEFINE T == SUBSET Nat
  <1> HIDE DEF T
  <1>1. s \in Seq(T) /\ u \in Seq(T)
    BY DEF T
  <1>2. /\ s \o u \in Seq(T)
        /\ Len(s \o u) = Len(s) + Len(u)
        /\ \A i \in 1..(Len(s) + Len(u)) :
                (s \o u)[i] = IF i <= Len(s) THEN s[i] ELSE u[i - Len(s)]
    BY <1>1, ConcatProperties
  <1> DEFINE w == s \o u
  <1> HIDE DEF w
  <1>3. /\ Len(s) \in Nat /\ DOMAIN s = 1..Len(s) /\ Len(u) \in Nat /\ DOMAIN u = 1..Len(u)
        /\ w \in Seq(T) /\ DOMAIN w = 1..Len(w)
    BY <1>1, <1>2 DEF w
  <1>4. ASSUME NEW j \in DOMAIN w
        PROVE  \/ \E i \in DOMAIN s : w[j] = s[i]
               \/ \E i \in DOMAIN u : w[j] = u[i]
    <2>1. j \in 1..(Len(s) + Len(u)) /\ w[j] = IF j <= Len(s) THEN s[j] ELSE u[j - Len(s)]
      BY <1>2, <1>3 DEF w
    <2>2. CASE j <= Len(s)
      BY <1>3, <2>1, <2>2
    <2>3. CASE ~(j <= Len(s))
      <3>1. j - Len(s) \in 1..Len(u)
        BY <1>3, <2>1, <2>3
      <3> QED
        BY <1>3, <2>1, <2>3, <3>1
    <2> QED
      BY <2>2, <2>3
  <1> QED
    BY <1>3, <1>4 DEF w, T

(* The matches a round records are those of resting orders.                *)
LEMMA RecordedLegs ==
    ASSUME Inv, Round # NoAuction, Append_(RoundEvents(MatchedPair, Round)),
           NEW k \in (last_seq + 2)..(last_seq + 1 + Len(Round.matches))
    PROVE  k \in EventsOf("OrderMatched")' /\ Legs(k)' \subseteq DOMAIN book
  <1> DEFINE events == RoundEvents(MatchedPair, Round)
             ms == Round.matches
             n == Len(ms)
             pair == MatchedPair
             i == k - (last_seq + 1)
  <1>1. last_seq \in Nat /\ BookOK(book, last_seq) /\ StoreOK
    BY DEF Inv, StoreOK
  <1>2. Round = run(OrdersOf(pair, "Buy"), OrdersOf(pair, "Sell"))
    BY DEF Round
  <1> HIDE DEF pair
  <1>3. n \in Nat /\ \A j \in 1..n : ms[j].bid \in DOMAIN book /\ ms[j].ask \in DOMAIN book
    <2>1. n \in Nat /\ \A j \in 1..n : GoodMatch(pair, Round.price, ms[j])
      BY <1>1, <1>2, RoundOfBook
    <2> QED
      BY <2>1 DEF GoodMatch
  <1>4. /\ Len(events) = n + 1
        /\ \A j \in 1..n : /\ events[j + 1].type = "OrderMatched"
                           /\ events[j + 1].bid = ms[j].bid
                           /\ events[j + 1].ask = ms[j].ask
    BY <1>3, RoundEventsShape
  <1> HIDE DEF events, ms, n
  <1>5. Append_(events) /\ k \in (last_seq + 2)..(last_seq + 1 + n)
    BY DEF events, ms, n
  <1>6. i \in 1..n /\ i + 1 \in 1..(n + 1) /\ last_seq + (i + 1) = k /\ n + 1 \in Nat
    <2>1. last_seq \in Nat /\ n \in Nat /\ k \in Int /\ last_seq + 2 <= k /\ k <= last_seq + 1 + n
      BY <1>1, <1>3, <1>5
    <2> QED
      BY <2>1
  <1> HIDE DEF i
  <1>7. k \in DOMAIN log' /\ log'[k] = events[i + 1]
    BY <1>1, <1>4, <1>5, <1>6, AppendedEvent
  <1>8. events[i + 1].type = "OrderMatched" /\ {events[i + 1].bid, events[i + 1].ask} \subseteq DOMAIN book
    BY <1>3, <1>4, <1>6
  <1> QED
    BY <1>7, <1>8 DEF EventsOf, Legs

LEMMA MatchPairSecrets ==
    ASSUME Inv, SecretInv, MatchPair
    PROVE  SecretInv'
  <1> DEFINE events == RoundEvents(MatchedPair, Round)
             rest == [tick EXCEPT !.queue = @ \ {MatchedPair}]
             added == ChunksOf(last_seq + 1, Len(Round.matches))
  <1>1. \/ Round = NoAuction /\ tick' = rest /\ UNCHANGED <<store, book>>
        \/ /\ Round # NoAuction /\ Append_(events)
           /\ tick' = [rest EXCEPT !.chunks = @ \o added]
        \/ Round # NoAuction /\ AppendFails(events) /\ tick' = rest /\ UNCHANGED book
    BY DEF MatchPair, Round, MatchedPair
  <1>2. UNCHANGED <<secrets, dropping, unproved, boot_seq>> /\ tick.pc = "matching"
    BY DEF MatchPair, process
  <1>3. tick = [pc |-> tick.pc, now |-> tick.now, queue |-> tick.queue, chunks |-> tick.chunks,
                expiry_failed |-> tick.expiry_failed]
    BY DEF Inv, TickOK, TickShape
  <1>4. rest.chunks = tick.chunks /\ rest.pc = "matching"
    BY <1>2, <1>3
  <1>5. /\ [rest EXCEPT !.chunks = @ \o added].chunks = tick.chunks \o added
        /\ [rest EXCEPT !.chunks = @ \o added].pc = "matching"
    <2> HIDE DEF added
    <2> QED
      BY <1>2, <1>3
  <1>6. last_seq \in Nat /\ last_seq' \in Nat /\ last_seq <= last_seq' /\ Grows
    <2>1. StoreOK /\ last_seq \in Nat
      BY DEF Inv, StoreOK
    <2>2. CASE UNCHANGED store
      BY <2>1, <2>2 DEF store, Grows
    <2>3. CASE Round # NoAuction
      <3>1. Len(events) \in Nat
        BY <2>3, RoundEventsOK
      <3> HIDE DEF events, rest, added
      <3>2. Grows /\ last_seq' = last_seq + Len(events) /\ last_seq <= last_seq'
        BY <1>1, <2>1, <2>3, <3>1, StoreGrows
      <3> QED
        BY <2>1, <3>1, <3>2
    <2> QED
      BY <1>1, <2>2, <2>3
  <1>7. DOMAIN book' \subseteq DOMAIN book
    BY MatchPairShrinks
  <1> HIDE DEF events, rest, added
  <1>8. CASE tick' = rest
    BY <1>2, <1>4, <1>6, <1>7, <1>8, QuietSecrets
  <1>9. CASE /\ Round # NoAuction /\ Append_(events)
             /\ tick' = [rest EXCEPT !.chunks = @ \o added]
    <2> DEFINE base == last_seq + 1
               n == Len(Round.matches)
    <2>1. n \in Nat /\ base \in Nat
      <3> DEFINE pair == MatchedPair
      <3>1. Round = run(OrdersOf(pair, "Buy"), OrdersOf(pair, "Sell"))
        BY DEF Round
      <3> HIDE DEF pair
      <3>2. last_seq \in Nat /\ BookOK(book, last_seq)
        BY DEF Inv, StoreOK
      <3> QED
        BY <1>9, <3>1, <3>2, RoundOfBook
    <2>2. /\ added \in Seq(SUBSET Nat)
          /\ \A j \in DOMAIN added :
                /\ added[j] \subseteq (base + 1)..(base + n)
                /\ \A x, y \in added[j] : y \in (x - batch_size + 1)..(x + batch_size - 1)
      BY <2>1, ChunksShape DEF added
    <2>3. \A k \in (base + 1)..(base + n) : k \in EventsOf("OrderMatched")' /\ Legs(k)' \subseteq DOMAIN book
      <3>1. (base + 1)..(base + n) = (last_seq + 2)..(last_seq + 1 + n)
        BY <1>6, <2>1
      <3> QED
        BY <1>9, <3>1, RecordedLegs DEF events
    <2> HIDE DEF base, n
    <2>4. tick'.chunks = tick.chunks \o added /\ tick'.pc = "matching"
      BY <1>5, <1>9
    <2>5. /\ tick'.chunks \in Seq(SUBSET Nat)
          /\ \A C \in Chunks' : C \in Chunks \/ \E j \in DOMAIN added : C = added[j]
      <3>1. tick.chunks \in Seq(SUBSET Nat)
        BY DEF SecretInv
      <3> QED
        BY <2>2, <2>4, <3>1, ChunksAppended DEF Chunks
    <2>6. \A id \in DOMAIN book : id \in secrets \/ id <= boot_seq
      BY DEF SecretInv, Inv, BookOK
    <2>7. ASSUME NEW C, NEW j \in DOMAIN added, C = added[j] PROVE ChunkOK(C)'
      <3>1. C \subseteq EventsOf("OrderMatched")'
        BY <2>2, <2>3, <2>7
      <3>2. \A k \in C : \A id \in Legs(k)' : id \in secrets' \/ Withdrawn(k, id)'
        BY <1>2, <2>2, <2>3, <2>6, <2>7 DEF Withdrawn
      <3>3. \A x, y \in C : y \in (x - batch_size + 1)..(x + batch_size - 1)
        BY <2>2, <2>7
      <3> QED
        BY <3>1, <3>2, <3>3 DEF ChunkOK
    <2>8. ASSUME NEW C \in Chunks PROVE ChunkOK(C)'
      BY <1>2, <1>6, ChunkKept DEF SecretInv
    <2>9. \A C \in Chunks' : ChunkOK(C)'
      BY <2>5, <2>7, <2>8
    <2>10. DroppingOK'
      <3> SUFFICES ASSUME NEW id \in dropping
                   PROVE  /\ id \in 1..last_seq' /\ id \notin DOMAIN book'
                          /\ \E c \in EventsOf("OrderCancelled")' :
                                /\ log'[c].id = id
                                /\ \A C \in Chunks' : \A k \in C : id \in Legs(k)' => c > k
        BY <1>2 DEF DroppingOK
      <3>1. id \in 1..last_seq /\ id \notin DOMAIN book
        BY DEF SecretInv, DroppingOK
      <3>2. PICK c \in EventsOf("OrderCancelled") :
                log[c].id = id /\ \A C \in Chunks : \A k \in C : id \in Legs(k) => c > k
        BY DEF SecretInv, DroppingOK
      <3>3. c \in EventsOf("OrderCancelled")' /\ c \in DOMAIN log
        BY <1>6, EventsKept
      <3>4. log'[c].id = id
        BY <1>6, <3>2, <3>3 DEF Grows
      <3>5. \A C \in Chunks : \A k \in C : id \in Legs(k)' => c > k
        <4>1. \A C \in Chunks : \A k \in C : k \in DOMAIN log
          BY <1>6, EventsKept DEF SecretInv, ChunkOK
        <4> QED
          BY <1>6, <3>2, <4>1, LegsKept
      <3>6. \A j \in DOMAIN added : \A k \in added[j] : id \notin Legs(k)'
        BY <2>2, <2>3, <3>1
      <3>7. id \in 1..last_seq'
        BY <1>6, <3>1
      <3> QED
        BY <1>7, <2>5, <3>1, <3>3, <3>4, <3>5, <3>6, <3>7
    <2>11. UnprovedOK'
      BY <1>2, <1>6, UnprovedKept DEF SecretInv
    <2> QED
      BY <1>2, <1>7, <2>4, <2>5, <2>9, <2>10, <2>11 DEF SecretInv
  <1> QED
    BY <1>1, <1>8, <1>9

LEMMA BuildSecrets ==
    ASSUME Inv, SecretInv, build_batch_witness
    PROVE  SecretInv'
  <1> DEFINE chunk == Head(tick.chunks)
             legs == UNION {{log[n].bid, log[n].ask} : n \in chunk}
  <1>1. /\ tick.pc = "proving" /\ tick.chunks # <<>>
        /\ unproved' = IF legs \subseteq secrets THEN unproved ELSE unproved \cup chunk
        /\ tick' = [tick EXCEPT !.chunks = Tail(@)]
        /\ UNCHANGED <<log, last_seq, book, secrets, dropping, boot_seq>>
    BY DEF build_batch_witness, store, process
  <1>2. Grows /\ last_seq \in Nat /\ last_seq' \in Nat /\ last_seq <= last_seq'
    BY <1>1 DEF Grows, Inv, StoreOK
  <1>3. tick'.chunks = Tail(tick.chunks) /\ tick'.pc = "proving"
    BY <1>1 DEF Inv, TickOK, TickShape
  <1>4. tick.chunks \in Seq(SUBSET Nat)
    BY DEF SecretInv
  <1>5. /\ tick'.chunks \in Seq(SUBSET Nat)
        /\ Chunks' \subseteq Chunks /\ chunk \in Chunks
    <2> DEFINE s == tick.chunks
               T == SUBSET Nat
    <2> HIDE DEF s, T
    <2>1. s \in Seq(T) /\ s # <<>>
      BY <1>1, <1>4 DEF s, T
    <2>2. /\ Head(s) = s[1] /\ 1 \in DOMAIN s /\ Tail(s) \in Seq(T)
          /\ \A j \in DOMAIN Tail(s) : j + 1 \in DOMAIN s /\ Tail(s)[j] = s[j + 1]
      BY <2>1
    <2> QED
      BY <1>3, <2>2 DEF Chunks, s, T
  <1>6. ASSUME NEW C \in Chunks' PROVE ChunkOK(C)'
    <2>1. ChunkOK(C)
      BY <1>5 DEF SecretInv
    <2> QED
      BY <1>1, <1>2, <2>1, ChunkKept
  <1>7. DroppingOK'
    <2>1. \A x \in dropping : x \notin DOMAIN book'
      BY <1>1 DEF SecretInv, DroppingOK
    <2> QED
      BY <1>1, <1>2, <1>5, <2>1, DroppingKept DEF SecretInv, DroppingOK
  <1>8. UnprovedOK'
    <2>1. CASE legs \subseteq secrets
      BY <1>1, <1>2, <2>1, UnprovedKept DEF SecretInv
    <2>2. CASE ~(legs \subseteq secrets)
      <3>1. ChunkOK(chunk)
        BY <1>5 DEF SecretInv
      <3> HIDE DEF chunk
      <3>2. PICK k0 \in chunk : \E id \in Legs(k0) : id \notin secrets
        BY <2>2 DEF Legs
      <3>3. PICK id0 \in Legs(k0) : id0 \notin secrets
        BY <3>2
      <3>4. Withdrawn(k0, id0)
        BY <3>1, <3>2, <3>3 DEF ChunkOK
      <3>5. unproved' = unproved \cup chunk
        BY <1>1, <2>2
      <3>6. \A k : Legs(k)' = Legs(k) /\ \A id : Withdrawn(k, id)' <=> Withdrawn(k, id)
        BY <1>1 DEF Legs, Withdrawn, EventsOf
      <3>7. EventsOf("OrderMatched")' = EventsOf("OrderMatched")
        BY <1>1 DEF EventsOf
      <3>8. ASSUME NEW n \in chunk
            PROVE  /\ n \in EventsOf("OrderMatched")
                   /\ k0 \in unproved' \cap (n - batch_size + 1)..(n + batch_size - 1)
        BY <3>1, <3>2, <3>5 DEF ChunkOK
      <3>9. ASSUME NEW n \in unproved
            PROVE  /\ n \in EventsOf("OrderMatched")
                   /\ \E k \in unproved' \cap (n - batch_size + 1)..(n + batch_size - 1) :
                          \E id \in Legs(k) : Withdrawn(k, id)
        BY <3>5 DEF SecretInv, UnprovedOK
      <3> QED
        BY <3>3, <3>4, <3>5, <3>6, <3>7, <3>8, <3>9 DEF UnprovedOK
    <2> QED
      BY <2>1, <2>2
  <1> QED
    BY <1>1, <1>3, <1>5, <1>6, <1>7, <1>8 DEF SecretInv

LEMMA PruneSecrets ==
    ASSUME Inv, SecretInv, prune_dead_secrets
    PROVE  SecretInv'
  <1>1. /\ tick.chunks = <<>> /\ secrets' = secrets \cap DOMAIN book /\ tick' = TickIdle
        /\ UNCHANGED <<log, last_seq, book, dropping, unproved, boot_seq>>
    BY DEF prune_dead_secrets, store, process
  <1>2. Grows /\ last_seq \in Nat /\ last_seq' \in Nat /\ last_seq <= last_seq'
    BY <1>1 DEF Grows, Inv, StoreOK
  <1>3. tick'.pc = "idle" /\ tick'.chunks = <<>>
    BY <1>1 DEF TickIdle
  <1>4. Chunks' = {} /\ <<>> \in Seq(SUBSET Nat)
    BY <1>3 DEF Chunks
  <1>5. DroppingOK'
    <2>1. \A x \in dropping : x \notin DOMAIN book'
      BY <1>1 DEF SecretInv, DroppingOK
    <2>2. Chunks' \subseteq Chunks
      BY <1>4
    <2> QED
      BY <1>1, <1>2, <2>1, <2>2, DroppingKept DEF SecretInv, DroppingOK
  <1>6. UnprovedOK'
    BY <1>1, <1>2, UnprovedKept DEF SecretInv
  <1> QED
    BY <1>1, <1>3, <1>4, <1>5, <1>6 DEF SecretInv

(* After a boot every order is older than the process.                     *)
LEMMA RestartSecrets ==
    ASSUME Inv, SecretInv, Restart
    PROVE  SecretInv'
  <1> DEFINE M == Max(DOMAIN log \cup {0})
  <1>1. M \in Nat /\ LogOK(log, M)
    BY ReplayedUpToLast DEF Inv
  <1>2. /\ last_seq' = M /\ boot_seq' = M /\ log' = log
        /\ secrets' = {} /\ dropping' = {} /\ tick' = TickIdle
        /\ unproved' = unproved \cup UNION {tick.chunks[k] : k \in DOMAIN tick.chunks}
    BY DEF Restart
  <1> HIDE DEF M
  <1>3. tick'.pc = "idle" /\ tick'.chunks = <<>>
    BY <1>2 DEF TickIdle
  <1>4. Chunks' = {} /\ <<>> \in Seq(SUBSET Nat)
    BY <1>3 DEF Chunks
  <1>5. \A id \in DOMAIN book' : ~(id > boot_seq')
    <2>1. BookOK(book', last_seq')
      BY RestartKeeps DEF Inv
    <2> QED
      BY <1>1, <1>2, <2>1 DEF BookOK
  <1>6. unproved' \subseteq EventsOf("OrderMatched")
    <2>1. unproved' = unproved \cup UNION Chunks
      BY <1>2 DEF Chunks
    <2>2. unproved \subseteq EventsOf("OrderMatched")
      BY DEF SecretInv, UnprovedOK
    <2>3. \A C \in Chunks : C \subseteq EventsOf("OrderMatched")
      BY DEF SecretInv, ChunkOK
    <2> QED
      BY <2>1, <2>2, <2>3
  <1>7. UnprovedOK'
    <2> SUFFICES ASSUME NEW n \in unproved'
                 PROVE  /\ n \in EventsOf("OrderMatched")'
                        /\ \E k \in unproved' \cap (n - batch_size + 1)..(n + batch_size - 1) :
                              \E id \in Legs(k)' : Withdrawn(k, id)'
      BY DEF UnprovedOK
    <2>1. n \in DOMAIN log /\ log[n].type = "OrderMatched"
      BY <1>6 DEF EventsOf
    <2>2. n \in 1..M /\ log[n].bid \in 1..(n - 1)
      BY <1>1, <2>1 DEF LogOK, EventOK
    <2>3. log'[n].bid <= boot_seq'
      BY <1>1, <1>2, <2>2
    <2>4. n \in (n - batch_size + 1)..(n + batch_size - 1)
      BY <2>2, EngineAssumption
    <2>5. n \in EventsOf("OrderMatched")'
      BY <1>2, <2>1 DEF EventsOf
    <2>6. log'[n].bid \in Legs(n)'
      BY DEF Legs
    <2> QED
      BY <2>3, <2>4, <2>5, <2>6 DEF Withdrawn
  <1> QED
    BY <1>1, <1>2, <1>3, <1>4, <1>5, <1>7 DEF SecretInv, DroppingOK

LEMMA StepSecrets == Inv /\ SecretInv /\ [Next]_vars => SecretInv'
  <1> SUFFICES ASSUME Inv, SecretInv, [Next]_vars PROVE SecretInv'
    OBVIOUS
  <1>0. StoreOK /\ last_seq \in Nat
    BY DEF Inv, StoreOK
  <1>1. ASSUME UNCHANGED <<log, last_seq, book, secrets, dropping, unproved, boot_seq>>,
               tick'.chunks = tick.chunks, tick'.pc = "idle" => tick.pc = "idle"
        PROVE  SecretInv'
    <2>1. Grows /\ last_seq' \in Nat /\ last_seq <= last_seq'
      BY <1>0, <1>1 DEF Grows
    <2> QED
      BY <1>0, <1>1, <2>1, QuietSecrets
  <1>2. ASSUME NEW t \in Tasks,
               \/ \E c \in Ciphertexts : SubmitOrder(t, c)
               \/ ValidateOrder(t)
               \/ RejectOrder(t)
        PROVE  SecretInv'
    BY <1>1, <1>2 DEF SubmitOrder, ValidateOrder, RejectOrder, store, process
  <1>3. ASSUME NEW t \in Tasks, persist_order_placed(t) PROVE SecretInv'
    BY <1>3, PersistSecrets
  <1>4. ASSUME NEW id \in DOMAIN book, cancel_order(id) PROVE SecretInv'
    BY <1>4, CancelSecrets
  <1>5. ASSUME NEW id \in dropping, drop_secret(id) PROVE SecretInv'
    BY <1>5, DropSecrets
  <1>6. ASSUME NEW pair \in Pairs, register_pair_with_event(pair) \/ suspend_pair(pair)
        PROVE  SecretInv'
    <2> DEFINE reg == <<[type |-> "PairRegistered", pair |-> pair]>>
               sus == <<[type |-> "PairSuspended", pair |-> pair]>>
    <2>1. /\ \E events \in {reg, sus} : Append_(events) \/ AppendFails(events)
          /\ UNCHANGED <<book, secrets, dropping, unproved, boot_seq, tick>>
      BY <1>6 DEF register_pair_with_event, suspend_pair, process
    <2>2. Len(reg) = 1 /\ Len(sus) = 1
      OBVIOUS
    <2> HIDE DEF reg, sus
    <2>3. PICK events \in {reg, sus} : Append_(events) \/ AppendFails(events)
      BY <2>1
    <2>4. Len(events) = 1 /\ Len(events) \in Nat
      BY <2>2
    <2>5. Grows /\ last_seq' = last_seq + Len(events) /\ last_seq <= last_seq'
      BY <1>0, <2>3, <2>4, StoreGrows
    <2>6. last_seq' \in Nat
      BY <1>0, <2>4, <2>5
    <2> QED
      BY <1>0, <2>1, <2>5, <2>6, QuietSecrets
  <1>7. ASSUME NEW pair \in Pairs, delist_pair(pair) PROVE SecretInv'
    BY <1>7, DelistSecrets
  <1>8. CASE ExpireOrders
    <2> DEFINE expired == collect_expired(tick.now)
               events == Removals(expired, "OrderExpired")
    <2>1. /\ Append_(events) \/ AppendFails(events)
          /\ UNCHANGED <<secrets, dropping, unproved, boot_seq>>
          /\ book' = book \/ book' = remove_orders(book, expired)
      BY <1>8 DEF ExpireOrders, Removals, process
    <2>2. tick'.chunks = tick.chunks /\ tick'.pc = "matching"
      BY <1>8 DEF ExpireOrders, Inv, TickOK, TickShape
    <2>3. expired \in SUBSET DOMAIN book
      BY DEF collect_expired
    <2> HIDE DEF expired
    <2>4. Len(events) \in Nat
      BY <2>3, RemovalsOK
    <2>5. DOMAIN book' \subseteq DOMAIN book
      BY <2>1 DEF remove_orders
    <2> HIDE DEF events
    <2>6. Grows /\ last_seq' = last_seq + Len(events) /\ last_seq <= last_seq'
      BY <1>0, <2>1, <2>4, StoreGrows
    <2>7. last_seq' \in Nat
      BY <1>0, <2>4, <2>6
    <2> QED
      BY <1>0, <2>1, <2>2, <2>5, <2>6, <2>7, QuietSecrets
  <1>9. CASE MatchPair
    BY <1>9, MatchPairSecrets
  <1>10. CASE StartTick \/ ReleaseLock \/ ClockTick
    <2>1. UNCHANGED <<log, last_seq, book, secrets, dropping, unproved, boot_seq>>
      BY <1>10 DEF StartTick, ReleaseLock, ClockTick, store, process
    <2>2. tick'.chunks = tick.chunks /\ (tick'.pc = "idle" => tick.pc = "idle")
      BY <1>10 DEF StartTick, ReleaseLock, ClockTick, Inv, TickOK, TickShape
    <2> QED
      BY <1>1, <2>1, <2>2
  <1>11. CASE build_batch_witness
    BY <1>11, BuildSecrets
  <1>12. CASE prune_dead_secrets
    BY <1>12, PruneSecrets
  <1>13. CASE Restart
    BY <1>13, RestartSecrets
  <1>14. CASE UNCHANGED vars
    BY <1>1, <1>14 DEF vars
  <1> QED
    BY <1>2, <1>3, <1>4, <1>5, <1>6, <1>7, <1>8, <1>9, <1>10, <1>11, <1>12, <1>13, <1>14 DEF Next

(* place_encrypted_order, build_batch_witness, prune_dead_secrets: every   *)
(* resting order of this process has its secret, between ticks a secret    *)
(* outlives its order only until its drop_secret, and a recorded match     *)
(* goes without a proof only when an order of its chunk was cancelled      *)
(* after it or is older than the process.  For any batch_size, with torn   *)
(* appends and restarts.                                                   *)
THEOREM SecretsAreKept == Spec => []SecretsFollowOrders
  <1>1. Init => SecretInv
    <2> SUFFICES ASSUME Init PROVE SecretInv
      OBVIOUS
    <2>1. /\ DOMAIN book = {} /\ secrets = {} /\ dropping = {} /\ unproved = {} /\ boot_seq = 0
          /\ tick.chunks = <<>>
      BY DEF Init, TickIdle
    <2>2. Chunks = {} /\ <<>> \in Seq(SUBSET Nat)
      BY <2>1 DEF Chunks
    <2> QED
      BY <2>1, <2>2 DEF SecretInv, DroppingOK, UnprovedOK
  <1>2. SecretInv => SecretsFollowOrders
    <2> SUFFICES ASSUME SecretInv PROVE SecretsFollowOrders
      OBVIOUS
    <2>1. \A n \in unproved :
              \E k \in unproved \cap (n - batch_size + 1)..(n + batch_size - 1) :
                  \E id \in {log[k].bid, log[k].ask} :
                      \/ id <= boot_seq
                      \/ \E c \in EventsOf("OrderCancelled") : log[c].id = id /\ c > k
      BY DEF SecretInv, UnprovedOK, Legs, Withdrawn
    <2> QED
      BY <2>1 DEF SecretInv, SecretsFollowOrders
  <1> QED
    BY <1>1, <1>2, StepSecrets, Invariance, PTL DEF Spec

-----------------------------------------------------------------------------
(* The fills of the log, added up.                                         *)

SumSizes(lg, S) == MapThenSumSet(LAMBDA n : lg[n].size, S)

SizeOf(lg, S) == [n \in S |-> lg[n].size]

LEMMA SumSizesIs ==
    ASSUME NEW lg, NEW S, IsFiniteSet(S)
    PROVE  SumSizes(lg, S) = Total(SizeOf(lg, S), S)
  BY SizesAreTotal DEF SumSizes, SizeOf

LEMMA NoSizes == \A lg : SumSizes(lg, {}) = 0
  BY FS_EmptySet, SumSizesIs, SumOfNone

LEMMA SizesNatural ==
    ASSUME NEW lg, NEW S, IsFiniteSet(S), \A n \in S : lg[n].size \in Nat
    PROVE  SumSizes(lg, S) \in Nat
  <1>1. \A n \in S : SizeOf(lg, S)[n] \in Nat
    BY DEF SizeOf
  <1> QED
    BY <1>1, SumSizesIs, SumNatural

LEMMA SizesSame ==
    ASSUME NEW lg, NEW lg2, NEW S, IsFiniteSet(S), \A n \in S : lg2[n].size = lg[n].size
    PROVE  SumSizes(lg2, S) = SumSizes(lg, S)
  <1>1. SizeOf(lg2, S) = SizeOf(lg, S)
    BY DEF SizeOf
  <1> QED
    BY <1>1, SumSizesIs

(* One more event adds its size.                                           *)
LEMMA SizesAdd ==
    ASSUME NEW lg, NEW lg2, NEW S, IsFiniteSet(S), \A n \in S : lg2[n].size = lg[n].size,
           NEW x, x \notin S, lg2[x].size \in Nat, \A n \in S : lg[n].size \in Nat
    PROVE  SumSizes(lg2, S \cup {x}) = SumSizes(lg, S) + lg2[x].size
  <1> DEFINE g == SizeOf(lg, S)
             h == SizeOf(lg2, S \cup {x})
  <1>1. /\ \A n \in S : h[n] = g[n] /\ g[n] \in Nat
        /\ h[x] = lg2[x].size /\ h[x] \in Nat
    BY DEF SizeOf
  <1>2. IsFiniteSet(S \cup {x})
    BY FS_AddElement
  <1>3. SumSizes(lg, S) = Total(g, S) /\ SumSizes(lg2, S \cup {x}) = Total(h, S \cup {x})
    BY <1>2, SumSizesIs
  <1> HIDE DEF g, h
  <1>4. Total(h, S \cup {x}) = Total(g, S) + h[x]
    BY <1>1, SumAdds
  <1> QED
    BY <1>1, <1>3, <1>4

-----------------------------------------------------------------------------
(* The fills of the log and the sizes left in the book.                    *)

(* The matches of a log that fill order id, and what they fill.            *)
FillsOf(lg, id) ==
    {n \in {k \in DOMAIN lg : lg[k].type = "OrderMatched"} : id \in {lg[n].bid, lg[n].ask}}
FilledIn(lg, id) == SumSizes(lg, FillsOf(lg, id))

LEMMA FilledIs == \A id : FilledSize(id) = FilledIn(log, id)
  BY DEF FilledSize, FilledIn, FillsOf, SumSizes, EventsOf

(* Each order of the book b was placed and has its size less its fills     *)
(* left; no order is filled beyond its size.                               *)
Conserved(lg, b) ==
    /\ \A i \in DOMAIN b : /\ i \in DOMAIN lg /\ lg[i].type = "OrderPlaced" /\ lg[i].c = b[i].c
                           /\ b[i].remaining = Plain[lg[i].c].size - FilledIn(lg, i)
    /\ \A i \in DOMAIN lg : lg[i].type = "OrderPlaced" => FilledIn(lg, i) <= Plain[lg[i].c].size

Longer(lg, lg2) == \A n \in DOMAIN lg : n \in DOMAIN lg2 /\ lg2[n] = lg[n]

LEMMA FillsFinite ==
    ASSUME NEW lg, NEW N \in Nat, LogOK(lg, N), NEW id
    PROVE  /\ IsFiniteSet(FillsOf(lg, id))
           /\ \A n \in FillsOf(lg, id) : lg[n].size \in Nat
           /\ FilledIn(lg, id) \in Nat
  <1>1. FillsOf(lg, id) \subseteq 1..N
    BY DEF FillsOf, LogOK
  <1>2. IsFiniteSet(1..N)
    BY FS_Interval
  <1>3. IsFiniteSet(FillsOf(lg, id))
    BY <1>1, <1>2, FS_Subset
  <1>4. \A n \in FillsOf(lg, id) : lg[n].size \in Nat
    BY DEF FillsOf, LogOK, EventOK
  <1> QED
    BY <1>3, <1>4, SizesNatural DEF FilledIn

(* Events that are not matches fill nothing.                               *)
LEMMA FilledQuiet ==
    ASSUME NEW lg, NEW N \in Nat, LogOK(lg, N), NEW lg2, Longer(lg, lg2),
           \A n \in DOMAIN lg2 \ DOMAIN lg : lg2[n].type # "OrderMatched", NEW id
    PROVE  FilledIn(lg2, id) = FilledIn(lg, id)
  <1>1. FillsOf(lg2, id) = FillsOf(lg, id)
    BY DEF FillsOf, Longer
  <1>2. \A n \in FillsOf(lg, id) : lg2[n].size = lg[n].size
    BY DEF FillsOf, Longer
  <1>3. IsFiniteSet(FillsOf(lg, id))
    BY FillsFinite
  <1> QED
    BY <1>1, <1>2, <1>3, SizesSame DEF FilledIn

(* A match fills its two orders.                                           *)
LEMMA FilledByMatch ==
    ASSUME NEW lg, NEW N \in Nat, LogOK(lg, N), NEW lg2, Longer(lg, lg2),
           NEW n, n \notin DOMAIN lg, DOMAIN lg2 = DOMAIN lg \cup {n},
           lg2[n].type = "OrderMatched", lg2[n].size \in Nat, NEW id
    PROVE  FilledIn(lg2, id) = FilledIn(lg, id) +
                (IF id \in {lg2[n].bid, lg2[n].ask} THEN lg2[n].size ELSE 0)
  <1> DEFINE S == FillsOf(lg, id)
  <1>1. \A k \in S : lg2[k].size = lg[k].size
    BY DEF FillsOf, Longer
  <1>2. IsFiniteSet(S) /\ (\A k \in S : lg[k].size \in Nat) /\ FilledIn(lg, id) \in Nat
    BY FillsFinite
  <1>3. n \notin S
    BY DEF FillsOf
  <1>4. CASE id \in {lg2[n].bid, lg2[n].ask}
    <2>1. FillsOf(lg2, id) = S \cup {n}
      BY <1>4 DEF FillsOf, Longer
    <2> HIDE DEF S
    <2>2. SumSizes(lg2, S \cup {n}) = SumSizes(lg, S) + lg2[n].size
      BY <1>1, <1>2, <1>3, SizesAdd
    <2> QED
      BY <1>4, <2>1, <2>2 DEF FilledIn, S
  <1>5. CASE id \notin {lg2[n].bid, lg2[n].ask}
    <2>1. FillsOf(lg2, id) = S
      BY <1>5 DEF FillsOf, Longer
    <2> HIDE DEF S
    <2>2. SumSizes(lg2, S) = SumSizes(lg, S)
      BY <1>1, <1>2, SizesSame
    <2>3. FilledIn(lg2, id) = FilledIn(lg, id)
      BY <2>1, <2>2 DEF FilledIn, S
    <2> QED
      BY <1>2, <1>5, <2>3
  <1> QED
    BY <1>4, <1>5

(* Orders leave the book and nothing is matched or placed.                 *)
LEMMA ConservedQuiet ==
    ASSUME NEW lg, NEW N \in Nat, LogOK(lg, N), NEW lg2, Longer(lg, lg2),
           \A n \in DOMAIN lg2 \ DOMAIN lg : lg2[n].type \notin {"OrderMatched", "OrderPlaced"},
           NEW b, Conserved(lg, b), NEW b2,
           \A i \in DOMAIN b2 : i \in DOMAIN b /\ b2[i] = b[i]
    PROVE  Conserved(lg2, b2)
  <1>1. \A i : FilledIn(lg2, i) = FilledIn(lg, i)
    BY FilledQuiet
  <1> QED
    BY <1>1 DEF Conserved, Longer

(* A new order has nothing filled.                                         *)
LEMMA ConservedPlaced ==
    ASSUME NEW lg, NEW N \in Nat, LogOK(lg, N), NEW lg2, Longer(lg, lg2),
           DOMAIN lg2 = DOMAIN lg \cup {N + 1}, NEW c \in Ciphertexts,
           lg2[N + 1].type = "OrderPlaced", lg2[N + 1].c = c,
           NEW b, Conserved(lg, b)
    PROVE  Conserved(lg2, Placed(b, N + 1, c))
  <1> DEFINE p == Placed(b, N + 1, c)
             n == N + 1
  <1>1. \A i : FilledIn(lg2, i) = FilledIn(lg, i)
    BY FilledQuiet
  <1>2. FillsOf(lg, n) = {}
    BY DEF FillsOf, LogOK, EventOK
  <1>3. FilledIn(lg, n) = 0
    BY <1>2, NoSizes DEF FilledIn
  <1>4. Plain[c].size \in Nat
    BY PlainType
  <1>5. n \notin DOMAIN lg
    BY DEF LogOK
  <1>6. /\ DOMAIN p = DOMAIN b \cup {n} /\ p[n].c = c /\ p[n].remaining = Plain[c].size
        /\ \A i \in DOMAIN b : i # n => p[i] = b[i]
    BY DEF Placed
  <1> HIDE DEF p, n
  <1>7. DOMAIN lg2 = DOMAIN lg \cup {n} /\ lg2[n].type = "OrderPlaced" /\ lg2[n].c = c
    BY DEF n
  <1>8. ASSUME NEW i \in DOMAIN p
        PROVE  /\ i \in DOMAIN lg2 /\ lg2[i].type = "OrderPlaced" /\ lg2[i].c = p[i].c
               /\ p[i].remaining = Plain[lg2[i].c].size - FilledIn(lg2, i)
    <2>1. CASE i = n
      BY <1>1, <1>3, <1>4, <1>6, <1>7, <2>1
    <2>2. CASE i # n
      BY <1>1, <1>6, <2>2 DEF Conserved, Longer
    <2> QED
      BY <2>1, <2>2
  <1>9. ASSUME NEW i \in DOMAIN lg2, lg2[i].type = "OrderPlaced"
        PROVE  FilledIn(lg2, i) <= Plain[lg2[i].c].size
    <2>1. CASE i = n
      BY <1>1, <1>3, <1>4, <1>7, <2>1
    <2>2. CASE i # n
      BY <1>1, <1>7, <1>9, <2>2 DEF Conserved, Longer
    <2> QED
      BY <2>1, <2>2
  <1>10. Conserved(lg2, p)
    BY <1>8, <1>9 DEF Conserved
  <1> QED
    BY <1>10 DEF p

(* Both legs of a match that its orders have room for.                     *)
LEMMA BothTakes ==
    ASSUME NEW bk, NEW b \in Refilled(bk), NEW m, m.size \in Nat, m.bid # m.ask,
           m.bid \in DOMAIN bk, m.ask \in DOMAIN bk,
           m.size <= b[m.bid].remaining, m.size <= b[m.ask].remaining
    PROVE  /\ Both(b, m)[m.bid].remaining = b[m.bid].remaining - m.size
           /\ Both(b, m)[m.ask].remaining = b[m.ask].remaining - m.size
           /\ \A i \in DOMAIN bk \ {m.bid, m.ask} : Both(b, m)[i] = b[i]
  <1> DEFINE R == [c : Ciphertexts, seq : Nat, remaining : Nat]
             x == apply_fill(b, m.bid, m.size)
             y == apply_fill(x, m.ask, m.size)
  <1>1. b \in [DOMAIN bk -> R] /\ b[m.bid] \in R /\ b[m.ask] \in R
    BY DEF Refilled
  <1>2. x = [b EXCEPT ![m.bid].remaining = @ - m.size]
    BY <1>1 DEF apply_fill
  <1>3. DOMAIN x = DOMAIN bk /\ x[m.ask] = b[m.ask] /\ \A i \in DOMAIN bk \ {m.bid} : x[i] = b[i]
    BY <1>1, <1>2
  <1>4. x[m.bid] = [b[m.bid] EXCEPT !.remaining = @ - m.size]
    BY <1>1, <1>2
  <1>5. x[m.bid].remaining = b[m.bid].remaining - m.size
    BY <1>1, <1>4
  <1>6. x = [i \in DOMAIN bk |-> x[i]]
    BY <1>1, <1>2
  <1> HIDE DEF x
  <1>7. y = [x EXCEPT ![m.ask].remaining = @ - m.size]
    BY <1>3 DEF apply_fill
  <1>8. y[m.ask] = [x[m.ask] EXCEPT !.remaining = @ - m.size]
    BY <1>3, <1>6, <1>7
  <1>9. y[m.ask].remaining = b[m.ask].remaining - m.size
    BY <1>1, <1>3, <1>8
  <1>10. \A i \in DOMAIN bk \ {m.ask} : y[i] = x[i]
    BY <1>6, <1>7
  <1>11. Both(b, m) = y
    BY DEF Both, x
  <1> HIDE DEF y
  <1> QED
    BY <1>3, <1>5, <1>9, <1>10, <1>11

(* A match takes from the book what it records.                            *)
LEMMA ConservedMatch ==
    ASSUME NEW lg, NEW N \in Nat, LogOK(lg, N), NEW lg2, Longer(lg, lg2),
           NEW n, n \notin DOMAIN lg, DOMAIN lg2 = DOMAIN lg \cup {n},
           NEW m, m.size \in Nat, m.bid # m.ask,
           lg2[n].type = "OrderMatched", lg2[n].size = m.size, lg2[n].bid = m.bid, lg2[n].ask = m.ask,
           NEW bk, NEW b \in Refilled(bk), Conserved(lg, b),
           m.bid \in DOMAIN bk, m.ask \in DOMAIN bk,
           m.size <= b[m.bid].remaining, m.size <= b[m.ask].remaining
    PROVE  Conserved(lg2, Both(b, m))
  <1> DEFINE d == Both(b, m)
             took(i) == IF i \in {m.bid, m.ask} THEN m.size ELSE 0
  <1>1. \A i : FilledIn(lg, i) \in Nat /\ FilledIn(lg2, i) = FilledIn(lg, i) + took(i)
    <2> SUFFICES ASSUME NEW i PROVE FilledIn(lg, i) \in Nat /\ FilledIn(lg2, i) = FilledIn(lg, i) + took(i)
      OBVIOUS
    <2>1. FilledIn(lg, i) \in Nat
      BY FillsFinite
    <2>2. FilledIn(lg2, i) = FilledIn(lg, i) + (IF i \in {lg2[n].bid, lg2[n].ask} THEN lg2[n].size ELSE 0)
      BY FilledByMatch
    <2> QED
      BY <2>1, <2>2
  <1>2. d \in Refilled(bk)
    BY BothKeeps
  <1>3. /\ DOMAIN d = DOMAIN bk /\ DOMAIN b = DOMAIN bk
        /\ \A i \in DOMAIN bk : d[i].c = b[i].c /\ b[i].remaining \in Nat /\ b[i].c \in Ciphertexts
    BY <1>2 DEF Refilled
  <1>4. \A i \in DOMAIN bk : d[i].remaining = b[i].remaining - took(i)
    <2>1. /\ d[m.bid].remaining = b[m.bid].remaining - m.size
          /\ d[m.ask].remaining = b[m.ask].remaining - m.size
          /\ \A i \in DOMAIN bk \ {m.bid, m.ask} : d[i] = b[i]
      BY BothTakes
    <2> HIDE DEF d
    <2> QED
      BY <1>3, <2>1
  <1>5. \A i : took(i) \in Nat
    OBVIOUS
  <1>6. \A i \in DOMAIN bk : took(i) <= b[i].remaining
    BY <1>3
  <1>7. \A i : i \notin DOMAIN bk => took(i) = 0
    OBVIOUS
  <1> HIDE DEF d, took
  <1>8. ASSUME NEW i \in DOMAIN d
        PROVE  /\ i \in DOMAIN lg2 /\ lg2[i].type = "OrderPlaced" /\ lg2[i].c = d[i].c
               /\ d[i].remaining = Plain[lg2[i].c].size - FilledIn(lg2, i)
    <2>1. /\ i \in DOMAIN lg /\ lg[i].type = "OrderPlaced" /\ lg[i].c = b[i].c
          /\ b[i].remaining = Plain[lg[i].c].size - FilledIn(lg, i)
      BY <1>3 DEF Conserved
    <2>2. i \in DOMAIN lg2 /\ lg2[i] = lg[i]
      BY <2>1 DEF Longer
    <2>3. Plain[lg[i].c].size \in Nat
      BY <1>3, <2>1, PlainType
    <2>4. d[i].remaining = Plain[lg[i].c].size - FilledIn(lg2, i)
      <3>1. d[i].remaining = b[i].remaining - took(i) /\ FilledIn(lg2, i) = FilledIn(lg, i) + took(i)
        BY <1>1, <1>3, <1>4
      <3>2. FilledIn(lg, i) \in Nat /\ took(i) \in Nat /\ b[i].remaining \in Nat
        BY <1>1, <1>3, <1>5
      <3> QED
        BY <2>1, <2>3, <3>1, <3>2
    <2> QED
      BY <1>3, <2>1, <2>2, <2>4
  <1>9. ASSUME NEW i \in DOMAIN lg2, lg2[i].type = "OrderPlaced"
        PROVE  FilledIn(lg2, i) <= Plain[lg2[i].c].size
    <2>1. i \in DOMAIN lg /\ lg2[i] = lg[i]
      BY <1>9 DEF Longer
    <2>2. FilledIn(lg, i) <= Plain[lg[i].c].size
      BY <1>9, <2>1 DEF Conserved
    <2>3. FilledIn(lg, i) \in Nat /\ took(i) \in Nat /\ FilledIn(lg2, i) = FilledIn(lg, i) + took(i)
      BY <1>1, <1>5
    <2>4. CASE i \in DOMAIN bk
      <3>1. b[i].remaining = Plain[lg[i].c].size - FilledIn(lg, i) /\ lg[i].c = b[i].c
        BY <1>3, <2>4 DEF Conserved
      <3>2. took(i) <= b[i].remaining /\ Plain[lg[i].c].size \in Nat
        BY <1>3, <1>6, <2>4, <3>1, PlainType
      <3> QED
        BY <2>1, <2>3, <3>1, <3>2
    <2>5. CASE i \notin DOMAIN bk
      <3>1. FilledIn(lg2, i) = FilledIn(lg, i)
        BY <1>7, <2>3, <2>5
      <3> QED
        BY <2>1, <2>2, <3>1
    <2> QED
      BY <2>4, <2>5
  <1>10. Conserved(lg2, d)
    BY <1>8, <1>9 DEF Conserved
  <1> QED
    BY <1>10 DEF d

(* The orders of b have room for the match m.                              *)
Fits(b, m) ==
    /\ m.size \in Nat /\ m.bid # m.ask
    /\ m.bid \in DOMAIN b /\ m.ask \in DOMAIN b
    /\ m.size <= b[m.bid].remaining /\ m.size <= b[m.ask].remaining

(* What the allocation has left and what the book has left are the same,   *)
(* so no leg of a round is skipped.                                        *)
LEMMA NoLegSkipped ==
    ASSUME NEW bk, NEW D \in SUBSET DOMAIN bk, NEW base, \A i \in D : base[i] = bk[i].remaining,
           NEW n \in Nat, NEW ms, n = Len(ms), NEW rem, NEW R, Trace(D, base, ms, rem, R),
           \A k \in 1..n : /\ ms[k].bid \in D /\ ms[k].ask \in D /\ ms[k].bid # ms[k].ask
                           /\ ms[k].size \in Nat,
           NEW q, FillSteps(bk, ms, n, q)
    PROVE  \A k \in 1..n : Fits(q[k - 1], ms[k])
  <1>1. /\ q[0] = bk
        /\ \A i \in 1..n : q[i] = Both(q[i - 1], ms[i])
        /\ \A i \in 0..n : q[i] \in Refilled(bk)
    BY DEF FillSteps
  <1>2. /\ R[0] = base
        /\ \A i \in 0..n : R[i] \in [D -> Nat]
        /\ \A i \in 1..n : /\ ms[i].size <= R[i - 1][ms[i].bid]
                           /\ ms[i].size <= R[i - 1][ms[i].ask]
                           /\ R[i] = Take(R[i - 1], ms[i])
    BY DEF Trace
  <1> DEFINE Same(i) == \A j \in D : q[i][j].remaining = R[i][j]
             S == {i \in Nat : i <= n => Same(i)}
  <1>3. ASSUME NEW k \in 1..n, Same(k - 1) PROVE Fits(q[k - 1], ms[k])
    <2> DEFINE m == ms[k]
               b == q[k - 1]
    <2>1. k - 1 \in 0..n
      OBVIOUS
    <2>2. DOMAIN b = DOMAIN bk
      BY <1>1, <2>1 DEF Refilled
    <2>3. /\ m.bid \in D /\ m.ask \in D /\ m.bid # m.ask /\ m.size \in Nat
          /\ m.size <= R[k - 1][m.bid] /\ m.size <= R[k - 1][m.ask]
      BY <1>2
    <2>4. b[m.bid].remaining = R[k - 1][m.bid] /\ b[m.ask].remaining = R[k - 1][m.ask]
      BY <1>3, <2>3
    <2> HIDE DEF m, b
    <2>5. Fits(b, m)
      BY <2>2, <2>3, <2>4 DEF Fits
    <2> QED
      BY <2>5 DEF m, b
  <1>4. 0 \in S
    BY <1>1, <1>2
  <1>5. ASSUME NEW i \in Nat, i \in S PROVE i + 1 \in S
    <2> SUFFICES ASSUME i + 1 <= n PROVE Same(i + 1)
      BY DEF S
    <2> DEFINE k == i + 1
               m == ms[k]
               b == q[i]
    <2>1. k \in 1..n /\ k - 1 = i /\ i \in 0..n /\ k \in 0..n
      OBVIOUS
    <2>2. Same(i)
      BY <1>5, <2>1
    <2>3. Fits(b, m)
      BY <1>3, <2>1, <2>2
    <2>4. q[k] = Both(b, m) /\ R[k] = Take(R[i], m) /\ b \in Refilled(bk) /\ R[i] \in [D -> Nat]
      BY <1>1, <1>2, <2>1
    <2>5. /\ m.bid \in D /\ m.ask \in D /\ m.bid # m.ask /\ m.size \in Nat
          /\ m.size <= R[i][m.bid] /\ m.size <= R[i][m.ask]
      BY <1>2, <2>1
    <2>6. /\ R[k][m.bid] = R[i][m.bid] - m.size
          /\ R[k][m.ask] = R[i][m.ask] - m.size
          /\ \A j \in D \ {m.bid, m.ask} : R[k][j] = R[i][j]
      <3> DEFINE z == R[i]
      <3>1. z \in [D -> Nat] /\ m.size <= z[m.bid] /\ m.size <= z[m.ask]
        BY <2>4, <2>5
      <3> HIDE DEF k, m, b, z
      <3>2. /\ Take(z, m)[m.bid] = z[m.bid] - m.size
            /\ Take(z, m)[m.ask] = z[m.ask] - m.size
            /\ \A j \in D \ {m.bid, m.ask} : Take(z, m)[j] = z[j]
        BY <2>5, <3>1 DEF Take
      <3>3. R[k] = Take(z, m)
        BY <2>4 DEF z
      <3> QED
        BY <3>2, <3>3 DEF z
    <2>7. /\ q[k][m.bid].remaining = b[m.bid].remaining - m.size
          /\ q[k][m.ask].remaining = b[m.ask].remaining - m.size
          /\ \A j \in DOMAIN bk \ {m.bid, m.ask} : q[k][j] = b[j]
      <3> HIDE DEF k, m, b
      <3> QED
        BY <2>3, <2>4, <2>5, BothTakes DEF Fits
    <2>8. \A j \in D : b[j].remaining = R[i][j]
      BY <2>2
    <2> HIDE DEF m, b, k
    <2>9. \A j \in D : q[k][j].remaining = R[k][j]
      <3> SUFFICES ASSUME NEW j \in D PROVE q[k][j].remaining = R[k][j]
        OBVIOUS
      <3>1. CASE j = m.bid
        BY <2>5, <2>6, <2>7, <2>8, <3>1
      <3>2. CASE j = m.ask
        BY <2>5, <2>6, <2>7, <2>8, <3>2
      <3>3. CASE j \notin {m.bid, m.ask}
        BY <2>6, <2>7, <2>8, <3>3
      <3> QED
        BY <3>1, <3>2, <3>3
    <2> QED
      BY <2>9 DEF k
  <1> HIDE DEF S
  <1>6. \A i \in Nat : i \in S
    BY <1>4, <1>5, SetInduction
  <1>7. ASSUME NEW k \in 1..n PROVE Same(k - 1)
    <2>1. k - 1 \in Nat /\ k - 1 <= n
      OBVIOUS
    <2> QED
      BY <1>6, <2>1 DEF S
  <1> HIDE DEF Same
  <1> QED
    BY <1>3, <1>7

LEMMA RoundFits ==
    ASSUME last_seq \in Nat, BookOK(book, last_seq), NEW pair,
           NEW result, result = run(OrdersOf(pair, "Buy"), OrdersOf(pair, "Sell")),
           result # NoAuction, NEW n, n = Len(result.matches),
           NEW q, FillSteps(book, result.matches, n, q)
    PROVE  \A k \in 1..n : Fits(q[k - 1], result.matches[k])
  <1> DEFINE buys == OrdersOf(pair, "Buy")
             sells == OrdersOf(pair, "Sell")
             B == Bidders(buys, result.price)
             A == Askers(sells, result.price)
             ms == result.matches
             D == Ids(B) \cup Ids(A)
             base == Offered(B, A)
  <1>1. RoundOK(buys, sells, result)
    <2>1. TwoSides(buys, sells)
      BY SidesOfBook
    <2> HIDE DEF buys, sells
    <2> QED
      BY <2>1, RunIsLegal DEF buys, sells
  <1>2. PICK rem, R : Trace(D, base, ms, rem, R)
    BY <1>1 DEF RoundOK
  <1>3. TwoSides(B, A) /\ ms \in Seq(Legal(B, A, result.price))
    BY <1>1 DEF RoundOK
  <1>4. \A o \in B \cup A : o.id \in DOMAIN book /\ o.remaining = book[o.id].remaining
    <2>1. \A o \in buys \cup sells : o.id \in DOMAIN book /\ o.remaining = book[o.id].remaining
      BY DEF OrdersOf
    <2>2. B \cup A \subseteq buys \cup sells
      BY DEF Bidders, Askers
    <2> HIDE DEF B, A, buys, sells
    <2> QED
      BY <2>1, <2>2
  <1> HIDE DEF B, A, buys, sells
  <1>5. D \in SUBSET DOMAIN book /\ \A i \in D : base[i] = book[i].remaining
    <2>1. \A i \in D : \E o \in B \cup A : o.id = i
      BY DEF Ids
    <2>2. D \in SUBSET DOMAIN book
      BY <1>4, <2>1
    <2> SUFFICES ASSUME NEW i \in D PROVE base[i] = book[i].remaining
      BY <2>2
    <2>3. base[i] = (CHOOSE o \in B \cup A : o.id = i).remaining
      BY DEF Offered
    <2> QED
      BY <1>4, <2>1, <2>3
  <1> HIDE DEF ms, base
  <1>6. n \in Nat /\ n = Len(ms) /\ \A k \in 1..n : ms[k] \in Legal(B, A, result.price)
    <2>1. n = Len(ms)
      BY DEF ms
    <2> QED
      BY <1>3, <2>1
  <1>7. \A k \in 1..n : /\ ms[k].bid \in D /\ ms[k].ask \in D /\ ms[k].bid # ms[k].ask
                        /\ ms[k].size \in Nat
    <2> SUFFICES ASSUME NEW m \in Legal(B, A, result.price)
                 PROVE  /\ m.bid \in D /\ m.ask \in D /\ m.bid # m.ask /\ m.size \in Nat
      BY <1>6
    <2>1. m.bid \in Ids(B) /\ m.ask \in Ids(A) /\ m.size \in Nat
      BY DEF Legal
    <2>2. \A x \in Ids(B), y \in Ids(A) : x # y
      BY <1>3 DEF Ids, TwoSides
    <2> QED
      BY <2>1, <2>2
  <1> HIDE DEF D
  <1>8. FillSteps(book, ms, n, q)
    BY DEF ms
  <1>9. \A k \in 1..n : Fits(q[k - 1], ms[k])
    BY <1>2, <1>5, <1>6, <1>7, <1>8, NoLegSkipped
  <1> QED
    BY <1>9 DEF ms

(* The events of a log up to number M.                                     *)
Cut(lg, M) == [n \in {k \in DOMAIN lg : k <= M} |-> lg[n]]

LEMMA CutOK ==
    ASSUME NEW lg, NEW N \in Nat, LogOK(lg, N), NEW M \in Nat
    PROVE  LogOK(Cut(lg, M), M)
  <1> DEFINE c == Cut(lg, M)
  <1>1. DOMAIN c = {k \in DOMAIN lg : k <= M} /\ \A k \in DOMAIN c : c[k] = lg[k]
    BY DEF Cut
  <1> HIDE DEF c
  <1>2. DOMAIN c \subseteq 1..M
    BY <1>1 DEF LogOK
  <1>3. \A k \in DOMAIN c : EventOK(c[k], k)
    BY <1>1 DEF LogOK
  <1>4. LogOK(c, M)
    BY <1>2, <1>3 DEF LogOK
  <1> QED
    BY <1>4 DEF c

(* A log lg2 of lg and the events of the n matches ms of a round.          *)
RoundLog(lg, N, lg2, ms, n) ==
    /\ LogOK(lg, N) /\ LogOK(lg2, N + 1 + n) /\ Longer(lg, lg2)
    /\ DOMAIN lg2 = DOMAIN lg \cup (N + 1)..(N + 1 + n)
    /\ lg2[N + 1].type = "AuctionExecuted"
    /\ \A k \in 1..n : /\ lg2[N + 1 + k].type = "OrderMatched"
                       /\ lg2[N + 1 + k].bid = ms[k].bid
                       /\ lg2[N + 1 + k].ask = ms[k].ask
                       /\ lg2[N + 1 + k].size = ms[k].size

(* A round takes from the book what it records.                            *)
LEMMA RoundConserves ==
    ASSUME NEW lg, NEW N \in Nat, NEW lg2, NEW n \in Nat, NEW ms, RoundLog(lg, N, lg2, ms, n),
           NEW bk, NEW q, FillSteps(bk, ms, n, q), \A k \in 1..n : Fits(q[k - 1], ms[k]),
           Conserved(lg, bk)
    PROVE  Conserved(lg2, Open(q[n]))
  <1> DEFINE at(i) == Cut(lg2, N + 1 + i)
             Good(i) == Conserved(at(i), q[i])
             S == {i \in Nat : i <= n => Good(i)}
  <1>1. /\ q[0] = bk
        /\ \A i \in 1..n : q[i] = Both(q[i - 1], ms[i])
        /\ \A i \in 0..n : q[i] \in Refilled(bk)
    BY DEF FillSteps
  <1>2. /\ LogOK(lg, N) /\ LogOK(lg2, N + 1 + n) /\ Longer(lg, lg2)
        /\ DOMAIN lg2 = DOMAIN lg \cup (N + 1)..(N + 1 + n)
        /\ lg2[N + 1].type = "AuctionExecuted"
        /\ DOMAIN lg \subseteq 1..N
    BY DEF RoundLog, LogOK
  <1>3. \A k \in 1..n : /\ lg2[N + 1 + k].type = "OrderMatched"
                        /\ lg2[N + 1 + k].bid = ms[k].bid
                        /\ lg2[N + 1 + k].ask = ms[k].ask
                        /\ lg2[N + 1 + k].size = ms[k].size
    BY DEF RoundLog
  <1>4. \A i \in 0..n : /\ DOMAIN at(i) = DOMAIN lg \cup (N + 1)..(N + 1 + i)
                        /\ \A k \in DOMAIN at(i) : at(i)[k] = lg2[k]
    <2> SUFFICES ASSUME NEW i \in 0..n
                 PROVE  /\ DOMAIN at(i) = DOMAIN lg \cup (N + 1)..(N + 1 + i)
                        /\ \A k \in DOMAIN at(i) : at(i)[k] = lg2[k]
      OBVIOUS
    <2>1. DOMAIN at(i) = {k \in DOMAIN lg2 : k <= N + 1 + i} /\ \A k \in DOMAIN at(i) : at(i)[k] = lg2[k]
      BY DEF Cut
    <2> HIDE DEF at
    <2>2. DOMAIN at(i) = DOMAIN lg \cup (N + 1)..(N + 1 + i)
      BY <1>2, <2>1
    <2> QED
      BY <2>1, <2>2
  <1>5. \A i \in 0..n : LogOK(at(i), N + 1 + i)
    BY <1>2, CutOK
  <1> HIDE DEF at
  <1>6. 0 \in S
    <2>1. /\ DOMAIN at(0) = DOMAIN lg \cup {N + 1} /\ \A k \in DOMAIN at(0) : at(0)[k] = lg2[k]
      <3>1. 0 \in 0..n /\ (N + 1)..(N + 1 + 0) = {N + 1}
        OBVIOUS
      <3> QED
        BY <1>4, <3>1
    <2>2. Longer(lg, at(0))
      BY <1>2, <2>1 DEF Longer
    <2>3. \A k \in DOMAIN at(0) \ DOMAIN lg : at(0)[k].type \notin {"OrderMatched", "OrderPlaced"}
      BY <1>2, <2>1
    <2>4. Conserved(at(0), bk)
      BY <1>2, <2>2, <2>3, ConservedQuiet
    <2> QED
      BY <1>1, <2>4
  <1>7. ASSUME NEW i \in Nat, i \in S PROVE i + 1 \in S
    <2> SUFFICES ASSUME i + 1 <= n PROVE Good(i + 1)
      OBVIOUS
    <2> DEFINE k == i + 1
               e == N + 1 + k
               b == q[i]
               m == ms[k]
               x == at(i)
               y == at(k)
    <2>1. i \in 0..n /\ k \in 0..n /\ k \in 1..n /\ k - 1 = i /\ N + 1 + i \in Nat
      OBVIOUS
    <2>2. Conserved(x, b)
      BY <1>7, <2>1
    <2>3. q[k] = Both(b, m) /\ b \in Refilled(bk) /\ Fits(b, m)
      BY <1>1, <2>1
    <2>4. LogOK(x, N + 1 + i)
      BY <1>5, <2>1
    <2>5. /\ DOMAIN x = DOMAIN lg \cup (N + 1)..(N + 1 + i) /\ \A j \in DOMAIN x : x[j] = lg2[j]
          /\ DOMAIN y = DOMAIN lg \cup (N + 1)..e /\ \A j \in DOMAIN y : y[j] = lg2[j]
      BY <1>4, <2>1
    <2>6. e \notin DOMAIN x /\ DOMAIN y = DOMAIN x \cup {e}
      <3> HIDE DEF x, y
      <3> QED
        BY <1>2, <2>1, <2>5
    <2>7. Longer(x, y)
      BY <2>5, <2>6 DEF Longer
    <2>8. y[e].type = "OrderMatched" /\ y[e].bid = m.bid /\ y[e].ask = m.ask /\ y[e].size = m.size
      BY <1>3, <2>1, <2>5, <2>6
    <2>9. /\ m.size \in Nat /\ m.bid # m.ask /\ m.bid \in DOMAIN bk /\ m.ask \in DOMAIN bk
          /\ m.size <= b[m.bid].remaining /\ m.size <= b[m.ask].remaining
      BY <2>3 DEF Fits, Refilled
    <2> HIDE DEF k, e, b, m, x, y
    <2>10. Conserved(y, Both(b, m))
      BY <2>1, <2>2, <2>3, <2>4, <2>6, <2>7, <2>8, <2>9, ConservedMatch
    <2> QED
      BY <2>3, <2>10 DEF y, k
  <1> HIDE DEF S
  <1>8. n \in S
    BY <1>6, <1>7, SetInduction
  <1>9. Conserved(at(n), q[n])
    BY <1>8 DEF S
  <1>10. /\ DOMAIN at(n) = DOMAIN lg2 /\ \A k \in DOMAIN lg2 : at(n)[k] = lg2[k]
    <2>1. n \in 0..n
      OBVIOUS
    <2> QED
      BY <1>2, <1>4, <2>1
  <1>11. Longer(at(n), lg2)
    BY <1>10 DEF Longer
  <1>12. \A i \in DOMAIN Open(q[n]) : i \in DOMAIN q[n] /\ Open(q[n])[i] = q[n][i]
    BY DEF Open
  <1>13. LogOK(at(n), N + 1 + n) /\ N + 1 + n \in Nat
    BY <1>5
  <1> DEFINE o == Open(q[n])
             x == at(n)
  <1> HIDE DEF o, x
  <1>14. Conserved(lg2, o)
    <2>1. \A i \in DOMAIN o : i \in DOMAIN q[n] /\ o[i] = q[n][i]
      BY <1>12 DEF o
    <2>2. Conserved(x, q[n]) /\ Longer(x, lg2) /\ LogOK(x, N + 1 + n) /\ DOMAIN lg2 \ DOMAIN x = {}
      BY <1>9, <1>10, <1>11, <1>13 DEF x
    <2>3. \A k \in DOMAIN lg2 \ DOMAIN x : lg2[k].type \notin {"OrderMatched", "OrderPlaced"}
      BY <2>2
    <2> QED
      BY <1>13, <2>1, <2>2, <2>3, ConservedQuiet
  <1> QED
    BY <1>14 DEF o


(* Both steps of an append that left no event unacknowledged.              *)
LEMMA AppendConserves ==
    ASSUME Inv, Conserved(log, book), NEW events,
           Appends(events, Quiet),
           \A i \in DOMAIN book' : i \in DOMAIN book /\ book'[i] = book[i]
    PROVE  Conserved(log', book')
  <1>1. /\ last_seq \in Nat /\ LogOK(log, last_seq) /\ StoreOK
    BY DEF Inv, StoreOK
  <1>2. /\ \A n \in DOMAIN log : n \in DOMAIN log' /\ log'[n] = log[n]
        /\ \A n \in DOMAIN log' \ DOMAIN log : /\ n - last_seq \in 1..Len(events)
                                               /\ log'[n] = events[n - last_seq]
    BY <1>1, AppendGrows DEF Appends
  <1>3. \A n \in DOMAIN log' \ DOMAIN log : log'[n].type \notin {"OrderMatched", "OrderPlaced"}
    BY <1>2 DEF Appends, Quiet
  <1>4. Longer(log, log')
    BY <1>2 DEF Longer
  <1> DEFINE lg == log'
             b == book'
  <1> HIDE DEF lg, b
  <1>5. Conserved(lg, b)
    BY <1>1, <1>3, <1>4, ConservedQuiet DEF lg, b
  <1> QED
    BY <1>5 DEF lg, b

(* A failed append that left nothing.                                      *)
LEMMA LossConserves ==
    ASSUME Inv, Conserved(log, book), NEW events, Len(events) \in Nat,
           \A i \in 1..Len(events) : EventOK(events[i], last_seq + i),
           AppendFails(events), unacked' = {}, UNCHANGED book
    PROVE  Conserved(log', book')
  <1>1. /\ last_seq \in Nat /\ LogOK(log, last_seq) /\ StoreOK
    BY DEF Inv, StoreOK
  <1>2. /\ \A n \in DOMAIN log : n \in DOMAIN log' /\ log'[n] = log[n]
        /\ DOMAIN log' \ DOMAIN log \subseteq unacked'
    BY <1>1, AppendGrows
  <1>3. \A n \in DOMAIN log' \ DOMAIN log : log'[n].type \notin {"OrderMatched", "OrderPlaced"}
    BY <1>2
  <1>4. Longer(log, log')
    BY <1>2 DEF Longer
  <1> DEFINE lg == log'
  <1> HIDE DEF lg
  <1>5. Conserved(lg, book)
    BY <1>1, <1>3, <1>4, ConservedQuiet DEF lg
  <1> QED
    BY <1>5 DEF lg

LEMMA MatchPairConserves ==
    ASSUME Inv, Conserved(log, book), MatchPair, unacked' = {}
    PROVE  Conserved(log', book')
  <1> DEFINE events == RoundEvents(MatchedPair, Round)
             ms == Round.matches
             n == Len(ms)
             pair == MatchedPair
  <1>1. \/ Round = NoAuction /\ UNCHANGED <<store, book>>
        \/ Round # NoAuction /\ Append_(events) /\ book' = apply_matches(book, ms)
        \/ Round # NoAuction /\ AppendFails(events) /\ UNCHANGED book
    BY DEF MatchPair, Round, MatchedPair
  <1>2. CASE Round = NoAuction /\ UNCHANGED <<store, book>>
    BY <1>2 DEF store
  <1>3. CASE Round # NoAuction /\ AppendFails(events) /\ UNCHANGED book
    <2>1. Len(events) \in Nat /\ \A i \in 1..Len(events) : EventOK(events[i], last_seq + i)
      BY <1>3, RoundEventsOK
    <2> HIDE DEF events
    <2> QED
      BY <1>3, <2>1, LossConserves
  <1>4. CASE Round # NoAuction /\ Append_(events) /\ book' = apply_matches(book, ms)
    <2>1. last_seq \in Nat /\ BookOK(book, last_seq) /\ StoreOK /\ LogOK(log, last_seq)
      BY DEF Inv, StoreOK
    <2>2. Round = run(OrdersOf(pair, "Buy"), OrdersOf(pair, "Sell"))
      BY DEF Round
    <2>3. Len(events) \in Nat /\ \A i \in 1..Len(events) : EventOK(events[i], last_seq + i)
      BY <1>4, RoundEventsOK
    <2> HIDE DEF pair
    <2>4. /\ n \in Nat /\ ms = [i \in 1..n |-> ms[i]]
          /\ \A k \in 1..n : ms[k].size \in Nat
      <3>1. /\ n \in Nat /\ ms = [i \in 1..n |-> ms[i]]
            /\ \A k \in 1..n : GoodMatch(pair, Round.price, ms[k])
        BY <1>4, <2>1, <2>2, RoundOfBook
      <3> QED
        BY <3>1 DEF GoodMatch
    <2>5. /\ Len(events) = n + 1
          /\ events[1].type = "AuctionExecuted"
          /\ \A k \in 1..n : /\ events[k + 1].type = "OrderMatched"
                             /\ events[k + 1].bid = ms[k].bid
                             /\ events[k + 1].ask = ms[k].ask
                             /\ events[k + 1].size = ms[k].size
      BY <2>4, RoundEventsShape
    <2>6. book \in Refilled(book)
      BY <2>1, BookIsOpen
    <2>7. \A q : FillSteps(book, ms, n, q) => \A k \in 1..n : Fits(q[k - 1], ms[k])
      BY <1>4, <2>1, <2>2, RoundFits
    <2> HIDE DEF events, ms, n
    <2>8. PICK q : FillSteps(book, ms, n, q)
      BY <2>4, <2>6, FillsUnfold
    <2>9. /\ LogOK(log', last_seq') /\ last_seq' = last_seq + (n + 1)
          /\ \A k \in DOMAIN log : k \in DOMAIN log' /\ log'[k] = log[k]
      BY <1>4, <2>1, <2>3, <2>5, AppendGrows DEF StoreOK
    <2>10. DOMAIN log' = DOMAIN log \cup (last_seq + 1)..(last_seq + (n + 1))
      BY <1>4, <2>5 DEF Append_, LogWith
    <2>11. \A i \in 1..(n + 1) : log'[last_seq + i] = events[i]
      BY <1>4, <2>1, <2>4, <2>5, AppendedEvent
    <2> DEFINE lg == log'
    <2>12. RoundLog(log, last_seq, lg, ms, n)
      <3>1. last_seq + (n + 1) = last_seq + 1 + n
        BY <2>1, <2>4
      <3>2. 1 \in 1..(n + 1) /\ lg[last_seq + 1].type = "AuctionExecuted"
        BY <2>4, <2>5, <2>11
      <3>3. ASSUME NEW k \in 1..n PROVE lg[last_seq + 1 + k] = events[k + 1]
        <4>1. k + 1 \in 1..(n + 1) /\ last_seq + (k + 1) = last_seq + 1 + k
          BY <2>1, <2>4
        <4> QED
          BY <2>11, <4>1
      <3>4. Longer(log, lg)
        BY <2>9 DEF Longer
      <3> HIDE DEF lg
      <3>5. LogOK(lg, last_seq + 1 + n) /\ DOMAIN lg = DOMAIN log \cup (last_seq + 1)..(last_seq + 1 + n)
        BY <2>9, <2>10, <3>1 DEF lg
      <3> QED
        BY <2>1, <2>5, <3>2, <3>3, <3>4, <3>5 DEF RoundLog
    <2> HIDE DEF lg
    <2>13. Conserved(lg, Open(q[n]))
      BY <2>1, <2>4, <2>7, <2>8, <2>12, RoundConserves
    <2>14. book' = Open(q[n])
      BY <1>4, <2>8 DEF FillSteps
    <2> QED
      BY <2>13, <2>14 DEF lg
  <1> QED
    BY <1>1, <1>2, <1>3, <1>4

LEMMA PersistConserves ==
    ASSUME Inv, Conserved(log, book), NEW t \in Tasks, persist_order_placed(t), unacked' = {}
    PROVE  Conserved(log', book')
  <1>1. PICK c \in Ciphertexts : placing[t].c = c /\ Plain[c].size > 0 /\ Plain[c].price > 0
    BY DEF Inv, TasksOK, PlacingOK, persist_order_placed, Idle
  <1> DEFINE e == PlacedEvent(c)
             events == <<e>>
             n == last_seq + 1
  <1>2. /\ \/ Append_(events) /\ Admit(c, n, n)
           \/ AppendFails(events) /\ UNCHANGED book
    BY <1>1 DEF persist_order_placed
  <1>3. e.type = "OrderPlaced" /\ e.c = c /\ EventOK(e, n)
    BY <1>1 DEF PlacedEvent, EventOK, EventTypes
  <1>4. Len(events) = 1 /\ events[1] = e
    OBVIOUS
  <1>5. /\ last_seq \in Nat /\ LogOK(log, last_seq) /\ StoreOK
    BY DEF Inv, StoreOK
  <1> HIDE DEF e, events
  <1>6. Len(events) \in Nat /\ \A i \in 1..Len(events) : EventOK(events[i], last_seq + i)
    <2>1. \A i \in 1..Len(events) : i = 1
      BY <1>4
    <2> QED
      BY <1>3, <1>4, <2>1
  <1>7. CASE AppendFails(events) /\ UNCHANGED book
    BY <1>6, <1>7, LossConserves
  <1>8. CASE Append_(events) /\ Admit(c, n, n)
    <2>1. \A k \in DOMAIN log : k \in DOMAIN log' /\ log'[k] = log[k]
      BY <1>5, <1>6, <1>8, AppendGrows
    <2>2. DOMAIN log' = DOMAIN log \cup (last_seq + 1)..(last_seq + 1)
      BY <1>4, <1>8 DEF Append_, LogWith
    <2>3. log'[last_seq + 1] = e
      <3>1. 1 \in 1..1 /\ 1 \in Nat
        OBVIOUS
      <3>2. log'[last_seq + 1] = events[1]
        BY <1>4, <1>5, <1>8, <3>1, AppendedEvent
      <3> QED
        BY <1>4, <3>2
    <2>4. book' = Placed(book, n, c)
      BY <1>8 DEF Admit, Placed
    <2> DEFINE lg == log'
    <2>5. DOMAIN lg = DOMAIN log \cup {last_seq + 1}
      BY <1>5, <2>2
    <2>6. Longer(log, lg)
      BY <2>1 DEF Longer
    <2>7. lg[last_seq + 1].type = "OrderPlaced" /\ lg[last_seq + 1].c = c
      BY <1>3, <2>3
    <2> HIDE DEF lg
    <2>8. Conserved(lg, Placed(book, last_seq + 1, c))
      BY <1>5, <2>5, <2>6, <2>7, ConservedPlaced
    <2> QED
      BY <2>4, <2>8 DEF lg
  <1> QED
    BY <1>2, <1>7, <1>8

LEMMA WithdrawalConserves ==
    ASSUME Inv, Conserved(log, book),
           \/ \E id \in DOMAIN book : cancel_order(id)
           \/ \E pair \in Pairs : \/ register_pair_with_event(pair)
                                  \/ suspend_pair(pair)
                                  \/ delist_pair(pair)
           \/ ExpireOrders
    PROVE  Conserved(log', book')
  <1>1. PICK events : Appends(events, Quiet)
    <2>1. ASSUME NEW id \in DOMAIN book, cancel_order(id) PROVE \E events : Appends(events, Quiet)
      <3> DEFINE e == [type |-> "OrderCancelled", id |-> id]
      <3>1. Append_(<<e>>) \/ AppendFails(<<e>>)
        BY <2>1 DEF cancel_order
      <3>2. EventOK(e, last_seq + 1) /\ e.type \in Quiet
        BY DEF EventOK, EventTypes, Quiet
      <3> HIDE DEF e
      <3> QED
        BY <3>1, <3>2, SingleAppend
    <2>2. ASSUME NEW pair \in Pairs, register_pair_with_event(pair) \/ suspend_pair(pair)
          PROVE  \E events : Appends(events, Quiet)
      <3> DEFINE reg == [type |-> "PairRegistered", pair |-> pair]
                 sus == [type |-> "PairSuspended", pair |-> pair]
      <3>1. PICK e \in {reg, sus} : Append_(<<e>>) \/ AppendFails(<<e>>)
        BY <2>2 DEF register_pair_with_event, suspend_pair
      <3>2. EventOK(e, last_seq + 1) /\ e.type \in Quiet
        BY <3>1 DEF EventOK, EventTypes, Quiet
      <3> QED
        BY <3>1, <3>2, SingleAppend
    <2> QED
      BY <2>1, <2>2, RemovalsAppend
  <1>2. book' = book \/ \E ids : book' = remove_orders(book, ids)
    BY DEF cancel_order, register_pair_with_event, suspend_pair, delist_pair, ExpireOrders
  <1>3. \A i \in DOMAIN book' : i \in DOMAIN book /\ book'[i] = book[i]
    BY <1>2 DEF remove_orders
  <1> QED
    BY <1>1, <1>3, AppendConserves

(* Without unacknowledged events the log accounts for the book.            *)
FillInv == AllAcked => Conserved(log, book)

LEMMA StepConserves == Inv /\ LiveIsReplay /\ FillInv /\ [Next]_vars => FillInv'
  <1> SUFFICES ASSUME Inv, LiveIsReplay, FillInv, [Next]_vars, unacked' = {}
               PROVE  Conserved(log', book')
    BY DEF FillInv, AllAcked
  <1>1. unacked = {}
    BY BookSteps DEF Shrinks, Places, Restart
  <1>2. Conserved(log, book)
    BY <1>1 DEF FillInv, AllAcked
  <1>3. ASSUME UNCHANGED <<log, book>> PROVE Conserved(log', book')
    BY <1>2, <1>3
  <1>4. CASE Restart
    <2>1. UNCHANGED <<log, book>>
      BY <1>1, <1>4, RestartIsInvisible DEF Restart
    <2> QED
      BY <1>3, <2>1
  <1>5. CASE MatchPair
    BY <1>2, <1>5, MatchPairConserves
  <1>6. ASSUME NEW t \in Tasks, persist_order_placed(t) PROVE Conserved(log', book')
    BY <1>2, <1>6, PersistConserves
  <1>7. CASE \/ \E id \in DOMAIN book : cancel_order(id)
             \/ \E pair \in Pairs : \/ register_pair_with_event(pair)
                                    \/ suspend_pair(pair)
                                    \/ delist_pair(pair)
             \/ ExpireOrders
    BY <1>2, <1>7, WithdrawalConserves
  <1>8. CASE \/ \E t \in Tasks : \/ \E c \in Ciphertexts : SubmitOrder(t, c)
                                 \/ ValidateOrder(t)
                                 \/ RejectOrder(t)
             \/ \E id \in dropping : drop_secret(id)
             \/ StartTick \/ ReleaseLock \/ build_batch_witness \/ prune_dead_secrets \/ ClockTick
             \/ UNCHANGED vars
    <2>1. UNCHANGED <<log, book>>
      BY <1>8 DEF SubmitOrder, ValidateOrder, RejectOrder, drop_secret, StartTick, ReleaseLock,
                  build_batch_witness, prune_dead_secrets, ClockTick, store, vars
    <2> QED
      BY <1>3, <2>1
  <1> QED
    BY <1>4, <1>5, <1>6, <1>7, <1>8 DEF Next

(* Fills reach the log as matches and the book as two legs, live and in    *)
(* replay, and a leg larger than what is left is skipped with a warning    *)
(* (book.rs): no leg ever is.  As long as no refused append left an event  *)
(* behind, each resting order has its size less every fill recorded for    *)
(* it, and none is filled beyond its size, for any orders, over any number *)
(* of rounds and restarts.                                                 *)
THEOREM FillsAreConserved == Spec => [](AllAcked => FillsConserved)
  <1>1. Init => FillInv
    <2> SUFFICES ASSUME Init PROVE Conserved(log, book)
      BY DEF FillInv
    <2>1. log = <<>> /\ book = <<>>
      BY DEF Init
    <2>2. DOMAIN log = {} /\ DOMAIN book = {}
      BY <2>1
    <2> QED
      BY <2>2 DEF Conserved
  <1>2. Spec => []FillInv
    BY <1>1, StepConserves, Invariance, ReplayIsLive, PTL DEF Spec
  <1>3. FillInv => (AllAcked => FillsConserved)
    BY FilledIs DEF FillInv, Conserved, FillsConserved, EventsOf
  <1> QED
    BY <1>2, <1>3, PTL
=============================================================================
