---------------------------- MODULE ProofLemmas -----------------------------
(* Facts about numbers, finite sets and queues that several proofs use.    *)
EXTENDS Sequences, FiniteSetTheorems, WellFoundedInduction, TLAPS

(* A set of natural numbers that is not empty has a smallest one.          *)
LEMMA SmallestOfNat ==
  ASSUME NEW T \in SUBSET Nat, T # {}
  PROVE  \E x \in T : \A y \in T : x <= y
<1>1. IsWellFoundedOn(OpToRel(<, Nat), Nat)
  BY NatLessThanWellFounded
<1>2. PICK x \in T : \A y \in T : <<y, x>> \notin OpToRel(<, Nat)
  BY <1>1, WFMin
<1>3. \A y \in T : ~ (y < x)
  BY <1>2 DEF OpToRel
<1>4. \A y \in T : x <= y
  BY <1>3
<1> QED  BY <1>4

(* A set of numbers up to n that is not empty has a largest one.           *)
LEMMA LargestOfRange ==
  ASSUME NEW n \in Nat, NEW T \in SUBSET (1..n), T # {}
  PROVE  \E x \in T : \A y \in T : y <= x
<1> DEFINE Bounds == {m \in Nat : \A y \in T : y <= m}
<1>1. n \in Bounds
  OBVIOUS
<1>2. PICK x \in Bounds : \A m \in Bounds : x <= m
  <2>1. Bounds \in SUBSET Nat /\ Bounds # {}
    BY <1>1
  <2> HIDE DEF Bounds
  <2> QED  BY <2>1, SmallestOfNat
<1>3. CASE x \in T
  BY <1>3
<1>4. CASE x \notin T
  <2>1. \A y \in T : y <= x - 1 /\ x - 1 \in Nat
    BY <1>4
  <2>2. x - 1 \in Bounds /\ x \in Nat
    BY <2>1
  <2> QED  BY <1>2, <2>2
<1> QED  BY <1>3, <1>4

(* The least element of a finite set of integers: the one with the fewest  *)
(* below it.                                                               *)
LEMMA LeastOfFinite ==
  ASSUME NEW S \in SUBSET Int, IsFiniteSet(S), S # {}
  PROVE  \E x \in S : \A y \in S : x <= y
<1> DEFINE Below(x) == {y \in S : y < x}
           Counts == {Cardinality(Below(x)) : x \in S}
<1>1. ASSUME NEW x \in S
      PROVE  IsFiniteSet(Below(x)) /\ Cardinality(Below(x)) \in Nat
  <2>1. Below(x) \subseteq S
    OBVIOUS
  <2> QED  BY <2>1, FS_Subset, FS_CardinalityType
<1>2. Counts \in SUBSET Nat /\ Counts # {}
  BY <1>1
<1>3. PICK c \in Counts : \A d \in Counts : c <= d
  <2> HIDE DEF Counts
  <2> QED  BY <1>2, SmallestOfNat
<1>4. PICK x \in S : c = Cardinality(Below(x))
  OBVIOUS
<1>5. ASSUME NEW y \in S, y < x
      PROVE  FALSE
  <2>1. Below(y) \subseteq Below(x) /\ y \in Below(x) /\ y \notin Below(y)
    <3>1. x \in Int /\ y \in Int /\ y < x /\ ~ (y < y)
      BY <1>5
    <3>2. ASSUME NEW z \in S, z < y
          PROVE  z < x
      <4>1. z \in Int
        OBVIOUS
      <4> QED  BY <3>1, <3>2, <4>1
    <3> QED  BY <1>5, <3>1, <3>2
  <2>a. Cardinality(Below(y)) \in Counts
    OBVIOUS
  <2> HIDE DEF Counts
  <2>2. Cardinality(Below(x)) <= Cardinality(Below(y))
    BY <1>3, <1>4, <2>a
  <2>3. IsFiniteSet(Below(x)) /\ Cardinality(Below(x)) \in Nat /\ Cardinality(Below(y)) \in Nat
    BY <1>1
  <2> HIDE DEF Below
  <2>4. Cardinality(Below(y)) <= Cardinality(Below(x)) /\ Cardinality(Below(y)) # Cardinality(Below(x))
    BY <2>1, <2>3, FS_Subset
  <2> QED  BY <2>2, <2>3, <2>4
<1> QED  BY <1>5

(* What a function makes of a finite set is finite.                        *)
LEMMA ImageIsFinite ==
  ASSUME NEW f, IsFiniteSet(DOMAIN f)
  PROVE  IsFiniteSet({f[x] : x \in DOMAIN f})
<1> DEFINE T == {f[x] : x \in DOMAIN f}
           g == [x \in DOMAIN f |-> f[x]]
<1>1. g \in [DOMAIN f -> T] /\ \A t \in T : \E x \in DOMAIN f : g[x] = t
  OBVIOUS
<1>2. g \in Surjection(DOMAIN f, T)
  BY <1>1 DEF Surjection
<1> QED  BY <1>2, FS_Surjection

-----------------------------------------------------------------------------
(* Counting the messages of a set in a queue.                              *)
Hits(q, S) == {i \in DOMAIN q : q[i] \in S}
HitCount(q, S) == Cardinality(Hits(q, S))

LEMMA HitsFinite ==
  ASSUME NEW M, NEW q \in Seq(M), NEW S
  PROVE  IsFiniteSet(Hits(q, S)) /\ HitCount(q, S) \in Nat
<1>1. DOMAIN q = 1..Len(q) /\ Len(q) \in Nat
  OBVIOUS
<1>2. IsFiniteSet(DOMAIN q)
  BY <1>1, FS_Interval
<1>3. Hits(q, S) \in SUBSET DOMAIN q
  BY DEF Hits
<1> QED  BY <1>2, <1>3, FS_Subset, FS_CardinalityType DEF HitCount

(* Two queues one after the other.                                         *)
LEMMA HitsJoined ==
  ASSUME NEW M, NEW p \in Seq(M), NEW q \in Seq(M), NEW S
  PROVE  HitCount(p \o q, S) = HitCount(p, S) + HitCount(q, S)
<1> DEFINE n == Len(p)
           H == Hits(q, S)
           later == {i \in Hits(p \o q, S) : i > n}
           shift == [i \in H |-> i + n]
<1>1. /\ DOMAIN (p \o q) = 1..(n + Len(q)) /\ DOMAIN p = 1..n /\ DOMAIN q = 1..Len(q)
      /\ n \in Nat /\ Len(q) \in Nat /\ p \o q \in Seq(M)
      /\ \A i \in 1..n : (p \o q)[i] = p[i]
      /\ \A i \in 1..Len(q) : (p \o q)[i + n] = q[i]
  OBVIOUS
<1> HIDE DEF n
<1>2. /\ IsFiniteSet(Hits(p, S)) /\ IsFiniteSet(H)
      /\ Cardinality(Hits(p, S)) \in Nat /\ Cardinality(H) \in Nat
  BY HitsFinite DEF HitCount
<1>3. shift \in Bijection(H, later)
  <2>1. ASSUME NEW i \in H
        PROVE  i + n \in later /\ i \in Int
    BY <1>1 DEF Hits
  <2>2. ASSUME NEW j \in later
        PROVE  j - n \in H /\ j - n + n = j
    <3>1. j \in 1..(n + Len(q)) /\ j > n /\ (p \o q)[j] \in S
      BY <1>1 DEF Hits
    <3>2. j - n \in 1..Len(q) /\ j - n + n = j
      BY <1>1, <3>1
    <3> QED  BY <1>1, <3>1, <3>2 DEF Hits
  <2>3. shift \in [H -> later] /\ \A j \in later : \E i \in H : shift[i] = j
    BY <2>1, <2>2
  <2>4. \A i, j \in H : shift[i] = shift[j] => i = j
    BY <2>1, <1>1
  <2> QED  BY <2>3, <2>4 DEF Bijection, Injection, Surjection, IsInjective
<1>4. IsFiniteSet(later) /\ Cardinality(later) = Cardinality(H)
  <2>1. ExistsBijection(H, later)
    BY <1>3 DEF ExistsBijection
  <2> QED  BY <1>2, <2>1, FS_Bijection
<1>5. Hits(p \o q, S) = Hits(p, S) \cup later
  <2>1. Hits(p, S) = {i \in 1..n : (p \o q)[i] \in S}
    BY <1>1 DEF Hits
  <2>2. Hits(p \o q, S) = {i \in 1..(n + Len(q)) : (p \o q)[i] \in S}
    BY <1>1 DEF Hits
  <2> QED  BY <2>1, <2>2, <1>1
<1>6. Hits(p, S) \cap later = {}
  BY <1>1 DEF Hits
<1>7. Cardinality(Hits(p, S) \cup later) = Cardinality(Hits(p, S)) + Cardinality(later)
  <2> HIDE DEF later
  <2>1. Cardinality(Hits(p, S) \cap later) = 0
    BY <1>6, FS_EmptySet
  <2>2. Cardinality(Hits(p, S) \cup later) =
          Cardinality(Hits(p, S)) + Cardinality(later) - Cardinality(Hits(p, S) \cap later)
    BY <1>2, <1>4, FS_Union
  <2> QED  BY <2>1, <2>2, <1>2, <1>4
<1> QED  BY <1>4, <1>5, <1>7 DEF HitCount

LEMMA HitsOne ==
  ASSUME NEW m, NEW S
  PROVE  HitCount(<<m>>, S) = IF m \in S THEN 1 ELSE 0
<1>1. DOMAIN <<m>> = {1} /\ <<m>>[1] = m
  OBVIOUS
<1>2. Hits(<<m>>, S) = IF m \in S THEN {1} ELSE {}
  BY <1>1 DEF Hits
<1> QED  BY <1>2, FS_Singleton, FS_EmptySet DEF HitCount

LEMMA HitsNone == \A S : HitCount(<<>>, S) = 0
<1>1. \A S : Hits(<<>>, S) = {}
  BY DEF Hits
<1> QED  BY <1>1, FS_EmptySet DEF HitCount

LEMMA HitsAppend ==
  ASSUME NEW M, NEW q \in Seq(M), NEW m \in M, NEW S
  PROVE  HitCount(Append(q, m), S) = HitCount(q, S) + IF m \in S THEN 1 ELSE 0
<1>1. Append(q, m) = q \o <<m>> /\ <<m>> \in Seq(M)
  OBVIOUS
<1>2. HitCount(q \o <<m>>, S) = HitCount(q, S) + HitCount(<<m>>, S)
  BY <1>1, HitsJoined
<1>3. HitCount(<<m>>, S) = IF m \in S THEN 1 ELSE 0
  BY HitsOne
<1> QED  BY <1>1, <1>2, <1>3

LEMMA HitsTail ==
  ASSUME NEW M, NEW q \in Seq(M), q # <<>>, NEW S
  PROVE  HitCount(q, S) = HitCount(Tail(q), S) + IF Head(q) \in S THEN 1 ELSE 0
<1>1. q = <<Head(q)>> \o Tail(q) /\ <<Head(q)>> \in Seq(M) /\ Tail(q) \in Seq(M)
  OBVIOUS
<1>2. HitCount(<<Head(q)>> \o Tail(q), S) = HitCount(<<Head(q)>>, S) + HitCount(Tail(q), S)
  BY <1>1, HitsJoined
<1>3. HitCount(Tail(q), S) \in Nat
  BY <1>1, HitsFinite
<1>4. HitCount(<<Head(q)>>, S) = IF Head(q) \in S THEN 1 ELSE 0
  BY HitsOne
<1>5. HitCount(q, S) = HitCount(<<Head(q)>>, S) + HitCount(Tail(q), S)
  BY <1>1, <1>2, Zenon
<1>6. CASE Head(q) \in S
  BY <1>3, <1>4, <1>5, <1>6
<1>7. CASE Head(q) \notin S
  BY <1>3, <1>4, <1>5, <1>7
<1> QED  BY <1>6, <1>7

(* The messages of a type.                                                 *)
Places(q, t) == {i \in DOMAIN q : q[i].type = t}
CountOf(q, t) == Cardinality(Places(q, t))

LEMMA CountHits ==
  ASSUME NEW M, NEW q \in Seq(M), NEW t
  PROVE  CountOf(q, t) = HitCount(q, {m \in M : m.type = t}) /\ CountOf(q, t) \in Nat
<1> DEFINE S == {m \in M : m.type = t}
<1>1. \A i \in DOMAIN q : q[i] \in M
  OBVIOUS
<1>2. Places(q, t) = Hits(q, S)
  BY <1>1 DEF Places, Hits
<1>3. HitCount(q, S) \in Nat
  BY HitsFinite
<1> QED  BY <1>2, <1>3 DEF CountOf, HitCount

LEMMA CountEmpty == \A t : CountOf(<<>>, t) = 0
<1>1. \A t : Places(<<>>, t) = {}
  BY DEF Places
<1> QED  BY <1>1, FS_EmptySet DEF CountOf

(* Messages of other types do not count.                                   *)
LEMMA CountOthers ==
  ASSUME NEW M, NEW p \in Seq(M), NEW q \in Seq(M), NEW t,
         \A i \in DOMAIN q : q[i].type # t
  PROVE  CountOf(p \o q, t) = CountOf(p, t)
<1> DEFINE S == {m \in M : m.type = t}
<1>1. Hits(q, S) = {}
  BY DEF Hits
<1>2. HitCount(q, S) = 0 /\ p \o q \in Seq(M)
  <2>1. HitCount(q, S) = 0
    BY <1>1, FS_EmptySet DEF HitCount
  <2> QED  BY <2>1
<1>3. /\ CountOf(p \o q, t) = HitCount(p \o q, S) /\ CountOf(p, t) = HitCount(p, S)
      /\ CountOf(p, t) \in Nat
  BY <1>2, CountHits
<1>4. HitCount(p \o q, S) = HitCount(p, S) + HitCount(q, S)
  BY HitsJoined
<1> QED  BY <1>2, <1>3, <1>4

LEMMA CountAppend ==
  ASSUME NEW M, NEW q \in Seq(M), NEW m \in M, NEW t
  PROVE  CountOf(Append(q, m), t) = CountOf(q, t) + IF m.type = t THEN 1 ELSE 0
<1> DEFINE S == {x \in M : x.type = t}
<1>1. CountOf(q, t) = HitCount(q, S) /\ CountOf(Append(q, m), t) = HitCount(Append(q, m), S)
  <2>1. Append(q, m) \in Seq(M)
    OBVIOUS
  <2> QED  BY <2>1, CountHits
<1>2. HitCount(Append(q, m), S) = HitCount(q, S) + IF m \in S THEN 1 ELSE 0
  BY HitsAppend
<1> QED  BY <1>1, <1>2

LEMMA CountTail ==
  ASSUME NEW M, NEW q \in Seq(M), q # <<>>, NEW t
  PROVE  CountOf(q, t) = CountOf(Tail(q), t) + IF Head(q).type = t THEN 1 ELSE 0
<1> DEFINE S == {x \in M : x.type = t}
<1>1. Tail(q) \in Seq(M) /\ Head(q) \in M
  OBVIOUS
<1>2. CountOf(q, t) = HitCount(q, S) /\ CountOf(Tail(q), t) = HitCount(Tail(q), S)
  BY <1>1, CountHits
<1>3. HitCount(q, S) = HitCount(Tail(q), S) + IF Head(q) \in S THEN 1 ELSE 0
  BY HitsTail
<1> QED  BY <1>1, <1>2, <1>3

(* The same for whatever is a queue at all.                               *)
IsQueue(q) == \E M : q \in Seq(M)

LEMMA QueueFacts ==
  ASSUME NEW t
  PROVE
  /\ IsQueue(<<>>) /\ CountOf(<<>>, t) = 0
  /\ \A q : IsQueue(q) => CountOf(q, t) \in Nat
  /\ \A q, m : IsQueue(q) =>
       /\ IsQueue(Append(q, m))
       /\ CountOf(Append(q, m), t) =
            CountOf(q, t) + IF m.type = t THEN 1 ELSE 0
  /\ \A q : IsQueue(q) /\ q # <<>> =>
       /\ IsQueue(Tail(q)) /\ CountOf(Tail(q), t) \in Nat
       /\ CountOf(q, t) =
            CountOf(Tail(q), t) + IF Head(q).type = t THEN 1 ELSE 0
<1>0. ASSUME NEW q, NEW M, q \in Seq(M)
      PROVE  IsQueue(q)
  BY <1>0 DEF IsQueue
<1>1. IsQueue(<<>>) /\ CountOf(<<>>, t) = 0
  <2>1. <<>> \in Seq({})
    OBVIOUS
  <2> QED  BY <2>1, <1>0, CountEmpty
<1>2. ASSUME NEW q, IsQueue(q)
      PROVE  CountOf(q, t) \in Nat
  BY <1>2, CountHits DEF IsQueue
<1>3. ASSUME NEW q, NEW m, IsQueue(q)
      PROVE  /\ IsQueue(Append(q, m))
             /\ CountOf(Append(q, m), t) =
                  CountOf(q, t) + IF m.type = t THEN 1 ELSE 0
  <2>1. PICK M : q \in Seq(M)
    BY <1>3 DEF IsQueue
  <2>2. q \in Seq(M \cup {m}) /\ m \in M \cup {m} /\ Append(q, m) \in Seq(M \cup {m})
    BY <2>1
  <2>3. IsQueue(Append(q, m))
    BY <2>2, <1>0
  <2>4. CountOf(Append(q, m), t) =
          CountOf(q, t) + IF m.type = t THEN 1 ELSE 0
    BY <2>2, CountAppend
  <2> QED  BY <2>3, <2>4
<1>4. ASSUME NEW q, IsQueue(q), q # <<>>
      PROVE  /\ IsQueue(Tail(q))
             /\ CountOf(q, t) =
                  CountOf(Tail(q), t) + IF Head(q).type = t THEN 1 ELSE 0
  <2>1. PICK M : q \in Seq(M)
    BY <1>4 DEF IsQueue
  <2>2. Tail(q) \in Seq(M)
    BY <2>1, <1>4
  <2>3. CountOf(q, t) =
          CountOf(Tail(q), t) + IF Head(q).type = t THEN 1 ELSE 0
    BY <2>1, <1>4, CountTail
  <2>4. IsQueue(Tail(q))
    BY <2>2, <1>0
  <2> QED  BY <2>3, <2>4
<1> QED  BY <1>1, <1>2, <1>3, <1>4

LEMMA CountMember ==
  ASSUME NEW q, IsQueue(q), NEW i \in DOMAIN q
  PROVE  CountOf(q, q[i].type) > 0
<1>1. PICK M : q \in Seq(M)
  BY DEF IsQueue
<1> DEFINE t == q[i].type
<1>2. IsFiniteSet(Places(q, t)) /\ CountOf(q, t) \in Nat
  <2>1. DOMAIN q = 1..Len(q) /\ Len(q) \in Nat /\ Places(q, t) \in SUBSET DOMAIN q
    BY <1>1 DEF Places
  <2>2. IsFiniteSet(DOMAIN q)
    BY <2>1, FS_Interval
  <2>3. IsFiniteSet(Places(q, t))
    BY <2>1, <2>2, FS_Subset
  <2> QED  BY <1>1, <2>3, CountHits
<1>3. i \in Places(q, t)
  BY DEF Places
<1>4. CountOf(q, t) # 0
  BY <1>2, <1>3, FS_EmptySet DEF CountOf
<1> QED  BY <1>2, <1>4

(* Any order of a finite set is a queue of it.                             *)
LEMMA OrderExists ==
  ASSUME NEW S, IsFiniteSet(S)
  PROVE  \E q \in [1..Cardinality(S) -> S] : \A i, j \in DOMAIN q : i # j => q[i] # q[j]
<1> DEFINE n == Cardinality(S)
<1>1. n \in Nat /\ ExistsBijection(1..n, S)
  BY FS_CardinalityType
<1>2. PICK f : f \in Bijection(1..n, S)
  BY <1>1 DEF ExistsBijection
<1>3. f \in [1..n -> S] /\ \A i, j \in 1..n : i # j => f[i] # f[j]
  BY <1>2 DEF Bijection, Injection, IsInjective
<1> QED  BY <1>3

(* In such a queue every element of the set stands once.                   *)
LEMMA OrderHits ==
  ASSUME NEW S, IsFiniteSet(S), NEW q \in [1..Cardinality(S) -> S],
         \A i, j \in DOMAIN q : i # j => q[i] # q[j], NEW T, NEW m, T \cap S \subseteq {m}
  PROVE  HitCount(q, T) = IF m \in S /\ m \in T THEN 1 ELSE 0
<1> DEFINE n == Cardinality(S)
<1>1. n \in Nat /\ DOMAIN q = 1..n
  BY FS_CardinalityType
<1>2. q \in Surjection(1..n, S)
  <2>1. q \in Injection(1..n, S)
    BY <1>1 DEF Injection, IsInjective
  <2>2. Cardinality(1..n) = n
    BY <1>1, FS_Interval
  <2> QED  BY <2>1, <2>2, FS_Injection
<1>3. CASE m \in S /\ m \in T
  <2>1. PICK i \in 1..n : q[i] = m
    BY <1>2, <1>3 DEF Surjection
  <2>2. Hits(q, T) = {i}
    BY <1>1, <1>3, <2>1 DEF Hits
  <2> QED  BY <1>3, <2>2, FS_Singleton DEF HitCount
<1>4. CASE ~ (m \in S /\ m \in T)
  <2>1. Hits(q, T) = {}
    BY <1>1, <1>4 DEF Hits
  <2> QED  BY <1>4, <2>1, FS_EmptySet DEF HitCount
<1> QED  BY <1>3, <1>4
=============================================================================
